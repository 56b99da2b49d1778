-------------------------- MODULE AppSessionProofs --------------------------
(***************************************************************************)
(* Proofs about AppSession, for every conversation, every set of commands  *)
(* and every length of a session.                                          *)
(*                                                                         *)
(* First the two threads: the UI thread never takes up the history or      *)
(* starts a worker while one runs, the two never wait for each other, and  *)
(* a pending /init or /compact is that of the turn in flight. Of the       *)
(* worker the argument needs but two kinds of steps: those that post an    *)
(* event and those that post none.                                         *)
(*                                                                         *)
(* Then App implements the owner AgentLoop assumes: every step is a step   *)
(* of AgentLoop or leaves its variables alone, so that what is proved of   *)
(* AgentLoop with a nondeterministic owner holds of the program. Two calls *)
(* need an argument.  Join: the final event was the last of the queue.     *)
(* SetSystemPrompt and CompactInto: the text App takes out of the history  *)
(* is one the assistant produced in a turn. What is known of both sides    *)
(* together also gives the types of App's own variables, and that the      *)
(* completion of a turn is the one the turn was started for.               *)
(***************************************************************************)
EXTENDS AppSession, AgentLoopProofs

WF == INSTANCE WellFoundedInduction

-----------------------------------------------------------------------------
(* The inductive invariant.                                                 *)

EventsTyped == events \in Seq([type : EventTypes, turn : Nat]) /\ turn \in Nat

\* A worker whose final event is in the queue has exited and posts no more.
FinalLast ==
  \A n \in DOMAIN events : events[n].type \in FinalTypes => wpc = "exited" /\ n = Len(events)

RequestPending ==
  \A n \in DOMAIN events : events[n].type = "ConfirmRequest" =>
    wpc = "wait" /\ reply = "none" /\ n = Len(events)

PromiseFresh == wpc = "gate" => reply = "none"

QueueInv == EventsTyped /\ FinalLast /\ RequestPending /\ PromiseFresh

\* The final event was the last, so nothing is left when the worker is joined.
JoinReady == ui = "join" => wpc = "exited" /\ events = <<>>

FlagsTyped ==
  /\ busy \in BOOLEAN /\ init_pending \in BOOLEAN /\ compact_pending \in BOOLEAN
  /\ special \in BOOLEAN
  /\ special => ui = "finish"

UiInv == OneWorker /\ JoinReady /\ PromptMatchesWorker /\ PendingMatchesTurn /\ FlagsTyped

AppInv == QueueInv /\ UiInv

LEMMA InitApp == Init => AppInv
<1> SUFFICES ASSUME Init PROVE AppInv
  OBVIOUS
<1>1. /\ wpc = "idle" /\ events = <<>> /\ reply = "none" /\ turn = 0
      /\ ui = "loop" /\ busy = FALSE /\ init_pending = FALSE /\ compact_pending = FALSE
      /\ special = FALSE
  BY DEF Init, AgentInit
<1>2. QueueInv
  BY <1>1 DEF QueueInv, EventsTyped, FinalLast, RequestPending, PromiseFresh
<1>3. OneWorker /\ JoinReady /\ PromptMatchesWorker
  BY <1>1 DEF OneWorker, JoinReady, PromptMatchesWorker
<1>4. PendingMatchesTurn /\ FlagsTyped
  BY <1>1 DEF PendingMatchesTurn, Unfinished, FlagsTyped
<1> QED
  BY <1>2, <1>3, <1>4 DEF AppInv, UiInv

-----------------------------------------------------------------------------
(* The worker.                                                              *)

AtWork == Phases \ {"idle", "exited"}

\* A step that posts nothing; it waits for no answer and does not begin to.
Silent ==
  /\ UNCHANGED <<events, turn>>
  /\ wpc \in AtWork /\ wpc' \in AtWork \ {"wait", "gate"}
  /\ wpc = "wait" => reply # "none"

Posts(type) ==
  /\ Post(type) /\ type \in EventTypes /\ turn' = turn
  /\ wpc \in AtWork \ {"wait"} /\ wpc' # "idle"
  /\ type \in FinalTypes <=> wpc' = "exited"
  /\ type = "ConfirmRequest" <=> wpc' = "wait"
  /\ wpc' = "wait" => wpc = "gate" /\ reply' = reply
  /\ wpc' = "gate" => reply' = "none"

LEMMA WorkerSteps == WorkerNext => Silent \/ \E type \in EventTypes : Posts(type)
<1> SUFFICES ASSUME WorkerNext PROVE Silent \/ \E type \in EventTypes : Posts(type)
  OBVIOUS
<1> USE DEF Step, AtWork, Phases
<1>1. CASE Send \/ IterationsExceeded \/ CancelSeen \/ BeginRound \/ RequestThrows
  BY <1>1 DEF Silent, Send, IterationsExceeded, CancelSeen, BeginRound, RequestThrows
<1>2. CASE StreamAborted \/ StreamFails \/ StreamThrows \/ FinalReply \/ ToolReply
  BY <1>2 DEF Silent, StreamAborted, StreamFails, StreamThrows, FinalReply, ToolReply
<1>3. CASE UnknownTool \/ PreviewThrows \/ GateRuns \/ GateRefuses
  BY <1>3 DEF Silent, UnknownTool, PreviewThrows, GateRuns, GateRefuses, Finishes
<1>4. CASE Approved \/ Declined \/ ExecuteThrows \/ Execute \/ Settle
  BY <1>4 DEF Silent, Approved, Declined, ExecuteThrows, Execute, Settle, Finishes
<1>5. CASE StreamContent
  BY <1>5 DEF Posts, StreamContent, EventTypes, FinalTypes
<1>6. CASE StreamReasoning
  BY <1>6 DEF Posts, StreamReasoning, EventTypes, FinalTypes
<1>7. CASE AnnounceCall
  BY <1>7 DEF Posts, AnnounceCall, EventTypes, FinalTypes
<1>8. CASE GateAsks
  BY <1>8 DEF Posts, GateAsks, EventTypes, FinalTypes
<1>9. CASE FinishCall
  <2>1. Post("ToolResult") /\ turn' = turn /\ wpc = "result" /\ wpc' \in {"call", "check"}
    BY <1>9 DEF FinishCall
  <2> QED
    BY <2>1 DEF Posts, EventTypes, FinalTypes
<1>10. CASE PostOutcome
  <2>1. \E type \in FinalTypes : Post(type)
    BY <1>10 DEF PostOutcome, FinalTypes
  <2>2. turn' = turn /\ wpc = "post" /\ wpc' = "exited"
    BY <1>10 DEF PostOutcome
  <2> QED
    BY <2>1, <2>2 DEF Posts, EventTypes, FinalTypes
<1> QED
  BY <1>1, <1>2, <1>3, <1>4, <1>5, <1>6, <1>7, <1>8, <1>9, <1>10 DEF WorkerNext

\* What a posted event does to the queue.
LEMMA PostGrows ==
  ASSUME EventsTyped, NEW type \in EventTypes, Post(type), turn' = turn
  PROVE  /\ EventsTyped'
         /\ Len(events) \in Nat /\ Len(events') = Len(events) + 1
         /\ \A n \in DOMAIN events : n # Len(events) + 1 /\ n \in DOMAIN events' /\ events'[n] = events[n]
         /\ \A n \in DOMAIN events' : n \in DOMAIN events \/ n = Len(events')
         /\ Len(events') \in DOMAIN events'
         /\ events'[Len(events')].type = type
<1> DEFINE S == [type : EventTypes, turn : Nat]
<1> DEFINE e == [type |-> type, turn |-> turn]
<1>1. events \in Seq(S) /\ e \in S /\ e.type = type /\ events' = Append(events, e)
  BY DEF EventsTyped, Post
<1> HIDE DEF S, e
<1>2. /\ Len(events) \in Nat /\ Len(events') = Len(events) + 1
      /\ events' \in Seq(S)
      /\ \A n \in DOMAIN events : n # Len(events) + 1 /\ n \in DOMAIN events' /\ events'[n] = events[n]
      /\ \A n \in DOMAIN events' : n \in DOMAIN events \/ n = Len(events')
      /\ Len(events') \in DOMAIN events' /\ events'[Len(events')] = e
  BY <1>1
<1> QED
  BY <1>1, <1>2 DEF S, EventsTyped

LEMMA SilentKeeps == AppInv /\ Silent /\ UNCHANGED uiVars => AppInv'
<1> SUFFICES ASSUME AppInv, Silent, UNCHANGED uiVars PROVE AppInv'
  OBVIOUS
<1>1. /\ UNCHANGED <<events, turn, ui, busy, init_pending, compact_pending, special, kind>>
      /\ wpc \notin {"idle", "exited"} /\ wpc' \notin {"idle", "exited", "wait", "gate"}
      /\ ~(wpc = "wait" /\ reply = "none")
  BY DEF Silent, AtWork, uiVars, pendingVars
<1>2. \A n \in DOMAIN events : events[n].type # "ConfirmRequest" /\ events[n].type \notin FinalTypes
  BY <1>1 DEF AppInv, QueueInv, RequestPending, FinalLast
<1>3. QueueInv'
  BY <1>1, <1>2 DEF AppInv, QueueInv, EventsTyped, FinalLast, RequestPending, PromiseFresh
<1>4. ui # "dialog" /\ ui # "join" /\ busy
  BY <1>1, <1>2 DEF AppInv, UiInv, PromptMatchesWorker, JoinReady, OneWorker, FlagsTyped
<1>5. OneWorker' /\ JoinReady'
  BY <1>1, <1>4 DEF AppInv, UiInv, OneWorker, JoinReady
<1>6. PromptMatchesWorker'
  BY <1>1, <1>2, <1>4 DEF PromptMatchesWorker
<1>7. PendingMatchesTurn' /\ FlagsTyped'
  BY <1>1 DEF AppInv, UiInv, PendingMatchesTurn, Unfinished, FlagsTyped
<1> QED
  BY <1>3, <1>5, <1>6, <1>7 DEF AppInv, UiInv

LEMMA PostKeeps ==
  ASSUME AppInv, NEW type \in EventTypes, Posts(type), UNCHANGED uiVars
  PROVE  AppInv'
<1>1. /\ UNCHANGED <<turn, ui, busy, init_pending, compact_pending, special, kind>>
      /\ wpc \notin {"idle", "exited", "wait"} /\ wpc' # "idle"
      /\ type \in FinalTypes <=> wpc' = "exited"
      /\ type = "ConfirmRequest" <=> wpc' = "wait"
  BY DEF Posts, AtWork, uiVars, pendingVars
<1>2. /\ wpc' = "wait" => reply' = "none"
      /\ wpc' = "gate" => reply' = "none"
  BY DEF Posts, AppInv, QueueInv, PromiseFresh
<1>3. \A n \in DOMAIN events : events[n].type # "ConfirmRequest" /\ events[n].type \notin FinalTypes
  BY <1>1 DEF AppInv, QueueInv, RequestPending, FinalLast
<1>4. /\ EventsTyped'
      /\ \A n \in DOMAIN events' :
           \/ n = Len(events')
           \/ events'[n].type # "ConfirmRequest" /\ events'[n].type \notin FinalTypes
      /\ Len(events') \in DOMAIN events'
      /\ events'[Len(events')].type = type
  BY <1>3, PostGrows DEF Posts, AppInv, QueueInv
<1>5. QueueInv'
  BY <1>1, <1>2, <1>4 DEF QueueInv, FinalLast, RequestPending, PromiseFresh
<1>6. ui # "dialog" /\ ui # "join" /\ busy
  BY <1>1, <1>3 DEF AppInv, UiInv, PromptMatchesWorker, JoinReady, OneWorker, FlagsTyped
<1>7. OneWorker' /\ JoinReady'
  BY <1>1, <1>6 DEF AppInv, UiInv, OneWorker, JoinReady
<1>8. PromptMatchesWorker'
  <2>1. (\E n \in DOMAIN events' : events'[n].type = "ConfirmRequest") <=> wpc' = "wait"
    BY <1>1, <1>4
  <2> QED
    BY <1>1, <1>2, <1>6, <2>1 DEF PromptMatchesWorker
<1>9. PendingMatchesTurn' /\ FlagsTyped'
  BY <1>1 DEF AppInv, UiInv, PendingMatchesTurn, Unfinished, FlagsTyped
<1> QED
  BY <1>5, <1>7, <1>8, <1>9 DEF AppInv, UiInv

-----------------------------------------------------------------------------
(* The UI thread and the queue.                                             *)

\* What taking out the first event does to the queue.
LEMMA PopShrinks ==
  ASSUME QueueInv, Pop
  PROVE  /\ QueueInv' /\ UNCHANGED <<wpc, reply, turn>>
         /\ events # <<>> /\ 1 \in DOMAIN events /\ events[1] = Head(events)
         /\ Len(events) \in Nat
         /\ Len(events) = 1 => events' = <<>>
         /\ \A n \in DOMAIN events' : n + 1 \in DOMAIN events /\ n + 1 # 1 /\ events'[n] = events[n + 1]
         /\ \A n \in DOMAIN events : n = 1 \/ \E m \in DOMAIN events' : n = m + 1
<1> DEFINE S == [type : EventTypes, turn : Nat]
<1>1. events \in Seq(S) /\ events # <<>> /\ events' = Tail(events) /\ UNCHANGED <<wpc, reply, turn>>
  BY DEF QueueInv, EventsTyped, Pop
<1> HIDE DEF S
<1>2. /\ events' \in Seq(S)
      /\ 1 \in DOMAIN events /\ events[1] = Head(events)
      /\ Len(events) \in Nat /\ Len(events') = Len(events) - 1
      /\ Len(events) = 1 => events' = <<>>
      /\ \A n \in DOMAIN events' :
           n \in Nat /\ n + 1 \in DOMAIN events /\ n + 1 # 1 /\ events'[n] = events[n + 1]
  BY <1>1
<1>3. \A n \in DOMAIN events : n = 1 \/ (n - 1 \in DOMAIN events' /\ n = (n - 1) + 1)
  BY <1>1
<1>4. EventsTyped'
  BY <1>1, <1>2 DEF S, QueueInv, EventsTyped
<1>5. FinalLast' /\ RequestPending'
  BY <1>1, <1>2 DEF QueueInv, FinalLast, RequestPending
<1> QED
  BY <1>1, <1>2, <1>3, <1>4, <1>5 DEF QueueInv, PromiseFresh

LEMMA StillKeeps ==
  ASSUME QueueInv, UNCHANGED <<wpc, events, reply, turn>>
  PROVE  QueueInv'
BY DEF QueueInv, EventsTyped, FinalLast, RequestPending, PromiseFresh

\* A step of the UI thread that leaves the worker, the queue and the turn alone, and
\* neither comes from nor goes to a place where something is awaited or due.
Places == {"loop", "help", "drain", "overwrite", "gone"}

LEMMA StrollKeeps ==
  ASSUME AppInv, UNCHANGED <<wpc, events, reply, turn, busy, init_pending, compact_pending,
                             special, kind>>,
         ui' = ui \/ (ui \in Places /\ ui' \in Places),
         ui' \in {"overwrite", "gone"} => ~busy
  PROVE  AppInv'
<1>1. QueueInv'
  BY StillKeeps DEF AppInv
<1>2. OneWorker' /\ JoinReady'
  BY DEF AppInv, UiInv, OneWorker, JoinReady, Places
<1>3. PromptMatchesWorker'
  BY DEF AppInv, UiInv, PromptMatchesWorker, Places
<1>4. PendingMatchesTurn' /\ FlagsTyped'
  BY DEF AppInv, UiInv, PendingMatchesTurn, Unfinished, FlagsTyped, Places
<1> QED
  BY <1>1, <1>2, <1>3, <1>4 DEF AppInv, UiInv

\* A turn is started: the flags say what for.
LEMMA SubmitKeeps ==
  ASSUME AppInv, NEW what, submit(what),
         ui \in {"loop", "overwrite"} \/ (ui = "finish" /\ ~init_pending /\ ~compact_pending),
         ui' \in {"loop", "drain"}, ~busy, ~special, ~special',
         special' \in BOOLEAN, init_pending' \in BOOLEAN, compact_pending' \in BOOLEAN,
         init_pending' <=> init_pending \/ what = "init",
         compact_pending' <=> compact_pending \/ what \in {"compact", "auto"}
  PROVE  AppInv'
<1>1. /\ wpc = "idle" /\ wpc' = "send" /\ turn' = turn + 1 /\ UNCHANGED <<events, reply>>
      /\ busy' = TRUE /\ kind' = what
  BY DEF submit, StartTurn, Step
<1>2. events = <<>>
  BY DEF AppInv, UiInv, OneWorker
<1>3. turn' \in Nat
  <2>1. turn \in Nat
    BY DEF AppInv, QueueInv, EventsTyped
  <2> QED
    BY <1>1, <2>1
<1>4. QueueInv'
  BY <1>1, <1>2, <1>3 DEF QueueInv, EventsTyped, FinalLast, RequestPending, PromiseFresh
<1>5. OneWorker' /\ JoinReady' /\ PromptMatchesWorker'
  BY <1>1, <1>2 DEF OneWorker, JoinReady, PromptMatchesWorker
<1>6. ~init_pending /\ ~compact_pending
  BY DEF AppInv, UiInv, PendingMatchesTurn, Unfinished
<1>7. PendingMatchesTurn' /\ FlagsTyped'
  BY <1>1, <1>6 DEF PendingMatchesTurn, Unfinished, FlagsTyped
<1> QED
  BY <1>4, <1>5, <1>7 DEF AppInv, UiInv

\* The queue is drained.
LEMMA DrainKeeps == AppInv /\ (DrainStream \/ DrainConfirmRequest \/ DrainFinal) => AppInv'
<1> SUFFICES ASSUME AppInv, Pop, ui = "drain", events # <<>>,
                    UNCHANGED <<busy, init_pending, compact_pending, special, kind>>,
                    \/ /\ Head(events).type \notin FinalTypes \cup {"ConfirmRequest"}
                       /\ ui' = ui
                    \/ Head(events).type = "ConfirmRequest" /\ ui' = "dialog"
                    \/ Head(events).type \in FinalTypes /\ ui' = "join"
             PROVE  AppInv'
  BY DEF DrainStream, DrainConfirmRequest, DrainFinal, HeadIs, FinalTypes, At, uiVars, pendingVars
<1>1. QueueInv' /\ UNCHANGED <<wpc, reply, turn>>
  BY PopShrinks DEF AppInv
<1>2. /\ 1 \in DOMAIN events /\ events[1] = Head(events)
      /\ Len(events) = 1 => events' = <<>>
      /\ \A n \in DOMAIN events' : n + 1 \in DOMAIN events /\ n + 1 # 1 /\ events'[n] = events[n + 1]
      /\ \A n \in DOMAIN events : n = 1 \/ \E m \in DOMAIN events' : n = m + 1
  BY PopShrinks DEF AppInv
<1>3. busy
  BY DEF AppInv, UiInv, OneWorker, FlagsTyped
<1>4. OneWorker'
  BY <1>1, <1>3 DEF AppInv, UiInv, OneWorker
<1>5. PendingMatchesTurn' /\ FlagsTyped'
  BY <1>3 DEF AppInv, UiInv, PendingMatchesTurn, Unfinished, FlagsTyped
<1>6. CASE Head(events).type \notin FinalTypes \cup {"ConfirmRequest"} /\ ui' = ui
  <2>1. (\E n \in DOMAIN events' : events'[n].type = "ConfirmRequest")
          <=> (\E n \in DOMAIN events : events[n].type = "ConfirmRequest")
    BY <1>2, <1>6
  <2>2. PromptMatchesWorker' /\ JoinReady'
    BY <1>1, <1>6, <2>1 DEF AppInv, UiInv, PromptMatchesWorker, JoinReady
  <2> QED
    BY <1>1, <1>4, <1>5, <2>2 DEF AppInv, UiInv
<1>7. CASE Head(events).type = "ConfirmRequest" /\ ui' = "dialog"
  <2>1. wpc = "wait" /\ reply = "none" /\ 1 = Len(events)
    BY <1>2, <1>7 DEF AppInv, QueueInv, RequestPending
  <2>2. events' = <<>>
    BY <1>2, <2>1
  <2>3. PromptMatchesWorker' /\ JoinReady'
    BY <1>1, <1>7, <2>1, <2>2 DEF PromptMatchesWorker, JoinReady
  <2> QED
    BY <1>1, <1>4, <1>5, <2>3 DEF AppInv, UiInv
<1>8. CASE Head(events).type \in FinalTypes /\ ui' = "join"
  <2>1. wpc = "exited" /\ 1 = Len(events)
    BY <1>2, <1>8 DEF AppInv, QueueInv, FinalLast
  <2>2. events' = <<>>
    BY <1>2, <2>1
  <2>3. PromptMatchesWorker' /\ JoinReady'
    BY <1>1, <1>8, <2>1, <2>2 DEF PromptMatchesWorker, JoinReady
  <2> QED
    BY <1>1, <1>4, <1>5, <2>3 DEF AppInv, UiInv
<1> QED
  BY <1>6, <1>7, <1>8

-----------------------------------------------------------------------------
(* The rest of the UI thread.                                               *)

LEMMA JoinedKeeps == AppInv /\ Joined => AppInv'
<1> SUFFICES ASSUME AppInv, Joined PROVE AppInv'
  OBVIOUS
<1>1. /\ ui = "join" /\ wpc = "exited" /\ wpc' = "idle" /\ UNCHANGED <<events, reply, turn>>
      /\ busy' = FALSE /\ UNCHANGED <<special, kind>>
      /\ \/ ui' = "finish" /\ UNCHANGED <<init_pending, compact_pending>>
         \/ ui' = "drain" /\ init_pending' = FALSE /\ compact_pending' = FALSE
  BY DEF Joined, Join, Step, At, pendingVars
<1>2. events = <<>> /\ events' = <<>>
  BY <1>1 DEF AppInv, UiInv, JoinReady
<1>3. busy /\ ~special
  BY <1>1 DEF AppInv, UiInv, OneWorker, FlagsTyped
<1>4. QueueInv'
  BY <1>1, <1>2 DEF AppInv, QueueInv, EventsTyped, FinalLast, RequestPending, PromiseFresh
<1>5. OneWorker' /\ JoinReady' /\ PromptMatchesWorker'
  BY <1>1, <1>2 DEF OneWorker, JoinReady, PromptMatchesWorker
<1>6. FlagsTyped'
  BY <1>1, <1>3 DEF AppInv, UiInv, FlagsTyped
<1>7. PendingMatchesTurn'
  <2>1. Unfinished
    BY <1>3 DEF Unfinished
  <2>2. CASE ui' = "finish" /\ UNCHANGED <<init_pending, compact_pending>>
    <3>1. Unfinished'
      BY <1>1, <1>3, <2>2 DEF Unfinished
    <3> QED
      BY <1>1, <2>1, <2>2, <3>1 DEF AppInv, UiInv, PendingMatchesTurn
  <2>3. CASE ui' = "drain" /\ init_pending' = FALSE /\ compact_pending' = FALSE
    <3>1. ~Unfinished'
      BY <1>1, <2>3 DEF Unfinished
    <3> QED
      BY <2>3, <3>1 DEF PendingMatchesTurn
  <2> QED
    BY <1>1, <2>2, <2>3
<1> QED
  BY <1>4, <1>5, <1>6, <1>7 DEF AppInv, UiInv

\* The completion of an /init or /compact turn takes its flag down.
LEMMA CompletionKeeps == AppInv /\ (FinishInit \/ FinishCompact) => AppInv'
<1> SUFFICES ASSUME AppInv, FinishInit \/ FinishCompact PROVE AppInv'
  OBVIOUS
<1>1. /\ UNCHANGED <<wpc, events, reply, turn, ui, busy, kind>>
      /\ ui = "finish" /\ special' = TRUE
  BY DEF FinishInit, FinishCompact, SetSystemPrompt, CompactInto, At, agentVars
<1>2. init_pending' = FALSE /\ compact_pending' = FALSE
  <2>1. init_pending \in BOOLEAN /\ compact_pending \in BOOLEAN
    BY DEF AppInv, UiInv, FlagsTyped
  <2>2. CASE FinishInit
    <3>1. init_pending /\ init_pending' = FALSE /\ compact_pending' = compact_pending
      BY <2>2 DEF FinishInit
    <3>2. kind = "init"
      BY <3>1 DEF AppInv, UiInv, PendingMatchesTurn
    <3>3. ~compact_pending
      BY <3>2 DEF AppInv, UiInv, PendingMatchesTurn
    <3> QED
      BY <2>1, <3>1, <3>3
  <2>3. CASE FinishCompact
    BY <2>1, <2>3 DEF FinishCompact
  <2> QED
    BY <2>2, <2>3
<1>3. ~busy
  BY <1>1 DEF AppInv, UiInv, OneWorker
<1>4. QueueInv'
  BY <1>1, StillKeeps DEF AppInv
<1>5. OneWorker' /\ JoinReady' /\ PromptMatchesWorker'
  BY <1>1 DEF AppInv, UiInv, OneWorker, JoinReady, PromptMatchesWorker
<1>6. PendingMatchesTurn' /\ FlagsTyped'
  BY <1>1, <1>2, <1>3 DEF AppInv, UiInv, PendingMatchesTurn, Unfinished, FlagsTyped
<1> QED
  BY <1>4, <1>5, <1>6 DEF AppInv, UiInv

LEMMA FinishedKeeps == AppInv /\ Finished => AppInv'
<1> SUFFICES ASSUME AppInv, Finished PROVE AppInv'
  OBVIOUS
<1>1. /\ UNCHANGED <<wpc, events, reply, turn, busy, init_pending, compact_pending, kind>>
      /\ ui = "finish" /\ ui' = "drain" /\ special' = FALSE
      /\ ~init_pending /\ ~compact_pending
  BY DEF Finished, At, agentVars, pendingVars
<1>2. ~busy
  BY <1>1 DEF AppInv, UiInv, OneWorker
<1>3. QueueInv'
  BY <1>1, StillKeeps DEF AppInv
<1>4. OneWorker' /\ JoinReady' /\ PromptMatchesWorker'
  BY <1>1 DEF AppInv, UiInv, OneWorker, JoinReady, PromptMatchesWorker
<1>5. PendingMatchesTurn' /\ FlagsTyped'
  BY <1>1, <1>2 DEF AppInv, UiInv, PendingMatchesTurn, Unfinished, FlagsTyped
<1> QED
  BY <1>3, <1>4, <1>5 DEF AppInv, UiInv

\* The answer is the worker's from then on.
LEMMA DialogKeeps ==
  ASSUME AppInv, NEW choice \in ConfirmChoices, AnswerDialog(choice)
  PROVE  AppInv'
<1>1. /\ wpc = "wait" /\ reply' = choice /\ UNCHANGED <<wpc, events, turn>>
      /\ \A n \in DOMAIN events : events[n].type # "ConfirmRequest"
      /\ ui = "dialog" /\ ui' = "drain"
      /\ UNCHANGED <<busy, init_pending, compact_pending, special, kind>>
  BY DEF AnswerDialog, Respond, At, pendingVars
<1>2. reply' # "none"
  BY <1>1 DEF ConfirmChoices
<1>3. QueueInv'
  BY <1>1 DEF AppInv, QueueInv, EventsTyped, FinalLast, RequestPending, PromiseFresh
<1>4. OneWorker' /\ JoinReady' /\ PromptMatchesWorker'
  BY <1>1, <1>2 DEF AppInv, UiInv, OneWorker, JoinReady, PromptMatchesWorker
<1>5. PendingMatchesTurn' /\ FlagsTyped'
  BY <1>1 DEF AppInv, UiInv, PendingMatchesTurn, Unfinished, FlagsTyped
<1> QED
  BY <1>3, <1>4, <1>5 DEF AppInv, UiInv

\* /init asks before it overwrites; with a submitted turn it is SubmitKeeps' case.
LEMMA OverwriteKeeps ==
  ASSUME AppInv, NEW choice, AnswerOverwrite(choice)
  PROVE  AppInv'
<1>1. /\ ui = "overwrite" /\ ui' = "loop" /\ UNCHANGED <<compact_pending, special>>
      /\ \/ UNCHANGED <<wpc, events, reply, turn, busy, init_pending, kind>>
         \/ init_pending' = TRUE /\ submit("init")
  BY DEF AnswerOverwrite, At, agentVars
<1>2. ~busy /\ ~special
  BY <1>1 DEF AppInv, UiInv, OneWorker, FlagsTyped
<1>3. CASE UNCHANGED <<wpc, events, reply, turn, busy, init_pending, kind>>
  BY <1>1, <1>2, <1>3, StrollKeeps DEF Places
<1>4. CASE init_pending' = TRUE /\ submit("init")
  <2>1. /\ special' \in BOOLEAN /\ init_pending' \in BOOLEAN /\ compact_pending' \in BOOLEAN
        /\ init_pending' <=> init_pending \/ "init" = "init"
        /\ compact_pending' <=> compact_pending \/ "init" \in {"compact", "auto"}
    BY <1>1, <1>4 DEF AppInv, UiInv, FlagsTyped
  <2> QED
    BY <1>1, <1>2, <1>4, <2>1, SubmitKeeps
<1> QED
  BY <1>1, <1>3, <1>4

\* The commands that start a turn, and the compaction nobody asked for.
LEMMA SubmittingKeeps ==
  ASSUME AppInv, Chat \/ Retry \/ RunSkill \/ RunInit \/ RunCompact \/ AutoCompact
  PROVE  AppInv'
<1>1. ~busy /\ ~special
  BY DEF Chat, Retry, RunSkill, RunInit, RunCompact, AutoCompact, Typed, At, AppInv, UiInv,
     OneWorker, FlagsTyped
<1>2. /\ init_pending \in BOOLEAN /\ compact_pending \in BOOLEAN /\ special \in BOOLEAN
  BY DEF AppInv, UiInv, FlagsTyped
<1>3. CASE Chat \/ Retry \/ RunSkill
  <2>1. /\ submit("chat") /\ ui = "loop" /\ ui' = ui
        /\ UNCHANGED <<init_pending, compact_pending, special>>
    BY <1>3 DEF Chat, Retry, RunSkill, Typed, At, pendingVars
  <2>2. /\ init_pending' <=> init_pending \/ "chat" = "init"
        /\ compact_pending' <=> compact_pending \/ "chat" \in {"compact", "auto"}
    BY <2>1
  <2> QED
    BY <1>1, <1>2, <2>1, <2>2, SubmitKeeps
<1>4. CASE RunInit
  <2>1. CASE /\ ui = "loop" /\ ui' = "overwrite"
             /\ UNCHANGED <<agentVars, busy, init_pending, kind, compact_pending, special>>
    BY <1>1, <2>1, StrollKeeps DEF Places, agentVars
  <2>2. CASE /\ init_pending' = TRUE /\ submit("init") /\ ui = "loop" /\ ui' = ui
             /\ UNCHANGED <<compact_pending, special>>
    <3>1. /\ init_pending' <=> init_pending \/ "init" = "init"
          /\ compact_pending' <=> compact_pending \/ "init" \in {"compact", "auto"}
      BY <2>2
    <3> QED
      BY <1>1, <1>2, <2>2, <3>1, SubmitKeeps
  <2> QED
    BY <1>4, <2>1, <2>2 DEF RunInit, Typed, At
<1>5. CASE RunCompact
  <2>1. /\ submit("compact") /\ ui = "loop" /\ ui' = ui /\ compact_pending' = TRUE
        /\ UNCHANGED <<init_pending, special>>
    BY <1>5 DEF RunCompact, Typed, At
  <2>2. /\ init_pending' <=> init_pending \/ "compact" = "init"
        /\ compact_pending' <=> compact_pending \/ "compact" \in {"compact", "auto"}
    BY <2>1
  <2> QED
    BY <1>1, <1>2, <2>1, <2>2, SubmitKeeps
<1>6. CASE AutoCompact
  <2>1. /\ submit("auto") /\ ui = "finish" /\ ui' = "drain" /\ compact_pending' = TRUE
        /\ ~init_pending /\ ~compact_pending /\ UNCHANGED <<init_pending, special>>
    BY <1>6 DEF AutoCompact, At
  <2>2. /\ init_pending' <=> init_pending \/ "auto" = "init"
        /\ compact_pending' <=> compact_pending \/ "auto" \in {"compact", "auto"}
    BY <2>1
  <2> QED
    BY <1>1, <1>2, <2>1, <2>2, SubmitKeeps
<1> QED
  BY <1>3, <1>4, <1>5, <1>6

\* What leaves the turn and the worker alone.
LEMMA StrollSteps ==
  ASSUME AppInv,
         \/ StartDrain \/ QueueEmpty \/ Esc \/ ShowHelp \/ DismissHelp \/ Clear \/ Quit
         \/ (\E model \in Models : Model(model)) \/ UNCHANGED vars
  PROVE  AppInv'
<1>1. UNCHANGED <<wpc, events, reply, turn, busy, init_pending, compact_pending, special, kind>>
  BY DEF StartDrain, QueueEmpty, Esc, ShowHelp, DismissHelp, Clear, Quit, Model,
     RequestCancel, Reset, SetModel, vars, agentVars, uiVars, pendingVars
<1>2. ui' = ui \/ (ui \in Places /\ ui' \in Places)
  BY DEF StartDrain, QueueEmpty, Esc, ShowHelp, DismissHelp, Clear, Quit, Model, At, vars,
     uiVars, Places
<1>3. ui' \in {"overwrite", "gone"} => ~busy
  BY DEF StartDrain, QueueEmpty, Esc, ShowHelp, DismissHelp, Clear, Quit, Model, At, vars,
     uiVars, AppInv, UiInv, OneWorker
<1> QED
  BY <1>1, <1>2, <1>3, StrollKeeps

\* The queue, the flags and the two threads' places agree in every state
\* (App.cpp:236-444, 576-640).
THEOREM AppInvariance == Spec => []AppInv
<1>1. AppInv /\ [Next]_vars => AppInv'
  <2> SUFFICES ASSUME AppInv, [Next]_vars PROVE AppInv'
    OBVIOUS
  <2>1. CASE Worker
    <3>1. WorkerNext /\ UNCHANGED uiVars
      BY <2>1 DEF Worker
    <3> QED
      BY <3>1, WorkerSteps, SilentKeeps, PostKeeps
  <2>2. CASE UiNext
    BY <2>2, DrainKeeps, JoinedKeeps, CompletionKeeps, FinishedKeeps, DialogKeeps,
       OverwriteKeeps, SubmittingKeeps, StrollSteps DEF UiNext
  <2>3. CASE UNCHANGED vars
    BY <2>3, StrollSteps
  <2> QED
    BY <2>1, <2>2, <2>3 DEF Next, Terminated
<1> QED
  BY <1>1, InitApp, PTL DEF Spec

\* The history is never shared and worker_ never assigned over a running thread,
\* for every order of keys, events and turns (App.cpp:236, 411-427, 576-640).
THEOREM OneWorkerAlways == Spec => []OneWorker
<1>1. AppInv => OneWorker
  BY DEF AppInv, UiInv
<1> QED
  BY <1>1, AppInvariance, PTL

\* A worker waits for an answer exactly when its question is in the queue or on the
\* screen, and the UI thread joins only a worker that has exited: no two threads
\* ever wait for each other (App.cpp:75-81, 406-413).
THEOREM NoMutualWait == Spec => []PromptMatchesWorker
<1>1. AppInv => PromptMatchesWorker
  BY DEF AppInv, UiInv
<1> QED
  BY <1>1, AppInvariance, PTL

\* The flags of a pending /init or /compact are those of the turn in flight in every
\* session (App.cpp:94-95, 411-444).
THEOREM PendingAlways == Spec => []PendingMatchesTurn
<1>1. AppInv => PendingMatchesTurn
  BY DEF AppInv, UiInv
<1> QED
  BY <1>1, AppInvariance, PTL

-----------------------------------------------------------------------------
(* The largest of some numbers, as CHOOSE finds it, is one of them.         *)

LEMMA NatOrder == WF!IsWellFoundedOn({p \in Nat \X Nat : p[1] < p[2]}, Nat)
<1>1. WF!OpToRel(<, Nat) = {p \in Nat \X Nat : p[1] < p[2]}
  BY DEF WF!OpToRel
<1> QED
  BY <1>1, WF!NatLessThanWellFounded

LEMMA MaxIn ==
  ASSUME NEW n \in Nat, NEW S \in SUBSET (1..n), S # {}
  PROVE  Max(S) \in S
<1> DEFINE R == {p \in Nat \X Nat : p[1] < p[2]}
<1> DEFINE T == {n - i : i \in S}
<1>1. \A i \in S : i \in Nat /\ n - i \in Nat
  OBVIOUS
<1>2. T \subseteq Nat /\ T # {}
  BY <1>1
<1>3. PICK x \in T : \A y \in T : ~(<<y, x>> \in R)
  <2> HIDE DEF R, T
  <2>1. WF!IsWellFoundedOn(R, Nat)
    BY NatOrder DEF R
  <2> QED
    BY <1>2, <2>1, WF!WFMin
<1>4. PICK i \in S : x = n - i
  BY <1>3
<1>5. ASSUME NEW j \in S PROVE i >= j
  <2>1. n - j \in T
    OBVIOUS
  <2>2. ~(n - j < n - i)
    BY <1>1, <1>3, <1>4, <2>1
  <2>3. i \in Nat /\ j \in Nat
    BY <1>1
  <2> QED
    BY <2>2, <2>3
<1> QED
  BY <1>5 DEF Max

-----------------------------------------------------------------------------
(* What the assistant said, it said in a turn.                              *)

TextsOfTurns ==
  /\ said \in 0..turn
  /\ \A i \in DOMAIN history : history[i].role = "assistant" => history[i].text \in 0..turn

LEMMA InitTexts == AgentInit => TextsOfTurns
<1> SUFFICES ASSUME AgentInit PROVE TextsOfTurns
  OBVIOUS
<1>1. said = 0 /\ turn = 0 /\ history = Seed(SystemPrompt)
  BY DEF AgentInit
<1>2. \A i \in DOMAIN history : history[i].role = "system"
  BY <1>1 DEF Seed, Plain
<1> QED
  BY <1>1, <1>2 DEF TextsOfTurns

\* A message of no other text is added.
LEMMA AppendTexts ==
  ASSUME TypeOK, TextsOfTurns, NEW msg, history' = Append(history, msg),
         msg.role = "assistant" => msg.text \in 0..turn,
         UNCHANGED <<said, turn>>
  PROVE  TextsOfTurns'
<1>1. history \in Seq(Messages)
  BY DEF TypeOK
<1>2. \A i \in DOMAIN history' :
        \/ i \in DOMAIN history /\ history'[i] = history[i]
        \/ history'[i] = msg
  BY <1>1
<1> QED
  BY <1>2 DEF TextsOfTurns

\* Steps that leave the history alone or replace it by system messages.
LEMMA KeepTexts ==
  ASSUME TypeOK, TextsOfTurns, turn' \in {turn, turn + 1}, said' \in 0..turn',
         history' = history \/ \A i \in DOMAIN history' : history'[i].role = "system"
  PROVE  TextsOfTurns'
<1>1. turn \in Nat
  BY DEF TypeOK
<1>2. \A text \in 0..turn : text \in 0..turn'
  BY <1>1
<1> QED
  BY <1>2 DEF TextsOfTurns

LEMMA SeedsAreSystem ==
  /\ \A text : \A i \in DOMAIN Seed(text) : Seed(text)[i].role = "system"
  /\ \A text, summary : \A i \in DOMAIN Summarised(text, summary) :
       Summarised(text, summary)[i].role = "system"
<1>1. \A text : \A i \in DOMAIN Seed(text) : Seed(text)[i].role = "system"
  BY DEF Seed, Plain
<1>2. ASSUME NEW text, NEW summary, NEW i \in DOMAIN Summarised(text, summary)
      PROVE  Summarised(text, summary)[i].role = "system"
  <2>1. CASE text = 0
    <3>1. Summarised(text, summary) = <<Plain("system", summary)>>
      BY <2>1 DEF Summarised, Seed
    <3> QED
      BY <1>2, <3>1 DEF Plain
  <2>2. CASE text # 0
    <3> DEFINE first == Plain("system", text)
               second == Plain("system", summary)
    <3>1. Summarised(text, summary) = Append(<<first>>, second)
      BY <2>2 DEF Summarised, Seed
    <3>2. DOMAIN Append(<<first>>, second) = 1..2
      <4> HIDE DEF first, second
      <4> QED
        OBVIOUS
    <3>3. Append(<<first>>, second)[1] = first /\ Append(<<first>>, second)[2] = second
      <4> HIDE DEF first, second
      <4> QED
        OBVIOUS
    <3>4. i = 1 \/ i = 2
      BY <1>2, <3>1, <3>2
    <3> QED
      BY <3>1, <3>3, <3>4 DEF Plain
  <2> QED
    BY <2>1, <2>2
<1> QED
  BY <1>1, <1>2

\* A text of the assistant names a turn that has begun: along every step of
\* AgentLoop (Agent.cpp:25-36, 129-148).
THEOREM StepTexts == TypeOK /\ TextsOfTurns /\ [AgentNext]_agentVars => TextsOfTurns'
<1> SUFFICES ASSUME TypeOK, TextsOfTurns, [AgentNext]_agentVars PROVE TextsOfTurns'
  OBVIOUS
<1>1. turn \in Nat /\ said \in 0..turn /\ history \in Seq(Messages)
  BY DEF TypeOK, TextsOfTurns
<1>2. CASE UNCHANGED agentVars
  BY <1>2 DEF TextsOfTurns, agentVars, loopVars
<1>3. CASE Send
  <2>1. history' = Append(history, Plain("user", turn)) /\ UNCHANGED <<said, turn>>
    BY <1>3 DEF Send
  <2> QED
    BY <2>1, AppendTexts DEF Plain
<1>4. CASE FinalReply
  <2>1. history' = Append(history, Plain("assistant", said)) /\ UNCHANGED <<said, turn>>
    BY <1>4 DEF FinalReply
  <2>2. Plain("assistant", said).text \in 0..turn
    BY <1>1 DEF Plain
  <2> QED
    BY <2>1, <2>2, AppendTexts
<1>5. CASE ToolReply
  <2>1. PICK requested : history' = Append(history, Requesting(said, requested))
    BY <1>5 DEF ToolReply
  <2>2. UNCHANGED <<said, turn>>
    BY <1>5 DEF ToolReply
  <2>3. Requesting(said, requested).text \in 0..turn
    BY <1>1 DEF Requesting
  <2> QED
    BY <2>1, <2>2, <2>3, AppendTexts
<1>6. CASE FinishCall
  <2>1. history' = Append(history, Answer(Call.id, tr)) /\ UNCHANGED <<said, turn>>
    BY <1>6 DEF FinishCall
  <2> QED
    BY <2>1, AppendTexts DEF Answer
<1>7. CASE Settle
  <2>1. UNCHANGED <<said, turn>>
    BY <1>7 DEF Settle, loopVars
  <2>2. history' = history \/ history' = SubSeq(history, 1, mark)
    BY <1>7 DEF Settle
  <2>3. mark \in 0..Len(history)
    BY DEF TypeOK
  <2>4. \A i \in DOMAIN history' : i \in DOMAIN history /\ history'[i] = history[i]
    BY <1>1, <2>2, <2>3
  <2> QED
    BY <2>1, <2>4 DEF TextsOfTurns
<1>8. CASE IterationsExceeded \/ CancelSeen \/ RequestThrows \/ StreamReasoning
           \/ StreamAborted \/ StreamFails \/ StreamThrows \/ AnnounceCall
  <2>1. UNCHANGED <<history, said, turn>>
    BY <1>8 DEF IterationsExceeded, CancelSeen, RequestThrows, StreamReasoning,
       StreamAborted, StreamFails, StreamThrows, AnnounceCall, loopVars
  <2> QED
    BY <2>1 DEF TextsOfTurns
<1>9. CASE UnknownTool \/ PreviewThrows \/ GateRuns \/ GateRefuses \/ GateAsks
           \/ Approved \/ Declined \/ ExecuteThrows \/ Execute
  <2>1. UNCHANGED <<history, said, turn>>
    BY <1>9 DEF UnknownTool, PreviewThrows, GateRuns, GateRefuses, GateAsks, Approved,
       Declined, ExecuteThrows, Execute, Finishes, loopVars
  <2> QED
    BY <2>1 DEF TextsOfTurns
<1>10. CASE BeginRound \/ StreamContent \/ PostOutcome
  <2>1. UNCHANGED <<history, turn>> /\ said' \in {0, said, turn}
    BY <1>10 DEF BeginRound, StreamContent, PostOutcome
  <2>2. turn' \in {turn, turn + 1} /\ said' \in 0..turn'
    BY <1>1, <2>1
  <2> QED
    BY <2>1, <2>2, KeepTexts
<1>11. CASE OwnerNext
  <2>1. UNCHANGED said
    BY <1>11 DEF OwnerNext, StartTurn, JoinAfterFinal, Join, Pop, RequestCancel, Respond,
       Reset, CompactInto, SetSystemPrompt, SetModel, loopVars
  <2>2. turn' \in {turn, turn + 1}
    BY <1>11 DEF OwnerNext, StartTurn, JoinAfterFinal, Join, Pop, RequestCancel, Respond,
       Reset, CompactInto, SetSystemPrompt, SetModel, loopVars
  <2>3. history' = history \/ \A i \in DOMAIN history' : history'[i].role = "system"
    <3>1. \/ history' = history \/ history' = Seed(prompt)
          \/ \E text : history' = Summarised(prompt, text)
      BY <1>11 DEF OwnerNext, StartTurn, JoinAfterFinal, Join, Pop, RequestCancel, Respond,
         Reset, CompactInto, SetSystemPrompt, SetModel, loopVars
    <3> QED
      BY <3>1, SeedsAreSystem
  <2>4. said' \in 0..turn'
    BY <1>1, <2>1, <2>2
  <2> QED
    BY <2>2, <2>3, <2>4, KeepTexts
<1> QED
  BY <1>2, <1>3, <1>4, <1>5, <1>6, <1>7, <1>8, <1>9, <1>10, <1>11 DEF AgentNext, WorkerNext

LEMMA LastSaidSaid ==
  ASSUME TypeOK, LastSaid # 0
  PROVE  \E n \in DOMAIN history :
            history[n].role = "assistant" /\ history[n].text = LastSaid
<1> DEFINE spoken == {i \in DOMAIN history : history[i].role = "assistant" /\ history[i].text # 0}
<1>1. history \in Seq(Messages)
  BY DEF TypeOK
<1>2. Len(history) \in Nat /\ spoken \in SUBSET (1..Len(history))
  BY <1>1
<1>3. spoken # {} /\ LastSaid = history[Max(spoken)].text
  BY DEF LastSaid
<1>4. Max(spoken) \in spoken
  <2> HIDE DEF spoken
  <2> QED
    BY <1>2, <1>3, MaxIn
<1> QED
  BY <1>3, <1>4

LEMMA LastSaidOfTurn ==
  ASSUME TypeOK, TextsOfTurns, LastSaid # 0
  PROVE  LastSaid \in 1..turn
<1>1. PICK n \in DOMAIN history :
             history[n].role = "assistant" /\ history[n].text = LastSaid
  BY LastSaidSaid
<1>2. history[n].text \in 0..turn /\ turn \in Nat
  BY <1>1 DEF TextsOfTurns, TypeOK
<1> QED
  BY <1>1, <1>2

-----------------------------------------------------------------------------
(* The steps.                                                               *)

LEMMA StepUses ==
  ASSUME AppInv, TypeOK, TextsOfTurns, [Next]_vars
  PROVE  [AgentNext]_agentVars
<1>1. CASE UNCHANGED vars \/ Terminated
  BY <1>1 DEF Terminated, vars
<1>2. CASE Worker
  BY <1>2 DEF Worker, AgentNext
<1>3. CASE Joined
  <2>1. events = <<>> /\ Join
    BY <1>3 DEF Joined, At, AppInv, UiInv, JoinReady
  <2> QED
    BY <2>1 DEF AgentNext, OwnerNext, JoinAfterFinal
<1>4. CASE FinishInit
  <2>1. UNCHANGED agentVars \/ (LastSaid # 0 /\ SetSystemPrompt(LastSaid))
    BY <1>4 DEF FinishInit
  <2> QED
    BY <2>1, LastSaidOfTurn DEF AgentNext, OwnerNext
<1>5. CASE FinishCompact
  <2>1. UNCHANGED agentVars \/ (LastSaid # 0 /\ CompactInto(LastSaid))
    BY <1>5 DEF FinishCompact
  <2> QED
    BY <2>1, LastSaidOfTurn DEF AgentNext, OwnerNext
<1>6. CASE AutoCompact \/ Chat \/ Retry \/ RunSkill \/ RunCompact
  BY <1>6 DEF AutoCompact, Chat, Retry, RunSkill, RunCompact, submit, AgentNext, OwnerNext
<1>7. CASE RunInit \/ \E choice \in ConfirmChoices : AnswerOverwrite(choice)
  BY <1>7 DEF RunInit, AnswerOverwrite, submit, AgentNext, OwnerNext
<1>8. CASE StartDrain \/ QueueEmpty \/ Finished \/ ShowHelp \/ DismissHelp \/ Quit
  BY <1>8 DEF StartDrain, QueueEmpty, Finished, ShowHelp, DismissHelp, Quit
<1>9. CASE DrainStream \/ DrainConfirmRequest \/ DrainFinal
  BY <1>9 DEF DrainStream, DrainConfirmRequest, DrainFinal, AgentNext, OwnerNext
<1>10. CASE Esc \/ Clear
  BY <1>10 DEF Esc, Clear, AgentNext, OwnerNext
<1>11. CASE \E choice \in ConfirmChoices : AnswerDialog(choice)
  BY <1>11 DEF AnswerDialog, AgentNext, OwnerNext
<1>12. CASE \E model \in Models : Model(model)
  BY <1>12 DEF Model, AgentNext, OwnerNext
<1> QED
  BY <1>1, <1>2, <1>3, <1>4, <1>5, <1>6, <1>7, <1>8, <1>9, <1>10, <1>11, <1>12
     DEF Next, UiNext

-----------------------------------------------------------------------------
(* What a turn's end sets off.                                              *)

\* The conversation ends with what the assistant said.
Replied == history # <<>> /\ history[Len(history)].role = "assistant"

\* So it does from the reply that ends a turn to the end of its completion.
TurnInv ==
  /\ wpc \in {"settle", "post"} /\ outcome = "ok" => Replied
  /\ \A n \in DOMAIN events : events[n].type = "Done" => Replied
  /\ ui = "join" /\ final = "Done" => Replied
  /\ ui = "finish" /\ ~special => Replied

\* Steps of the UI thread that leave the conversation and its turn alone.
LEMMA LeavesTurn ==
  ASSUME TurnInv, UNCHANGED <<wpc, outcome, history, events>>,
         UNCHANGED <<ui, final, special>> \/ ui' \notin {"join", "finish"}
  PROVE  TurnInv'
BY DEF TurnInv, Replied

\* Steps after which nothing of a turn is left to handle, or all is still to come.
LEMMA NoneDue ==
  ASSUME wpc' \notin {"settle", "post"}, events' = <<>>,
         ui' \notin {"join", "finish"} \/ (ui' = "finish" /\ special')
  PROVE  TurnInv'
BY DEF TurnInv

LEMMA WorkerTurn ==
  ASSUME AppInv, TypeOK, TurnInv, WorkerNext, UNCHANGED uiVars
  PROVE  TurnInv'
<1>1. /\ UNCHANGED <<ui, busy, final, special>>
      /\ wpc \notin {"idle", "exited"}
  BY WorkerSteps DEF uiVars, Silent, Posts, AtWork
<1>2. ui \notin {"join", "finish"}
  BY <1>1 DEF AppInv, UiInv, JoinReady, OneWorker
<1>3. \A n \in DOMAIN events : events[n].type # "Done"
  BY <1>1 DEF AppInv, QueueInv, FinalLast, FinalTypes
<1>4. SUFFICES /\ wpc' \in {"settle", "post"} /\ outcome' = "ok" => Replied'
               /\ \A n \in DOMAIN events' : events'[n].type = "Done" => Replied'
  BY <1>1, <1>2 DEF TurnInv
<1>5. ASSUME NEW type \in EventTypes \ {"Done"}, Post(type), turn' = turn
      PROVE  \A n \in DOMAIN events' : events'[n].type # "Done"
  <2>1. /\ \A n \in DOMAIN events : events'[n] = events[n]
        /\ \A n \in DOMAIN events' : n \in DOMAIN events \/ n = Len(events')
        /\ events'[Len(events')].type = type
    BY <1>5, PostGrows DEF AppInv, QueueInv
  <2> QED
    BY <1>3, <2>1
<1>6. CASE FinalReply
  <2> DEFINE msg == Plain("assistant", said)
  <2>1. history' = Append(history, msg) /\ events' = events
    BY <1>6 DEF FinalReply
  <2>2. msg.role = "assistant"
    BY DEF Plain
  <2> HIDE DEF msg
  <2>3. history \in Seq(Messages)
    BY DEF TypeOK
  <2>4. history' # <<>> /\ history'[Len(history')] = msg
    <3> HIDE DEF Messages
    <3> QED
      BY <2>1, <2>2, <2>3
  <2> QED
    BY <1>3, <2>1, <2>2, <2>4 DEF Replied
<1>7. CASE Settle
  <2>1. /\ wpc = "settle" /\ UNCHANGED <<outcome, events>>
        /\ outcome = "ok" => history' = history
    BY <1>7 DEF Settle, Step, loopVars
  <2> QED
    BY <1>3, <2>1 DEF TurnInv, Replied
<1>8. CASE PostOutcome
  <2>1. wpc = "post" /\ wpc' = "exited" /\ UNCHANGED <<history, turn>>
    BY <1>8 DEF PostOutcome, Step
  <2>2. CASE outcome = "ok"
    BY <2>1, <2>2 DEF TurnInv, Replied
  <2>3. CASE outcome # "ok"
    <3>1. Post("Canceled") \/ Post("Error")
      BY <1>8, <2>3 DEF PostOutcome
    <3> QED
      BY <1>5, <2>1, <3>1 DEF EventTypes, FinalTypes
  <2> QED
    BY <2>2, <2>3
<1>9. CASE IterationsExceeded \/ CancelSeen \/ StreamAborted \/ StreamFails
  <2>1. events' = events /\ outcome' # "ok"
    BY <1>9 DEF IterationsExceeded, CancelSeen, StreamAborted, StreamFails
  <2> QED
    BY <1>3, <2>1
<1>10. CASE Send \/ BeginRound \/ RequestThrows \/ StreamThrows \/ ToolReply \/ UnknownTool
            \/ PreviewThrows \/ GateRuns \/ GateRefuses
  <2>1. events' = events /\ wpc' \notin {"settle", "post"}
    BY <1>10 DEF Send, BeginRound, RequestThrows, StreamThrows, ToolReply, UnknownTool,
       PreviewThrows, GateRuns, GateRefuses, Step
  <2> QED
    BY <1>3, <2>1
<1>11. CASE Approved \/ Declined \/ ExecuteThrows \/ Execute
  <2>1. events' = events /\ wpc' \notin {"settle", "post"}
    BY <1>11 DEF Approved, Declined, ExecuteThrows, Execute, Step
  <2> QED
    BY <1>3, <2>1
<1>12. CASE StreamContent \/ StreamReasoning \/ AnnounceCall \/ GateAsks \/ FinishCall
  <2>1. \E type \in {"Delta", "Reasoning", "ToolInfo", "ConfirmRequest", "ToolResult"} : Post(type)
    BY <1>12 DEF StreamContent, StreamReasoning, AnnounceCall, GateAsks, FinishCall
  <2>2. turn' = turn /\ wpc' \notin {"settle", "post"}
    BY <1>12 DEF StreamContent, StreamReasoning, AnnounceCall, GateAsks, FinishCall, Step, loopVars
  <2> QED
    BY <1>5, <2>1, <2>2 DEF EventTypes, FinalTypes
<1> QED
  BY <1>6, <1>7, <1>8, <1>9, <1>10, <1>11, <1>12 DEF WorkerNext

LEMMA UiTurn == AppInv /\ TypeOK /\ TurnInv /\ UiNext => TurnInv'
<1> SUFFICES ASSUME AppInv, TypeOK, TurnInv, UiNext PROVE TurnInv'
  OBVIOUS
<1>1. CASE StartDrain \/ QueueEmpty \/ Esc \/ ShowHelp \/ DismissHelp \/ Quit
           \/ \E model \in Models : Model(model)
  BY <1>1, LeavesTurn DEF StartDrain, QueueEmpty, Esc, ShowHelp, DismissHelp, Quit, Model,
     RequestCancel, SetModel, agentVars, loopVars, uiVars
<1>2. CASE \E choice \in ConfirmChoices : AnswerDialog(choice)
  BY <1>2, LeavesTurn DEF AnswerDialog, Respond, loopVars
<1>3. CASE DrainStream \/ DrainConfirmRequest \/ DrainFinal
  <2>1. /\ Pop /\ ui = "drain" /\ UNCHANGED <<wpc, outcome, history>>
        /\ ui' \in {"drain", "dialog", "join"}
        /\ ui' = "join" => Head(events).type = final'
    BY <1>3 DEF DrainStream, DrainConfirmRequest, DrainFinal, HeadIs, At, Pop, loopVars, uiVars
  <2>2. /\ 1 \in DOMAIN events /\ events[1] = Head(events)
        /\ \A n \in DOMAIN events' : n + 1 \in DOMAIN events /\ events'[n] = events[n + 1]
    BY <2>1, PopShrinks DEF AppInv
  <2> QED
    BY <2>1, <2>2 DEF TurnInv, Replied
<1>4. CASE Joined
  <2>1. /\ ui = "join" /\ wpc' = "idle" /\ UNCHANGED <<events, history, special>>
        /\ ui' = "drain" \/ (ui' = "finish" /\ final = "Done")
    BY <1>4 DEF Joined, Join, Step, At
  <2>2. events' = <<>>
    BY <2>1 DEF AppInv, UiInv, JoinReady
  <2> QED
    BY <2>1, <2>2 DEF TurnInv, Replied
<1>5. CASE FinishInit \/ FinishCompact
  <2>1. /\ ui = "finish" /\ ui' = ui /\ special' /\ UNCHANGED <<wpc, events>>
    BY <1>5 DEF FinishInit, FinishCompact, At, SetSystemPrompt, CompactInto, agentVars
  <2>2. wpc = "idle" /\ events = <<>>
    BY <2>1 DEF AppInv, UiInv, OneWorker
  <2> QED
    BY <2>1, <2>2, NoneDue
<1>6. CASE AutoCompact \/ Chat \/ Retry \/ RunSkill \/ RunCompact
  <2>1. StartTurn /\ ui' \in {"loop", "drain"}
    BY <1>6 DEF AutoCompact, Chat, Retry, RunSkill, RunCompact, Typed, At, submit
  <2>2. wpc' = "send" /\ ~busy /\ events' = events
    BY <1>6, <2>1 DEF AutoCompact, Chat, Retry, RunSkill, RunCompact, Typed, At, StartTurn, Step,
       AppInv, UiInv, OneWorker
  <2>3. events = <<>>
    BY <2>2 DEF AppInv, UiInv, OneWorker
  <2> QED
    BY <2>1, <2>2, <2>3, NoneDue
<1>7. CASE RunInit \/ \E choice \in ConfirmChoices : AnswerOverwrite(choice)
  <2>1. ~busy /\ ui' \in {"loop", "overwrite"} /\ (UNCHANGED agentVars \/ StartTurn)
    BY <1>7 DEF RunInit, AnswerOverwrite, Typed, At, submit, AppInv, UiInv, OneWorker
  <2>2. events' = events /\ wpc' \in {"send", wpc}
    BY <2>1 DEF StartTurn, Step, agentVars
  <2>3. events = <<>> /\ wpc = "idle"
    BY <2>1 DEF AppInv, UiInv, OneWorker
  <2> QED
    BY <2>1, <2>2, <2>3, NoneDue
<1>8. CASE Finished
  BY <1>8, LeavesTurn DEF Finished, agentVars, loopVars
<1>9. CASE Clear
  <2>1. ~busy /\ ui = "loop" /\ UNCHANGED <<wpc, events, ui>>
    BY <1>9 DEF Clear, Typed, At, Reset, uiVars
  <2>2. events = <<>> /\ wpc = "idle"
    BY <2>1 DEF AppInv, UiInv, OneWorker
  <2> QED
    BY <2>1, <2>2, NoneDue
<1> QED
  BY <1>1, <1>2, <1>3, <1>4, <1>5, <1>6, <1>7, <1>8, <1>9 DEF UiNext

LEMMA StepTurn == AppInv /\ TypeOK /\ TurnInv /\ [Next]_vars => TurnInv'
<1> SUFFICES ASSUME AppInv, TypeOK, TurnInv, [Next]_vars PROVE TurnInv'
  OBVIOUS
<1>1. CASE UNCHANGED vars
  BY <1>1, LeavesTurn DEF vars, agentVars, loopVars, uiVars
<1>2. CASE Worker
  BY <1>2, WorkerTurn DEF Worker
<1> QED
  BY <1>1, <1>2, UiTurn DEF Next, Terminated

-----------------------------------------------------------------------------
(* The variables of App.                                                    *)

UiTypes ==
  /\ ui \in UiPhases
  /\ final \in FinalTypes \cup {"none"}
  /\ last_user \in BOOLEAN
  /\ agents_md \in Nat \cup {Part}
  /\ kind \in {"none", "chat", "init", "compact", "auto"}
  /\ busy \/ ui = "finish" => kind # "none"

LEMMA StepTypes ==
  AppInv /\ TypeOK /\ TextsOfTurns /\ UiTypes /\ [Next]_vars => UiTypes'
<1> SUFFICES ASSUME AppInv, TypeOK, TextsOfTurns, UiTypes, [Next]_vars PROVE UiTypes'
  OBVIOUS
<1>1. CASE UNCHANGED uiVars
  BY <1>1 DEF UiTypes, uiVars
<1>2. CASE StartDrain \/ QueueEmpty \/ ShowHelp \/ DismissHelp \/ Quit \/ Finished
           \/ DrainConfirmRequest \/ \E choice \in ConfirmChoices : AnswerDialog(choice)
  <2>1. /\ UNCHANGED <<busy, final, last_user, agents_md, kind>>
        /\ ui' \in UiPhases \ {"finish"}
    BY <1>2 DEF StartDrain, QueueEmpty, ShowHelp, DismissHelp, Quit, Finished,
       DrainConfirmRequest, AnswerDialog, UiPhases
  <2> QED
    BY <2>1 DEF UiTypes
<1>3. CASE DrainFinal
  <2>1. /\ UNCHANGED <<busy, last_user, agents_md, kind>> /\ ui' = "join" /\ final' \in FinalTypes
    BY <1>3 DEF DrainFinal
  <2> QED
    BY <2>1 DEF UiTypes, UiPhases
<1>4. CASE Joined
  <2>1. /\ UNCHANGED <<last_user, agents_md, kind>> /\ ui' \in {"finish", "drain"}
        /\ final' = "none" /\ ui = "join"
    BY <1>4 DEF Joined, At
  <2>2. busy
    <3>1. wpc = "exited"
      BY <2>1 DEF AppInv, UiInv, JoinReady
    <3> QED
      BY <3>1 DEF AppInv, UiInv, OneWorker
  <2> QED
    BY <2>1, <2>2 DEF UiTypes, UiPhases
<1>5. CASE FinishInit \/ FinishCompact
  <2>1. UNCHANGED <<ui, busy, final, last_user, kind>>
        /\ (agents_md' \in {agents_md, Part} \/ (LastSaid # 0 /\ agents_md' = LastSaid))
    BY <1>5 DEF FinishInit, FinishCompact
  <2>2. agents_md' \in Nat \cup {Part}
    BY <2>1, LastSaidOfTurn DEF UiTypes
  <2> QED
    BY <2>1, <2>2 DEF UiTypes
<1>6. CASE AutoCompact \/ Chat \/ Retry \/ RunSkill \/ RunCompact
  <2>1. /\ kind' \in {"auto", "chat", "compact"} /\ UNCHANGED <<final, agents_md>>
        /\ ui' \in {"drain", ui} /\ last_user' \in {TRUE, last_user}
    BY <1>6 DEF AutoCompact, Chat, Retry, RunSkill, RunCompact, submit
  <2> QED
    BY <2>1 DEF UiTypes, UiPhases
<1>7. CASE RunInit \/ \E choice \in ConfirmChoices : AnswerOverwrite(choice)
  <2>1. /\ UNCHANGED <<kind, busy>> \/ kind' = "init"
        /\ UNCHANGED <<final, agents_md, last_user>>
        /\ ui' \in {"overwrite", "loop"}
    BY <1>7 DEF RunInit, AnswerOverwrite, submit, Typed, At
  <2> QED
    BY <2>1 DEF UiTypes, UiPhases
<1>8. Worker \/ DrainStream \/ Esc \/ Clear \/ (\E model \in Models : Model(model))
        => UNCHANGED uiVars
  BY DEF Worker, DrainStream, Esc, Clear, Model
<1> QED
  BY <1>1, <1>2, <1>3, <1>4, <1>5, <1>6, <1>7, <1>8 DEF Next, UiNext, Terminated, vars

\* All that is known of App and its Agent together.
Together == AppInv /\ IInv /\ TextsOfTurns /\ TurnInv /\ UiTypes

\* App's places, flags and texts and the Agent's conversation agree in every session
\* (App.cpp:236-444, 576-640, Agent.cpp:25-148).
THEOREM TogetherAlways == Spec => []Together
<1>1. Init => Together
  <2> SUFFICES ASSUME Init PROVE Together
    OBVIOUS
  <2>1. AppInv /\ IInv /\ TextsOfTurns
    BY InitApp, InitTypeOK, InitControl, InitShape, InitTexts DEF Init, IInv
  <2>2. /\ wpc = "idle" /\ events = <<>> /\ ui = "loop" /\ final = "none" /\ busy = FALSE
        /\ last_user = FALSE /\ agents_md = FirstAgentsMd /\ kind = "none"
    BY DEF Init, AgentInit
  <2>3. TurnInv
    BY <2>2 DEF TurnInv
  <2>4. UiTypes
    BY <2>2, AgentsMdAssumption DEF UiTypes, UiPhases
  <2> QED
    BY <2>1, <2>3, <2>4 DEF Together
<1>2. Together /\ [Next]_vars => [AgentNext]_agentVars /\ IInv' /\ TextsOfTurns' /\ TurnInv' /\ UiTypes'
  <2> SUFFICES ASSUME AppInv, IInv, TextsOfTurns, TurnInv, UiTypes, [Next]_vars
               PROVE  IInv' /\ TextsOfTurns' /\ TurnInv' /\ UiTypes'
    BY StepUses DEF Together, IInv
  <2>1. TypeOK
    BY DEF IInv
  <2>2. [AgentNext]_agentVars
    BY <2>1, StepUses
  <2>3. IInv'
    BY <2>2, StepTypeOK, StepControl, StepShape DEF IInv
  <2> QED
    BY <2>1, <2>2, <2>3, StepTexts, StepTurn, StepTypes
<1> QED
  BY <1>1, <1>2, AppInvariance, PTL DEF Spec, Together

\* App uses the Agent as AgentLoop allows: a session of any length, with any
\* commands and any conversation, implements it (App.cpp:355-444, 576-640).
THEOREM AppImplements == Spec => UsesAgent
<1>1. Init => AgentInit
  BY DEF Init
<1>2. Together /\ [Next]_vars => [AgentNext]_agentVars
  BY StepUses DEF Together, IInv
<1> QED
  BY <1>1, <1>2, TogetherAlways, PTL DEF Spec, UsesAgent, AgentSpec

\* In the program, with its real UI thread, every tool call in the conversation has
\* its result whenever a request may go out or App may look (Agent.cpp:40-65, 141-142).
COROLLARY AppPaired == Spec => []HistoryPaired
  BY AppImplements, PairedAlways, PTL DEF UsesAgent

\* Type correctness of App's variables; that agents_md is a text takes what the
\* assistant said to be a turn's, and that a turn in flight was started for something
\* takes every place that starts one (App.cpp:355-444, 576-640).
THEOREM UiTypesAlways == Spec => []UiTypeOK
<1>1. Together => UiTypeOK
  BY DEF Together, UiTypes, UiTypeOK, AppInv, UiInv, FlagsTyped
<1> QED
  BY <1>1, TogetherAlways, PTL

-----------------------------------------------------------------------------
(* AGENTS.md, the system prompt and auto-compaction.                        *)

\* Which steps touch them.
LEMMA AutoStep ==
  ASSUME AppInv, UiTypes, [Next]_vars, kind' = "auto", turn' # turn
  PROVE  kind = "chat"
<1>1. turn' # turn => StartTurn /\ (AutoCompact \/ kind' # "auto")
  <2>1. CASE Worker \/ UNCHANGED vars
    <3>1. UNCHANGED turn
      BY <2>1, WorkerSteps DEF Worker, Silent, Posts, vars, agentVars
    <3> QED
      BY <3>1
  <2>2. CASE StartDrain \/ QueueEmpty \/ DrainStream \/ DrainConfirmRequest \/ DrainFinal \/ Joined
             \/ \E choice \in ConfirmChoices : AnswerDialog(choice)
    <3>1. UNCHANGED turn
      BY <2>2 DEF StartDrain, QueueEmpty, DrainStream, DrainConfirmRequest, DrainFinal, Joined,
         AnswerDialog, Pop, Join, Respond, agentVars
    <3> QED
      BY <3>1
  <2>3. CASE FinishInit \/ FinishCompact \/ Finished \/ Esc \/ ShowHelp \/ DismissHelp \/ Clear
             \/ Quit \/ \E model \in Models : Model(model)
    <3>1. UNCHANGED turn
      BY <2>3 DEF FinishInit, FinishCompact, Finished, Esc, ShowHelp, DismissHelp, Clear, Quit,
         Model, SetSystemPrompt, CompactInto, RequestCancel, Reset, SetModel, agentVars
    <3> QED
      BY <3>1
  <2>4. CASE Chat \/ Retry \/ RunSkill \/ RunCompact \/ AutoCompact
    BY <2>4 DEF Chat, Retry, RunSkill, RunCompact, AutoCompact, submit
  <2>5. CASE RunInit \/ \E choice \in ConfirmChoices : AnswerOverwrite(choice)
    BY <2>5 DEF RunInit, AnswerOverwrite, submit, agentVars
  <2> QED
    BY <2>1, <2>2, <2>3, <2>4, <2>5 DEF Next, UiNext, Terminated
<1>2. AutoCompact
  BY <1>1
<1>3. ui = "finish" /\ ~init_pending /\ ~compact_pending /\ ~special
  BY <1>2 DEF AutoCompact, At
<1>4. kind \notin {"init", "compact", "auto"}
  BY <1>3 DEF AppInv, UiInv, PendingMatchesTurn, Unfinished
<1>5. kind # "none"
  BY <1>3 DEF UiTypes
<1> QED
  BY <1>4, <1>5 DEF UiTypes

LEMMA PromptStep ==
  ASSUME [Next]_vars, agents_md' # agents_md \/ prompt' # prompt
  PROVE  /\ FinishInit /\ agents_md' \in {LastSaid, Part}
         /\ LastSaid # 0 /\ SetSystemPrompt(LastSaid)
<1>1. CASE Worker
  <2>1. UNCHANGED <<agents_md, prompt>>
    BY <1>1 DEF Worker, uiVars, WorkerNext, Send, IterationsExceeded, CancelSeen, BeginRound,
       RequestThrows, StreamContent, StreamReasoning, StreamAborted, StreamFails, StreamThrows,
       FinalReply, ToolReply, AnnounceCall, UnknownTool, PreviewThrows, GateRuns, GateRefuses,
       GateAsks, Approved, Declined, ExecuteThrows, Execute, FinishCall, Settle, PostOutcome,
       Finishes, configVars
  <2> QED
    BY <2>1
<1>2. CASE StartDrain \/ QueueEmpty \/ DrainStream \/ DrainConfirmRequest \/ DrainFinal \/ Joined
           \/ \E choice \in ConfirmChoices : AnswerDialog(choice)
  <2>1. UNCHANGED <<agents_md, prompt>>
    BY <1>2 DEF StartDrain, QueueEmpty, DrainStream, DrainConfirmRequest, DrainFinal, Joined,
       AnswerDialog, Pop, Join, Respond, agentVars, configVars, uiVars
  <2> QED
    BY <2>1
<1>3. CASE FinishCompact \/ Finished \/ Esc \/ ShowHelp \/ DismissHelp \/ Clear \/ Quit
           \/ (\E model \in Models : Model(model)) \/ UNCHANGED vars
  <2>1. UNCHANGED <<agents_md, prompt>>
    BY <1>3 DEF FinishCompact, Finished, Esc, ShowHelp, DismissHelp, Clear, Quit, Model,
       CompactInto, RequestCancel, Reset, SetModel, vars, agentVars, configVars, uiVars
  <2> QED
    BY <2>1
<1>4. CASE \/ Chat \/ Retry \/ RunSkill \/ RunCompact \/ AutoCompact \/ RunInit
           \/ \E choice \in ConfirmChoices : AnswerOverwrite(choice)
  <2>1. UNCHANGED <<agents_md, prompt>>
    BY <1>4 DEF Chat, Retry, RunSkill, RunCompact, AutoCompact, RunInit, AnswerOverwrite, submit,
       StartTurn, agentVars, configVars
  <2> QED
    BY <2>1
<1>5. CASE FinishInit
  BY <1>5 DEF FinishInit, agentVars, configVars
<1> QED
  BY <1>1, <1>2, <1>3, <1>4, <1>5 DEF Next, UiNext, Terminated

\* Auto-compaction follows a chat turn only, and AGENTS.md and the system prompt change
\* only when an /init turn has run to its end, to what the assistant said in the
\* conversation, but for what a failing write leaves of the file: EffectsOfTheirTurn
\* for sessions of any length (App.cpp:280-289, 425-441).
THEOREM EffectsAlways == Spec => EffectsOfTheirTurn
<1>1. Together /\ [Next]_vars =>
        [/\ kind' = "auto" /\ turn' # turn => kind = "chat"
         /\ agents_md' # agents_md \/ prompt' # prompt =>
              /\ kind = "init" /\ ui = "finish"
              /\ agents_md' \in {prompt', Part}
              /\ \E n \in DOMAIN history :
                    history[n].role = "assistant" /\ history[n].text = prompt'
              /\ history # <<>> /\ history[Len(history)].role = "assistant"]_vars
  <2> SUFFICES ASSUME AppInv, TypeOK, TurnInv, UiTypes, [Next]_vars
               PROVE  /\ kind' = "auto" /\ turn' # turn => kind = "chat"
                      /\ agents_md' # agents_md \/ prompt' # prompt =>
                           /\ kind = "init" /\ ui = "finish"
                           /\ agents_md' \in {prompt', Part}
                           /\ \E n \in DOMAIN history :
                                 history[n].role = "assistant" /\ history[n].text = prompt'
                           /\ history # <<>> /\ history[Len(history)].role = "assistant"
    BY DEF Together, IInv
  <2>1. ASSUME agents_md' # agents_md \/ prompt' # prompt
        PROVE  /\ kind = "init" /\ ui = "finish" /\ agents_md' \in {prompt', Part}
               /\ \E n \in DOMAIN history :
                     history[n].role = "assistant" /\ history[n].text = prompt'
               /\ Replied
    <3>1. /\ FinishInit /\ agents_md' \in {LastSaid, Part}
          /\ LastSaid # 0 /\ SetSystemPrompt(LastSaid)
      BY <2>1, PromptStep
    <3>2. ui = "finish" /\ init_pending /\ prompt' = LastSaid
      BY <3>1 DEF FinishInit, At, SetSystemPrompt
    <3>3. kind = "init" /\ ~special
      BY <3>2 DEF AppInv, UiInv, PendingMatchesTurn, Unfinished, OneWorker
    <3>4. \E n \in DOMAIN history : history[n].role = "assistant" /\ history[n].text = LastSaid
      BY <3>1, LastSaidSaid
    <3> QED
      BY <3>1, <3>2, <3>3, <3>4 DEF TurnInv
  <2> QED
    BY <2>1, AutoStep DEF Replied
<1> QED
  BY <1>1, TogetherAlways, PTL DEF Spec, EffectsOfTheirTurn
=============================================================================
