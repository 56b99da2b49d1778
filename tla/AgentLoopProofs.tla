--------------------------- MODULE AgentLoopProofs ---------------------------
(***************************************************************************)
(* Proofs about AgentLoop, for every set of calls, replies and tools, every *)
(* policy, every number of iterations and every length of a session: the    *)
(* conversation; then the two sides of the event queue, in which order the  *)
(* events of a session stand in it, whatever the turns do and however late  *)
(* the owner takes them out; and how often a turn may ask the server.       *)
(***************************************************************************)
EXTENDS AgentLoop, FiniteSetTheorems, SequenceTheorems, TLAPS

-----------------------------------------------------------------------------
(* The inductive invariant.                                                 *)

\* In a round, k points at one of its calls.
CursorInRound == wpc \in ToolPhases => k \in 1..Len(calls)

\* A round begins below the bound and counts itself when it is over.
IterBelow == wpc \in ToolPhases \cup {"stream"} => iter < MaxIters

\* Between two turns nothing is to be rolled back.
MarkAtRest == wpc \in {"idle", "send", "exited"} => mark = 0

\* In a round, the message that requested the calls stands where the k - 1 results
\* after it say.
RoundAtTail ==
  wpc \in ToolPhases =>
    /\ Len(history) - k + 1 \in 1..Len(history)
    /\ history[Len(history) - k + 1].calls = calls

\* Every call is answered in its place, or is one the current round has not got to.
CallsAnswered ==
  \A i \in DOMAIN history : \A j \in DOMAIN history[i].calls :
    \/ Answers(history, i, j)
    \/ /\ wpc \in ToolPhases \cup {"crashed"}
       /\ i = Len(history) - k + 1
       /\ j >= k

\* Every result answers a call.
ResultsBelong ==
  \A n \in DOMAIN history : history[n].role = "tool" =>
    \E i \in 1..(n - 1) : n - i \in DOMAIN history[i].calls

\* What send would roll back to is complete, and what it added starts with the
\* user's message.
MarkComplete ==
  wpc \in InSend =>
    /\ mark < Len(history)
    /\ history[mark + 1].role = "user"
    /\ \A i \in 1..mark : \A j \in DOMAIN history[i].calls : i + j <= mark

\* A successful turn ends in a message of the assistant that requests nothing.
OkEndsPlain ==
  /\ outcome = "ok" => wpc \in {"settle", "post"}
  /\ wpc = "settle" /\ outcome = "ok" =>
       /\ Len(history) > mark + 1
       /\ history[Len(history)].role = "assistant"
       /\ history[Len(history)].calls = <<>>

\* What the policy and the user said of the call being worked on.
CallDecided ==
  /\ wpc = "wait" => Call.tool \in Gated /\ Decide(Policy, Call.tool, Call.details) = "Prompt"
  /\ wpc = "exec" /\ Call.tool \in Gated =>
       \/ Decide(Policy, Call.tool, Call.details) = "Allow"
       \/ /\ Decide(Policy, Call.tool, Call.details) = "Prompt"
          /\ Call.tool \in always \/ reply = "Yes"
  /\ wpc = "result" => tr \in Results /\ (Denied(Call) => tr = "declined")

\* No result in the history comes from running a denied call.
DeniedDeclined ==
  \A i \in DOMAIN history : \A j \in DOMAIN history[i].calls :
    Denied(history[i].calls[j]) /\ i + j \in DOMAIN history =>
      history[i + j].result = "declined"

Control == IterBelow /\ MarkAtRest /\ OkEndsPlain /\ CallDecided

Shape ==
  /\ CursorInRound
  /\ RoundAtTail
  /\ CallsAnswered
  /\ ResultsBelong
  /\ MarkComplete
  /\ DeniedDeclined

IInv == TypeOK /\ Control /\ Shape

-----------------------------------------------------------------------------
(* Type correctness.                                                        *)

\* The messages the program builds are messages.
LEMMA MessageTypes ==
  /\ \A role \in Roles, text \in Nat : Plain(role, text) \in Messages
  /\ \A text \in Nat, cs \in Seq(Calls) : Requesting(text, cs) \in Messages
  /\ \A id \in CallIds, result \in Results : Answer(id, result) \in Messages
  /\ \A text \in Nat : Seed(text) \in Seq(Messages)
  /\ \A text, summary \in Nat : Summarised(text, summary) \in Seq(Messages)
<1>1. \A role \in Roles, text \in Nat : Plain(role, text) \in Messages
  BY DEF Plain, Messages, NoId, NoResult
<1>2. \A text \in Nat, cs \in Seq(Calls) : Requesting(text, cs) \in Messages
  BY DEF Requesting, Messages, NoId, NoResult, Roles
<1>3. \A id \in CallIds, result \in Results : Answer(id, result) \in Messages
  BY DEF Answer, Messages, Roles
<1>4. \A text \in Nat : Seed(text) \in Seq(Messages)
  BY <1>1 DEF Seed, Roles
<1>5. \A text, summary \in Nat : Summarised(text, summary) \in Seq(Messages)
  BY <1>1, <1>4 DEF Summarised, Roles
<1> QED
  BY <1>1, <1>2, <1>3, <1>4, <1>5

LEMMA InitTypeOK == AgentInit => TypeOK
<1> SUFFICES ASSUME AgentInit PROVE TypeOK
  OBVIOUS
<1>1. history \in Seq(Messages)
  BY MessageTypes, ConfigAssumption DEF AgentInit
<1>2. mark \in 0..Len(history) /\ iter \in 0..MaxIters /\ k \in Nat \ {0}
  BY <1>1, LimitsAssumption DEF AgentInit
<1>3. pieces \in 0..MaxPieces /\ turn \in 0..MaxTurns /\ prompt \in Nat
  BY LimitsAssumption, ConfigAssumption DEF AgentInit
<1>4. calls \in Seq(Calls) /\ events \in Seq([type : EventTypes, turn : Nat])
  BY DEF AgentInit
<1> QED
  BY <1>1, <1>2, <1>3, <1>4, ConfigAssumption DEF AgentInit, TypeOK, Phases, NoResult

\* What the steps need of the variables they append to and read from.
LEMMA CallTypes ==
  ASSUME TypeOK, CursorInRound, wpc \in ToolPhases
  PROVE  Call \in Calls /\ Call.id \in CallIds
  BY DEF TypeOK, CursorInRound, Call, CallIds

LEMMA PostTypes ==
  ASSUME TypeOK, NEW type \in EventTypes, Post(type)
  PROVE  events' \in Seq([type : EventTypes, turn : Nat])
  BY LimitsAssumption DEF TypeOK, Post

\* Every step keeps the types.
THEOREM StepTypeOK == IInv /\ [AgentNext]_agentVars => TypeOK'
<1> SUFFICES ASSUME IInv, [AgentNext]_agentVars
             PROVE  TypeOK'
  OBVIOUS
<1>0. /\ TypeOK /\ CursorInRound /\ MarkAtRest /\ CallDecided /\ IterBelow
  BY DEF IInv, Control, Shape
<1> USE <1>0
<1> USE LimitsAssumption, ConfigAssumption DEF Phases, Step, loopVars, configVars
<1>1. CASE Send
  <2>1. Plain("user", turn) \in Messages
    BY MessageTypes DEF TypeOK, Roles
  <2>2. history' \in Seq(Messages) /\ Len(history') = Len(history) + 1
    BY <1>1, <2>1 DEF Send, TypeOK
  <2> QED
    BY <1>1, <2>2 DEF Send, TypeOK
<1>2. CASE IterationsExceeded
  BY <1>2 DEF IterationsExceeded, TypeOK
<1>3. CASE CancelSeen
  BY <1>3 DEF CancelSeen, TypeOK
<1>4. CASE BeginRound
  BY <1>4 DEF BeginRound, TypeOK
<1>5. CASE RequestThrows
  BY <1>5 DEF RequestThrows, TypeOK
<1>6. CASE StreamContent
  BY <1>6, PostTypes DEF StreamContent, TypeOK, EventTypes
<1>7. CASE StreamReasoning
  BY <1>7, PostTypes DEF StreamReasoning, TypeOK, EventTypes
<1>8. CASE StreamAborted
  BY <1>8 DEF StreamAborted, TypeOK
<1>9. CASE StreamFails
  BY <1>9 DEF StreamFails, TypeOK
<1>10. CASE StreamThrows
  BY <1>10 DEF StreamThrows, TypeOK
<1>11. CASE FinalReply
  <2>1. Plain("assistant", said) \in Messages
    BY MessageTypes DEF TypeOK, Roles
  <2>2. history' \in Seq(Messages) /\ Len(history') = Len(history) + 1
    BY <1>11, <2>1 DEF FinalReply, TypeOK
  <2> QED
    BY <1>11, <2>2, ServerAssumption DEF FinalReply, TypeOK
<1>12. CASE ToolReply
  <2>1. PICK requested \in Replies :
          /\ history' = Append(history, Requesting(said, requested))
          /\ calls' = requested
    BY <1>12 DEF ToolReply
  <2>2. requested \in Seq(Calls)
    BY RepliesAssumption
  <2>3. Requesting(said, requested) \in Messages
    BY <2>2, MessageTypes DEF TypeOK
  <2>4. history' \in Seq(Messages) /\ Len(history') = Len(history) + 1
    BY <2>1, <2>3 DEF TypeOK
  <2> QED
    BY <1>12, <2>1, <2>2, <2>4 DEF ToolReply, TypeOK
<1>13. CASE AnnounceCall
  BY <1>13, PostTypes DEF AnnounceCall, TypeOK, EventTypes
<1>14. CASE UnknownTool
  BY <1>14 DEF UnknownTool, Finishes, TypeOK, Results
<1>15. CASE PreviewThrows
  BY <1>15 DEF PreviewThrows, TypeOK
<1>16. CASE GateRuns
  BY <1>16 DEF GateRuns, TypeOK
<1>17. CASE GateRefuses
  BY <1>17 DEF GateRefuses, Finishes, TypeOK, Results
<1>18. CASE GateAsks
  BY <1>18, PostTypes DEF GateAsks, TypeOK, EventTypes
<1>19. CASE Approved
  BY <1>19 DEF Approved, TypeOK, CallDecided
<1>20. CASE Declined
  BY <1>20 DEF Declined, Finishes, TypeOK, Results
<1>21. CASE ExecuteThrows
  BY <1>21 DEF ExecuteThrows, TypeOK
<1>22. CASE Execute
  BY <1>22, ServerAssumption DEF Execute, Finishes, TypeOK
<1>23. CASE FinishCall
  <2>1. Call.id \in CallIds /\ k \in 1..Len(calls)
    BY <1>23, CallTypes DEF FinishCall, ToolPhases, CursorInRound
  <2>2. tr \in Results
    BY <1>23 DEF FinishCall, CallDecided
  <2>3. Answer(Call.id, tr) \in Messages
    BY <2>1, <2>2, MessageTypes
  <2>4. history' \in Seq(Messages) /\ Len(history') = Len(history) + 1
    BY <1>23, <2>3 DEF FinishCall, TypeOK
  <2>5. events' \in Seq([type : EventTypes, turn : Nat])
    BY <1>23, PostTypes DEF FinishCall, EventTypes
  <2>6. iter' \in 0..MaxIters
    BY <1>23 DEF FinishCall, TypeOK, IterBelow, ToolPhases
  <2>7. calls' \in Seq(Calls) /\ k' \in Nat \ {0} /\ wpc' \in Phases
    <3>1. CASE k < Len(calls)
      BY <1>23, <2>1, <3>1 DEF FinishCall, TypeOK
    <3>2. CASE ~(k < Len(calls))
      BY <1>23, <2>1, <3>2 DEF FinishCall, TypeOK
    <3> QED
      BY <3>1, <3>2
  <2> QED
    BY <1>23, <2>4, <2>5, <2>6, <2>7 DEF FinishCall, TypeOK, NoResult
<1>24. CASE Settle
  <2>1. history' = history \/ history' = SubSeq(history, 1, mark)
    BY <1>24 DEF Settle
  <2>2. history \in Seq(Messages) /\ mark \in 0..Len(history)
    BY DEF TypeOK
  <2>3. history' \in Seq(Messages) /\ mark \in 0..Len(history')
    BY <2>1, <2>2
  <2>4. lastTokens' \in {used, lastTokens} /\ wpc' = "post"
    BY <1>24 DEF Settle
  <2>5. UNCHANGED <<loopVars, always, cancel, events, reply, turn, configVars, sentModel>>
    BY <1>24 DEF Settle
  <2> QED
    BY <2>3, <2>4, <2>5 DEF TypeOK
<1>25. CASE PostOutcome
  BY <1>25, PostTypes, SMTT(15) DEF PostOutcome, TypeOK, EventTypes, NoResult
<1>26. CASE StartTurn
  <2>1. turn' \in 0..MaxTurns
    BY <1>26 DEF StartTurn, TypeOK
  <2> QED
    BY <1>26, <2>1 DEF StartTurn, TypeOK
<1>27. CASE JoinAfterFinal
  BY <1>27 DEF JoinAfterFinal, Join, TypeOK
<1>28. CASE Pop
  BY <1>28 DEF Pop, TypeOK
<1>29. CASE RequestCancel
  BY <1>29 DEF RequestCancel, TypeOK
<1>30. ASSUME NEW choice \in ConfirmChoices, Respond(choice)
       PROVE  TypeOK'
  BY <1>30 DEF Respond, TypeOK
<1>31. CASE Reset
  <2>1. history' \in Seq(Messages)
    BY <1>31, MessageTypes DEF Reset, TypeOK
  <2> QED
    BY <1>31, <2>1 DEF Reset, TypeOK, MarkAtRest
<1>32. ASSUME NEW text \in 1..turn, CompactInto(text)
       PROVE  TypeOK'
  <2>1. text \in Nat
    BY DEF TypeOK
  <2>2. history' \in Seq(Messages)
    BY <1>32, <2>1, MessageTypes DEF CompactInto, TypeOK
  <2> QED
    BY <1>32, <2>2 DEF CompactInto, TypeOK, MarkAtRest
<1>33. ASSUME NEW text \in 1..turn, SetSystemPrompt(text)
       PROVE  TypeOK'
  BY <1>33 DEF SetSystemPrompt, TypeOK
<1>34. ASSUME NEW model \in Models, SetModel(model)
       PROVE  TypeOK'
  BY <1>34 DEF SetModel, TypeOK
<1>35. CASE UNCHANGED agentVars
  BY <1>35 DEF agentVars, TypeOK
<1> QED
  BY <1>1, <1>2, <1>3, <1>4, <1>5, <1>6, <1>7, <1>8, <1>9, <1>10, <1>11, <1>12, <1>13,
     <1>14, <1>15, <1>16, <1>17, <1>18, <1>19, <1>20, <1>21, <1>22, <1>23, <1>24, <1>25,
     <1>26, <1>27, <1>28, <1>29, <1>30, <1>31, <1>32, <1>33, <1>34, <1>35
  DEF AgentNext, WorkerNext, OwnerNext

-----------------------------------------------------------------------------
(* The facts about the worker's position and the current call.              *)

LEMMA InitControl == AgentInit => Control
  BY DEF AgentInit, Control, IterBelow, MarkAtRest, OkEndsPlain, CallDecided, ToolPhases

LEMMA DecideGives ==
  ASSUME NEW tool, NEW details
  PROVE  Decide(Policy, tool, details) \in Verdicts
  BY DEF Decide, Verdicts

\* Every step keeps the worker's place and its variables in agreement.
THEOREM StepControl == IInv /\ [AgentNext]_agentVars => Control'
<1> SUFFICES ASSUME IInv, [AgentNext]_agentVars
             PROVE  Control'
  OBVIOUS
<1>0. TypeOK /\ CursorInRound /\ IterBelow /\ MarkAtRest /\ OkEndsPlain /\ CallDecided /\ MarkComplete
  BY DEF IInv, Control, Shape
<1> USE <1>0 DEF Control, IterBelow, MarkAtRest, OkEndsPlain, CallDecided, Call, ToolPhases,
                 Step, loopVars, configVars
<1>1. CASE Send
  BY <1>1 DEF Send
<1>2. CASE IterationsExceeded
  BY <1>2 DEF IterationsExceeded
<1>3. CASE CancelSeen
  BY <1>3 DEF CancelSeen
<1>4. CASE BeginRound
  BY <1>4 DEF BeginRound
<1>5. CASE RequestThrows
  BY <1>5 DEF RequestThrows
<1>6. CASE StreamContent
  BY <1>6 DEF StreamContent
<1>7. CASE StreamReasoning
  BY <1>7 DEF StreamReasoning
<1>8. CASE StreamAborted
  BY <1>8 DEF StreamAborted
<1>9. CASE StreamFails
  BY <1>9 DEF StreamFails
<1>10. CASE StreamThrows
  BY <1>10 DEF StreamThrows
<1>11. CASE FinalReply
  BY <1>11 DEF FinalReply, TypeOK, MarkComplete, InSend, Plain
<1>12. CASE ToolReply
  BY <1>12 DEF ToolReply
<1>13. CASE AnnounceCall
  BY <1>13 DEF AnnounceCall
<1>14. CASE UnknownTool
  BY <1>14, ToolsAssumption DEF UnknownTool, Finishes, Denied, Results
<1>15. CASE PreviewThrows
  BY <1>15 DEF PreviewThrows
<1>16. CASE GateRuns
  BY <1>16, DecideGives DEF GateRuns, Verdict, Verdicts
<1>17. CASE GateRefuses
  BY <1>17 DEF GateRefuses, Finishes, Results
<1>18. CASE GateAsks
  BY <1>18, DecideGives DEF GateAsks, Verdict, Verdicts
<1>19. CASE Approved
  BY <1>19 DEF Approved
<1>20. CASE Declined
  BY <1>20 DEF Declined, Finishes, Results
<1>21. CASE ExecuteThrows
  BY <1>21 DEF ExecuteThrows
<1>22. CASE Execute
  BY <1>22, ServerAssumption DEF Execute, Finishes, Denied
<1>23. CASE FinishCall
  BY <1>23 DEF FinishCall
<1>24. CASE Settle
  BY <1>24 DEF Settle
<1>25. CASE PostOutcome
  BY <1>25 DEF PostOutcome
<1>26. CASE StartTurn
  BY <1>26 DEF StartTurn
<1>27. CASE JoinAfterFinal
  BY <1>27 DEF JoinAfterFinal, Join
<1>28. CASE Pop
  BY <1>28 DEF Pop
<1>29. CASE RequestCancel
  BY <1>29 DEF RequestCancel
<1>30. ASSUME NEW choice \in ConfirmChoices, Respond(choice)
       PROVE  Control'
  BY <1>30 DEF Respond
<1>31. CASE Reset
  BY <1>31 DEF Reset
<1>32. ASSUME NEW text \in 1..turn, CompactInto(text)
       PROVE  Control'
  BY <1>32 DEF CompactInto
<1>33. ASSUME NEW text \in 1..turn, SetSystemPrompt(text)
       PROVE  Control'
  BY <1>33 DEF SetSystemPrompt
<1>34. ASSUME NEW model \in Models, SetModel(model)
       PROVE  Control'
  BY <1>34 DEF SetModel
<1>35. CASE UNCHANGED agentVars
  BY <1>35 DEF agentVars, Denied
<1> QED
  BY <1>1, <1>2, <1>3, <1>4, <1>5, <1>6, <1>7, <1>8, <1>9, <1>10, <1>11, <1>12, <1>13,
     <1>14, <1>15, <1>16, <1>17, <1>18, <1>19, <1>20, <1>21, <1>22, <1>23, <1>24, <1>25,
     <1>26, <1>27, <1>28, <1>29, <1>30, <1>31, <1>32, <1>33, <1>34, <1>35
  DEF AgentNext, WorkerNext, OwnerNext

-----------------------------------------------------------------------------
(* The shape of the history.                                                *)

LEMMA InitShape == AgentInit => Shape
<1> SUFFICES ASSUME AgentInit PROVE Shape
  OBVIOUS
<1>1. \A i \in DOMAIN history : history[i] = Plain("system", SystemPrompt)
  BY DEF AgentInit, Seed
<1>2. wpc = "idle"
  BY DEF AgentInit
<1> QED
  BY <1>1, <1>2 DEF Shape, CursorInRound, RoundAtTail, CallsAnswered, ResultsBelong,
     MarkComplete, DeniedDeclined, ToolPhases, InSend, Plain

\* A step that leaves the history and the cursor alone, and moves neither into nor
\* out of a turn or a round.
Quiet ==
  /\ UNCHANGED <<history, calls, k, mark>>
  /\ wpc' \in InSend <=> wpc \in InSend
  /\ wpc' \in ToolPhases => wpc \in ToolPhases
  /\ wpc \in ToolPhases \cup {"crashed"} => wpc' \in ToolPhases \cup {"crashed"}

LEMMA QuietKeepsShape == Shape /\ Quiet => Shape'
<1> SUFFICES ASSUME Shape, Quiet PROVE Shape'
  OBVIOUS
<1> USE DEF Shape, Quiet
<1>1. CursorInRound' /\ RoundAtTail'
  BY DEF CursorInRound, RoundAtTail
<1>2. CallsAnswered'
  BY DEF CallsAnswered, Answers
<1>3. ResultsBelong'
  BY DEF ResultsBelong
<1>4. MarkComplete'
  BY DEF MarkComplete
<1>5. DeniedDeclined'
  BY DEF DeniedDeclined, Denied
<1> QED
  BY <1>1, <1>2, <1>3, <1>4, <1>5

\* Most steps are of that kind.
LEMMA QuietSteps ==
  ASSUME TypeOK,
         \/ IterationsExceeded \/ CancelSeen \/ BeginRound \/ RequestThrows
         \/ StreamContent \/ StreamReasoning \/ StreamAborted \/ StreamFails \/ StreamThrows
         \/ AnnounceCall \/ UnknownTool \/ PreviewThrows \/ GateRuns \/ GateRefuses
         \/ GateAsks \/ Approved \/ Declined \/ ExecuteThrows \/ Execute
         \/ StartTurn \/ JoinAfterFinal \/ Pop \/ RequestCancel
         \/ (\E choice \in ConfirmChoices : Respond(choice))
         \/ (\E text \in 1..turn : SetSystemPrompt(text))
         \/ (\E model \in Models : SetModel(model))
         \/ UNCHANGED agentVars
  PROVE  Quiet
<1> USE DEF Quiet, Step, loopVars, configVars, InSend, ToolPhases
<1>1. CASE IterationsExceeded \/ CancelSeen \/ BeginRound \/ RequestThrows
  BY <1>1 DEF IterationsExceeded, CancelSeen, BeginRound, RequestThrows
<1>2. CASE StreamContent \/ StreamReasoning \/ StreamAborted \/ StreamFails \/ StreamThrows
  BY <1>2 DEF StreamContent, StreamReasoning, StreamAborted, StreamFails, StreamThrows
<1>3. CASE AnnounceCall \/ UnknownTool \/ PreviewThrows \/ GateRuns \/ GateRefuses
  BY <1>3 DEF AnnounceCall, UnknownTool, PreviewThrows, GateRuns, GateRefuses, Finishes
<1>4. CASE GateAsks \/ Approved \/ Declined \/ ExecuteThrows \/ Execute
  BY <1>4 DEF GateAsks, Approved, Declined, ExecuteThrows, Execute, Finishes
<1>5. CASE StartTurn \/ JoinAfterFinal \/ Pop \/ RequestCancel
  BY <1>5 DEF StartTurn, JoinAfterFinal, Join, Pop, RequestCancel
<1>6. CASE \E choice \in ConfirmChoices : Respond(choice)
  BY <1>6 DEF Respond
<1>7. CASE \E text \in 1..turn : SetSystemPrompt(text)
  BY <1>7 DEF SetSystemPrompt
<1>8. CASE \E model \in Models : SetModel(model)
  BY <1>8 DEF SetModel
<1>9. CASE UNCHANGED agentVars
  BY <1>9 DEF agentVars
<1> QED
  BY <1>1, <1>2, <1>3, <1>4, <1>5, <1>6, <1>7, <1>8, <1>9

\* What appending a message keeps.
LEMMA AppendKeeps ==
  ASSUME NEW h \in Seq(Messages), NEW m \in Messages
  PROVE  /\ DOMAIN Append(h, m) = 1..(Len(h) + 1)
         /\ \A i \in DOMAIN h : Append(h, m)[i] = h[i]
         /\ Append(h, m)[Len(h) + 1] = m
         /\ \A i \in DOMAIN h : \A j \in DOMAIN h[i].calls :
              Answers(h, i, j) => Answers(Append(h, m), i, j)
<1>1. /\ DOMAIN Append(h, m) = 1..(Len(h) + 1)
      /\ \A i \in DOMAIN h : Append(h, m)[i] = h[i]
      /\ Append(h, m)[Len(h) + 1] = m
  OBVIOUS
<1>2. ASSUME NEW i \in DOMAIN h, NEW j \in DOMAIN h[i].calls, Answers(h, i, j)
      PROVE  Answers(Append(h, m), i, j)
  BY <1>1, <1>2 DEF Answers
<1> QED
  BY <1>1, <1>2

\* While no round is open every call of the history is answered.
LEMMA AllAnswered ==
  ASSUME CallsAnswered, wpc \notin ToolPhases \cup {"crashed"}
  PROVE  \A i \in DOMAIN history : \A j \in DOMAIN history[i].calls : Answers(history, i, j)
  BY DEF CallsAnswered

\* A message that is no result and requests nothing leaves the shape alone.
LEMMA AppendPlain ==
  ASSUME TypeOK, CallsAnswered, ResultsBelong, DeniedDeclined,
         wpc \notin ToolPhases \cup {"crashed"},
         wpc' \notin ToolPhases,
         NEW m \in Messages, m.role # "tool", m.calls = <<>>,
         history' = Append(history, m)
  PROVE  CallsAnswered' /\ ResultsBelong' /\ DeniedDeclined'
<1>1. history \in Seq(Messages)
  BY DEF TypeOK
<1>2. /\ DOMAIN history' = 1..(Len(history) + 1)
      /\ \A i \in DOMAIN history : history'[i] = history[i]
      /\ history'[Len(history) + 1] = m
      /\ \A i \in DOMAIN history : \A j \in DOMAIN history[i].calls :
           Answers(history, i, j) => Answers(history', i, j)
  BY <1>1, AppendKeeps
<1>3. DOMAIN history = 1..Len(history) /\ Len(history) \in Nat /\ DOMAIN m.calls = {}
  BY <1>1
<1>4. \A i \in DOMAIN history' : \A j \in DOMAIN history'[i].calls :
        i \in DOMAIN history /\ j \in DOMAIN history[i].calls /\ Answers(history, i, j)
  BY <1>2, <1>3, AllAnswered
<1>5. CallsAnswered'
  BY <1>2, <1>4 DEF CallsAnswered
<1>6. ResultsBelong'
  BY <1>2, <1>3 DEF ResultsBelong
<1>7. DeniedDeclined'
  BY <1>2, <1>4 DEF DeniedDeclined, Denied, Answers
<1> QED
  BY <1>5, <1>6, <1>7

LEMMA SendShape == TypeOK /\ MarkAtRest /\ Shape /\ Send => Shape'
<1> SUFFICES ASSUME TypeOK, MarkAtRest, Shape, Send PROVE Shape'
  OBVIOUS
<1> DEFINE m == Plain("user", turn)
<1>1. m \in Messages /\ m.role = "user" /\ m.calls = <<>>
  BY MessageTypes, LimitsAssumption DEF TypeOK, Roles, Plain
<1>2. wpc = "send" /\ wpc' = "check" /\ history' = Append(history, m) /\ mark' = Len(history)
  BY DEF Send, Step
<1>3. CallsAnswered' /\ ResultsBelong' /\ DeniedDeclined'
  BY <1>1, <1>2, AppendPlain DEF Shape, ToolPhases
<1>4. history \in Seq(Messages)
  BY DEF TypeOK
<1>5. MarkComplete'
  <2>1. \A i \in DOMAIN history : \A j \in DOMAIN history[i].calls :
          i + j \in DOMAIN history /\ history'[i] = history[i]
    BY <1>2, <1>4, AppendKeeps, AllAnswered DEF Shape, Answers, ToolPhases
  <2>2. mark' < Len(history') /\ history'[mark' + 1].role = "user"
    BY <1>1, <1>2, <1>4, AppendKeeps
  <2> QED
    BY <1>2, <1>4, <2>1, <2>2 DEF MarkComplete
<1> QED
  BY <1>2, <1>3, <1>5 DEF Shape, CursorInRound, RoundAtTail, ToolPhases

\* A step within a turn that only adds to the history keeps what MarkComplete says.
LEMMA AppendMark ==
  ASSUME TypeOK, MarkComplete, wpc \in InSend, NEW m \in Messages,
         history' = Append(history, m), mark' = mark
  PROVE  MarkComplete'
<1>1. history \in Seq(Messages) /\ mark \in 0..Len(history)
  BY DEF TypeOK
<1>2. \A i \in DOMAIN history : history'[i] = history[i]
  BY <1>1, AppendKeeps
<1> QED
  BY <1>1, <1>2 DEF MarkComplete

LEMMA FinalReplyShape == TypeOK /\ Shape /\ FinalReply => Shape'
<1> SUFFICES ASSUME TypeOK, Shape, FinalReply PROVE Shape'
  OBVIOUS
<1> DEFINE m == Plain("assistant", said)
<1>1. m \in Messages /\ m.role = "assistant" /\ m.calls = <<>>
  BY MessageTypes DEF TypeOK, Roles, Plain
<1>2. wpc = "stream" /\ wpc' = "settle" /\ history' = Append(history, m) /\ mark' = mark
  BY DEF FinalReply, Step
<1>3. CallsAnswered' /\ ResultsBelong' /\ DeniedDeclined'
  BY <1>1, <1>2, AppendPlain DEF Shape, ToolPhases
<1>4. MarkComplete'
  BY <1>1, <1>2, AppendMark DEF Shape, InSend
<1> QED
  BY <1>2, <1>3, <1>4 DEF Shape, CursorInRound, RoundAtTail, ToolPhases

LEMMA ToolReplyShape == TypeOK /\ Shape /\ ToolReply => Shape'
<1> SUFFICES ASSUME TypeOK, Shape, ToolReply PROVE Shape'
  OBVIOUS
<1>1. PICK requested \in Replies :
        /\ history' = Append(history, Requesting(said, requested))
        /\ calls' = requested
  BY DEF ToolReply
<1> DEFINE m == Requesting(said, requested)
<1>2. requested \in Seq(Calls) /\ requested # <<>>
  BY RepliesAssumption
<1>3. m \in Messages /\ m.role = "assistant" /\ m.calls = requested
  BY <1>2, MessageTypes DEF TypeOK, Requesting
<1>4. wpc = "stream" /\ wpc' = "call" /\ k' = 1 /\ mark' = mark
  BY DEF ToolReply, Step
<1>5. history \in Seq(Messages) /\ Len(history) \in Nat /\ DOMAIN history = 1..Len(history)
  BY DEF TypeOK
<1>6. /\ history' \in Seq(Messages)
      /\ Len(history') = Len(history) + 1
      /\ DOMAIN history' = 1..(Len(history) + 1)
      /\ \A i \in DOMAIN history : history'[i] = history[i]
      /\ history'[Len(history) + 1] = m
      /\ \A i \in DOMAIN history : \A j \in DOMAIN history[i].calls :
           Answers(history, i, j) => Answers(history', i, j)
  BY <1>1, <1>3, <1>5, AppendKeeps
<1>7. CursorInRound' /\ RoundAtTail'
  BY <1>1, <1>2, <1>3, <1>4, <1>5, <1>6 DEF CursorInRound, RoundAtTail
<1>8. \A i \in DOMAIN history : \A j \in DOMAIN history[i].calls : Answers(history, i, j)
  BY <1>4, AllAnswered DEF Shape, ToolPhases
<1>9. \A j \in DOMAIN m.calls : j >= 1 /\ j \in Nat
  BY <1>2, <1>3
<1>10. CallsAnswered'
  BY <1>4, <1>5, <1>6, <1>8, <1>9 DEF CallsAnswered, ToolPhases
<1>11. ResultsBelong'
  BY <1>3, <1>5, <1>6, SMTT(15) DEF ResultsBelong, Shape
<1>12. DeniedDeclined'
  BY <1>5, <1>6, <1>8, <1>9 DEF DeniedDeclined, Shape, Denied, Answers
<1>13. MarkComplete'
  BY <1>1, <1>3, <1>4, AppendMark DEF Shape, InSend
<1> QED
  BY <1>7, <1>10, <1>11, <1>12, <1>13 DEF Shape

LEMMA FinishCallShape == TypeOK /\ CallDecided /\ Shape /\ FinishCall => Shape'
<1> SUFFICES ASSUME TypeOK, CallDecided, Shape, FinishCall PROVE Shape'
  OBVIOUS
<1> DEFINE m == Answer(Call.id, tr)
<1> DEFINE n == Len(history)
<1> DEFINE p == n - k + 1
<1>1. /\ wpc = "result" /\ wpc \in ToolPhases /\ mark' = mark
      /\ history' = Append(history, m)
  BY DEF FinishCall, ToolPhases
<1>2. /\ Call \in Calls /\ Call.id \in CallIds /\ tr \in Results
      /\ k \in 1..Len(calls) /\ Len(calls) \in Nat /\ DOMAIN calls = 1..Len(calls)
  BY <1>1, CallTypes DEF Shape, CallDecided, CursorInRound, TypeOK
<1>3. /\ m \in Messages /\ m.role = "tool" /\ m.id = Call.id /\ m.result = tr
      /\ m.calls = <<>> /\ DOMAIN m.calls = {}
  <2>1. m \in Messages
    BY <1>2, MessageTypes
  <2>2. m.role = "tool" /\ m.id = Call.id /\ m.result = tr /\ m.calls = <<>>
    BY DEF Answer
  <2>3. DOMAIN m.calls = {}
    BY <2>2
  <2> QED
    BY <2>1, <2>2, <2>3
<1>4. history \in Seq(Messages) /\ n \in Nat /\ DOMAIN history = 1..n
  BY DEF TypeOK
<1>5. /\ history' \in Seq(Messages)
      /\ Len(history') = n + 1
      /\ DOMAIN history' = 1..(n + 1)
      /\ \A i \in DOMAIN history : history'[i] = history[i]
      /\ history'[n + 1] = m
      /\ \A i \in DOMAIN history : \A j \in DOMAIN history[i].calls :
           Answers(history, i, j) => Answers(history', i, j)
  BY <1>1, <1>3, <1>4, AppendKeeps
<1>6. p \in 1..n /\ history[p].calls = calls /\ p + k = n + 1
  BY <1>1, <1>2, <1>4 DEF Shape, RoundAtTail
<1> HIDE DEF m, n, p
<1>7. Answers(history', p, k)
  <2>1. history'[p + k] = m /\ p + k \in DOMAIN history' /\ history'[p].calls = calls
    BY <1>4, <1>5, <1>6
  <2> QED
    BY <1>3, <2>1 DEF Answers, Call
\* A call is answered, or is the one just answered, or is still to come.
<1>8. \A i \in DOMAIN history' : \A j \in DOMAIN history'[i].calls :
        /\ i \in DOMAIN history /\ history'[i] = history[i]
        /\ j \in DOMAIN history[i].calls
        /\ \/ Answers(history, i, j)
           \/ i = p /\ j = k
           \/ i = p /\ j > k
  <2> SUFFICES ASSUME NEW i \in DOMAIN history', NEW j \in DOMAIN history'[i].calls
               PROVE  /\ i \in DOMAIN history /\ history'[i] = history[i]
                      /\ j \in DOMAIN history[i].calls
                      /\ Answers(history, i, j) \/ (i = p /\ j = k) \/ (i = p /\ j > k)
    OBVIOUS
  <2>1. i \in DOMAIN history /\ history'[i] = history[i] /\ j \in DOMAIN history[i].calls
    BY <1>3, <1>4, <1>5
  <2>2. Answers(history, i, j) \/ (i = p /\ j >= k)
    BY <1>1, <2>1 DEF Shape, CallsAnswered, p, n
  <2>3. i = p => j \in Nat /\ k \in Nat
    BY <1>2, <1>6, <2>1
  <2> QED
    BY <2>1, <2>2, <2>3
<1>9. ResultsBelong'
  <2> SUFFICES ASSUME NEW q \in DOMAIN history', history'[q].role = "tool"
               PROVE  \E i \in 1..(q - 1) : q - i \in DOMAIN history'[i].calls
    BY DEF ResultsBelong
  <2>1. CASE q = n + 1
    <3>1. p \in 1..(q - 1) /\ q - p = k /\ history'[p].calls = calls
      BY <1>2, <1>4, <1>5, <1>6, <2>1
    <3> QED
      BY <1>2, <3>1
  <2>2. CASE q \in DOMAIN history
    <3>1. PICK i \in 1..(q - 1) : q - i \in DOMAIN history[i].calls
      BY <1>5, <2>2 DEF Shape, ResultsBelong
    <3>2. history'[i] = history[i]
      BY <1>4, <1>5, <2>2
    <3> QED
      BY <3>1, <3>2
  <2> QED
    BY <1>4, <1>5, <2>1, <2>2
<1>10. DeniedDeclined'
  <2> SUFFICES ASSUME NEW i \in DOMAIN history', NEW j \in DOMAIN history'[i].calls,
                      Denied(history'[i].calls[j]), i + j \in DOMAIN history'
               PROVE  history'[i + j].result = "declined"
    BY DEF DeniedDeclined, Denied
  <2>1. CASE Answers(history, i, j)
    BY <1>5, <1>8, <2>1 DEF Answers, Shape, DeniedDeclined
  <2>2. CASE i = p /\ j = k
    BY <1>1, <1>3, <1>5, <1>6, <1>8, <2>2 DEF CallDecided, Call
  <2>3. CASE i = p /\ j > k
    <3>1. j \in Nat /\ k \in Nat
      BY <1>2, <1>6, <1>8, <2>3
    <3> QED
      BY <1>4, <1>5, <1>6, <2>3, <3>1
  <2> QED
    BY <1>8, <2>1, <2>2, <2>3
<1>11. MarkComplete'
  BY <1>1, <1>3, AppendMark DEF Shape, InSend, ToolPhases
<1>12. CASE k < Len(calls)
  <2>1. wpc' = "call" /\ k' = k + 1 /\ calls' = calls
    BY <1>12 DEF FinishCall
  <2>2. Len(history') - k' + 1 = p /\ history'[p].calls = calls' /\ p \in 1..Len(history')
    BY <1>2, <1>4, <1>5, <1>6, <2>1 DEF p, n
  <2>3. CursorInRound' /\ RoundAtTail'
    BY <1>2, <1>12, <2>1, <2>2 DEF CursorInRound, RoundAtTail
  <2>4. \A j \in Nat : j > k => j >= k'
    BY <1>2, <2>1
  <2>5. \A j \in DOMAIN history[p].calls : j \in Nat
    BY <1>2, <1>6
  <2>6. CallsAnswered'
    BY <1>5, <1>7, <1>8, <2>1, <2>2, <2>4, <2>5 DEF CallsAnswered, ToolPhases
  <2> QED
    BY <1>9, <1>10, <1>11, <2>3, <2>6 DEF Shape
<1>13. CASE ~(k < Len(calls))
  <2>1. wpc' = "check"
    BY <1>13 DEF FinishCall
  <2>2. \A j \in DOMAIN history[p].calls : ~(j > k)
    BY <1>2, <1>6, <1>13
  <2>3. CallsAnswered'
    BY <1>5, <1>7, <1>8, <2>2 DEF CallsAnswered
  <2> QED
    BY <1>9, <1>10, <1>11, <2>1, <2>3 DEF Shape, CursorInRound, RoundAtTail, ToolPhases
<1> QED
  BY <1>12, <1>13

LEMMA SettleShape == TypeOK /\ Shape /\ Settle => Shape'
<1> SUFFICES ASSUME TypeOK, Shape, Settle PROVE Shape'
  OBVIOUS
<1>1. wpc = "settle" /\ wpc' = "post" /\ UNCHANGED loopVars
  BY DEF Settle, Step
<1>2. CursorInRound' /\ RoundAtTail' /\ MarkComplete'
  BY <1>1 DEF CursorInRound, RoundAtTail, MarkComplete, ToolPhases, InSend
<1>3. \A i \in DOMAIN history : \A j \in DOMAIN history[i].calls : Answers(history, i, j)
  BY <1>1, AllAnswered DEF Shape, ToolPhases
<1>4. CASE outcome = "ok"
  <2>1. history' = history
    BY <1>4 DEF Settle
  <2> QED
    BY <1>2, <1>3, <2>1 DEF Shape, CallsAnswered, ResultsBelong, DeniedDeclined, Denied
<1>5. CASE outcome # "ok"
  <2>1. history \in Seq(Messages) /\ mark \in 0..Len(history)
    BY DEF TypeOK
  <2>2. /\ DOMAIN history' = 1..mark
        /\ \A i \in 1..mark : i \in DOMAIN history /\ history'[i] = history[i]
    BY <1>5, <2>1 DEF Settle
  <2>3. \A i \in 1..mark : \A j \in DOMAIN history[i].calls : i + j <= mark
    BY <1>1 DEF Shape, MarkComplete, InSend
  <2>4. \A i \in DOMAIN history' : \A j \in DOMAIN history'[i].calls :
          /\ history'[i] = history[i]
          /\ Answers(history, i, j) /\ i + j \in 1..mark
    BY <1>3, <2>1, <2>2, <2>3 DEF Answers
  <2>5. CallsAnswered'
    BY <2>2, <2>4 DEF CallsAnswered, Answers
  <2>6. ResultsBelong'
    <3> SUFFICES ASSUME NEW q \in 1..mark, history'[q].role = "tool"
                 PROVE  \E i \in 1..(q - 1) : q - i \in DOMAIN history'[i].calls
      BY <2>2 DEF ResultsBelong
    <3>1. q \in DOMAIN history /\ history[q].role = "tool"
      BY <2>2
    <3>2. PICK i \in 1..(q - 1) : q - i \in DOMAIN history[i].calls
      BY <3>1 DEF Shape, ResultsBelong
    <3>3. i \in 1..mark
      BY <2>1, <3>2
    <3> QED
      BY <2>2, <3>2, <3>3
  <2>7. DeniedDeclined'
    BY <2>2, <2>4 DEF Shape, DeniedDeclined, Denied, Answers
  <2> QED
    BY <1>2, <2>5, <2>6, <2>7 DEF Shape
<1> QED
  BY <1>4, <1>5

LEMMA PostOutcomeShape == Shape /\ PostOutcome => Shape'
<1> SUFFICES ASSUME Shape, PostOutcome PROVE Shape'
  OBVIOUS
<1>1. wpc = "post" /\ wpc' = "exited" /\ history' = history
  BY DEF PostOutcome, Step
<1>2. \A i \in DOMAIN history : \A j \in DOMAIN history[i].calls : Answers(history, i, j)
  BY <1>1, AllAnswered DEF Shape, ToolPhases
<1> QED
  BY <1>1, <1>2 DEF Shape, CursorInRound, RoundAtTail, CallsAnswered, ResultsBelong,
     MarkComplete, DeniedDeclined, Denied, ToolPhases, InSend

\* A conversation replaced as a whole holds no calls and no results.
LEMMA OnlySystemShape ==
  ASSUME wpc' = "idle", OnlySystem(history')
  PROVE  Shape'
<1>1. \A i \in DOMAIN history' : history'[i].role = "system" /\ DOMAIN history'[i].calls = {}
  BY DEF OnlySystem
<1> QED
  BY <1>1 DEF Shape, CursorInRound, RoundAtTail, CallsAnswered, ResultsBelong,
     MarkComplete, DeniedDeclined, ToolPhases, InSend

LEMMA ReplacedOnlySystem ==
  ASSUME NEW text \in Nat, NEW summary \in Nat
  PROVE  OnlySystem(Seed(text)) /\ OnlySystem(Summarised(text, summary))
<1>1. Plain("system", text).role = "system" /\ Plain("system", text).calls = <<>>
  BY DEF Plain
<1>2. Plain("system", summary).role = "system" /\ Plain("system", summary).calls = <<>>
  BY DEF Plain
<1>3. \A i \in DOMAIN Seed(text) : Seed(text)[i] = Plain("system", text)
  BY DEF Seed
<1>4. Seed(text) \in Seq(Messages)
  BY MessageTypes
<1>5. \A i \in DOMAIN Summarised(text, summary) :
        \/ Summarised(text, summary)[i] = Plain("system", summary)
        \/ i \in DOMAIN Seed(text) /\ Summarised(text, summary)[i] = Seed(text)[i]
  BY <1>4 DEF Summarised
<1> QED
  BY <1>1, <1>2, <1>3, <1>5 DEF OnlySystem

\* Every step keeps requests and results in their places (Agent.cpp:40-65).
THEOREM StepShape == IInv /\ [AgentNext]_agentVars => Shape'
<1> SUFFICES ASSUME IInv, [AgentNext]_agentVars PROVE Shape'
  OBVIOUS
<1>0. TypeOK /\ MarkAtRest /\ CallDecided /\ Shape
  BY DEF IInv, Control
<1>1. CASE Send
  BY <1>0, <1>1, SendShape
<1>2. CASE FinalReply
  BY <1>0, <1>2, FinalReplyShape
<1>3. CASE ToolReply
  BY <1>0, <1>3, ToolReplyShape
<1>4. CASE FinishCall
  BY <1>0, <1>4, FinishCallShape
<1>5. CASE Settle
  BY <1>0, <1>5, SettleShape
<1>6. CASE PostOutcome
  BY <1>0, <1>6, PostOutcomeShape
<1>7. CASE Reset
  BY <1>0, <1>7, OnlySystemShape, ReplacedOnlySystem DEF Reset, TypeOK
<1>8. ASSUME NEW text \in 1..turn, CompactInto(text)
      PROVE  Shape'
  <2>1. text \in Nat /\ prompt \in Nat
    BY <1>0 DEF TypeOK
  <2> QED
    BY <1>8, <2>1, OnlySystemShape, ReplacedOnlySystem DEF CompactInto
<1>9. CASE Quiet
  BY <1>0, <1>9, QuietKeepsShape
<1> QED
  BY <1>0, <1>1, <1>2, <1>3, <1>4, <1>5, <1>6, <1>7, <1>8, <1>9, QuietSteps
  DEF AgentNext, WorkerNext, OwnerNext

-----------------------------------------------------------------------------
(* What the invariant gives.                                                *)

\* IInv holds in every state of every session.
THEOREM Invariance == AgentSpec => []IInv
<1>1. AgentInit => IInv
  BY InitTypeOK, InitControl, InitShape DEF IInv
<1>2. IInv /\ [AgentNext]_agentVars => IInv'
  BY StepTypeOK, StepControl, StepShape DEF IInv
<1> QED
  BY <1>1, <1>2, PTL DEF AgentSpec

\* Every variable of the loop has its type, restore point and counters included.
THEOREM TypeCorrect == AgentSpec => []TypeOK
<1>1. IInv => TypeOK
  BY DEF IInv
<1> QED
  BY <1>1, Invariance, PTL

LEMMA IInvPaired == IInv => HistoryPaired
<1> SUFFICES ASSUME IInv, wpc \notin ToolPhases \cup {"crashed"} PROVE Paired(history)
  BY DEF HistoryPaired
<1>1. \A i \in DOMAIN history : \A j \in DOMAIN history[i].calls : Answers(history, i, j)
  BY AllAnswered DEF IInv, Shape
<1> QED
  BY <1>1 DEF Paired, IInv, Shape, ResultsBelong

\* Whenever a request may go out, or another thread may look at the history, every
\* tool call has its result in its place (Agent.cpp:40-65, 141-142).
THEOREM PairedAlways == AgentSpec => []HistoryPaired
  BY IInvPaired, Invariance, PTL

\* No call a deny rule covers is ever run, and a gated call runs only when a rule or
\* the user lets it, in every order of rules, answers and calls (Confirm.cpp:75-106).
THEOREM DeniedNever == AgentSpec => []DeniedNeverRuns
<1>1. IInv => DeniedNeverRuns
  BY DEF IInv, Control, Shape, CallDecided, DeniedDeclined, DeniedNeverRuns
<1> QED
  BY <1>1, Invariance, PTL

-----------------------------------------------------------------------------
(* Agent::send implements AtomicTurn.                                       *)

\* The instance's copies of Conversation's operators are Conversation's.
LEMMA AtomicOperators ==
  ASSUME NEW h
  PROVE  (Atomic!Paired(h) <=> Paired(h)) /\ (Atomic!OnlySystem(h) <=> OnlySystem(h))
  BY DEF Atomic!Paired, Paired, Atomic!Answers, Answers, Atomic!OnlySystem, OnlySystem

LEMMA InitMaps == AgentInit => Atomic!AInit
<1> SUFFICES ASSUME AgentInit PROVE Atomic!AInit
  OBVIOUS
<1> DEFINE systems == [role : Roles, text : Nat, calls : {<<>>}, id : {NoId}, result : {NoResult}]
<1>1. wpc \notin InSend /\ Committed = Seed(SystemPrompt)
  BY DEF AgentInit, InSend, Committed
<1>2. Plain("system", SystemPrompt) \in systems
  BY ConfigAssumption DEF Plain, Roles, NoId, NoResult
<1> HIDE DEF systems
<1>3. Seed(SystemPrompt) \in Seq(systems)
  BY <1>2 DEF Seed
<1>4. OnlySystem(Seed(SystemPrompt))
  BY ReplacedOnlySystem, ConfigAssumption
<1> QED
  BY <1>1, <1>3, <1>4, AtomicOperators
  DEF systems, Atomic!AInit, Atomic!Roles, Roles, Atomic!NoId, NoId, Atomic!NoResult, NoResult

\* The committed conversation of a turn is not touched by what is added to it.
LEMMA AppendCommitted ==
  ASSUME NEW h \in Seq(Messages), NEW m \in Messages, NEW n \in 0..Len(h)
  PROVE  SubSeq(Append(h, m), 1, n) = SubSeq(h, 1, n)
  OBVIOUS

LEMMA WholeSubSeq ==
  ASSUME NEW h \in Seq(Messages)
  PROVE  SubSeq(h, 1, Len(h)) = h
  OBVIOUS

\* A step within a turn that only adds a message is invisible.
LEMMA AppendStutters ==
  ASSUME TypeOK, wpc \in InSend, wpc' \in InSend, mark' = mark,
         NEW m \in Messages, history' = Append(history, m)
  PROVE  UNCHANGED Atomic!avars
<1>1. Committed' = Committed
  BY AppendCommitted DEF TypeOK, Committed
<1> QED
  BY <1>1 DEF Atomic!avars

LEMMA SettleMaps == IInv /\ Settle => Atomic!ANext
<1> SUFFICES ASSUME IInv, Settle PROVE Atomic!ANext
  OBVIOUS
<1>0. history \in Seq(Messages) /\ mark \in 0..Len(history)
  BY DEF IInv, TypeOK
<1>1. wpc = "settle" /\ wpc' = "post"
  BY DEF Settle, Step
<1>2. wpc \in InSend /\ wpc' \notin InSend
  BY <1>1 DEF InSend
<1>3. Committed = SubSeq(history, 1, mark) /\ Committed' = history'
  BY <1>2 DEF Committed
<1>4. CASE outcome = "ok"
  <2>1. history' = history
    BY <1>4 DEF Settle
  <2>2. Len(Committed) = mark
    BY <1>0, <1>3
  <2>3. SubSeq(history, 1, Len(Committed)) = Committed
    BY <1>3, <2>2
  <2>4. /\ Len(history) > mark + 1
        /\ history[mark + 1].role = "user"
        /\ history[Len(history)].role = "assistant"
        /\ history[Len(history)].calls = <<>>
    BY <1>1, <1>2, <1>4 DEF IInv, Control, Shape, OkEndsPlain, MarkComplete
  <2>5. Paired(history)
    BY <1>1, IInvPaired DEF HistoryPaired, ToolPhases
  <2>6. Committed' = history
    BY <1>3, <2>1
  <2>7. /\ Len(Committed') > Len(Committed) + 1
        /\ SubSeq(Committed', 1, Len(Committed)) = Committed
        /\ Committed'[Len(Committed) + 1].role = "user"
        /\ Committed'[Len(Committed')].role = "assistant"
        /\ Committed'[Len(Committed')].calls = <<>>
    BY <2>2, <2>3, <2>4, <2>6
  <2>8. Atomic!Paired(Committed')
    BY <2>5, <2>6, AtomicOperators
  <2>9. Atomic!Commit
    BY <1>2, <2>7, <2>8 DEF Atomic!Commit
  <2> QED
    BY <2>9 DEF Atomic!ANext
<1>5. CASE outcome # "ok"
  BY <1>2, <1>3, <1>5 DEF Settle, Atomic!Abort, Atomic!ANext
<1> QED
  BY <1>4, <1>5

LEMMA StepMaps == IInv /\ [AgentNext]_agentVars => [Atomic!ANext]_(Atomic!avars)
<1> SUFFICES ASSUME IInv, [AgentNext]_agentVars PROVE [Atomic!ANext]_(Atomic!avars)
  OBVIOUS
<1>0. TypeOK /\ CallDecided /\ CursorInRound /\ history \in Seq(Messages)
  BY DEF IInv, Control, Shape, TypeOK
<1>1. CASE Send
  <2>1. wpc \notin InSend /\ wpc' \in InSend
    BY <1>1 DEF Send, Step, InSend
  <2>2. Plain("user", turn) \in Messages
    BY <1>0, MessageTypes DEF TypeOK, Roles
  <2>3. Committed' = SubSeq(history, 1, Len(history))
    BY <1>0, <1>1, <2>1, <2>2, AppendCommitted DEF Send, Committed
  <2>4. SubSeq(history, 1, Len(history)) = history
    BY <1>0, WholeSubSeq
  <2>5. Committed' = Committed
    BY <2>1, <2>3, <2>4 DEF Committed
  <2> QED
    BY <2>1, <2>5 DEF Atomic!Begin, Atomic!ANext
<1>2. CASE FinalReply
  <2>1. Plain("assistant", said) \in Messages
    BY <1>0, MessageTypes DEF TypeOK, Roles
  <2> QED
    BY <1>0, <1>2, <2>1, AppendStutters DEF FinalReply, Step, InSend
<1>3. CASE ToolReply
  <2>1. PICK requested \in Replies : history' = Append(history, Requesting(said, requested))
    BY <1>3 DEF ToolReply
  <2>2. Requesting(said, requested) \in Messages
    BY <1>0, MessageTypes, RepliesAssumption DEF TypeOK
  <2> QED
    BY <1>0, <1>3, <2>1, <2>2, AppendStutters DEF ToolReply, Step, InSend
<1>4. CASE FinishCall
  <2>1. wpc = "result" /\ wpc' \in {"call", "check"} /\ mark' = mark
    BY <1>4 DEF FinishCall
  <2>2. Call.id \in CallIds /\ tr \in Results
    BY <1>0, <2>1, CallTypes DEF CallDecided, ToolPhases
  <2>3. Answer(Call.id, tr) \in Messages
    BY <2>2, MessageTypes
  <2> QED
    BY <1>0, <1>4, <2>1, <2>3, AppendStutters DEF FinishCall, InSend
<1>5. CASE Settle
  BY <1>5, SettleMaps
<1>6. CASE PostOutcome
  BY <1>6 DEF PostOutcome, Step, InSend, Committed, Atomic!avars
<1>7. CASE Reset
  <2>1. OnlySystem(history')
    BY <1>0, <1>7, ReplacedOnlySystem DEF Reset, TypeOK
  <2> QED
    BY <1>7, <2>1, AtomicOperators DEF Reset, InSend, Committed, Atomic!Replace, Atomic!ANext
<1>8. ASSUME NEW text \in 1..turn, CompactInto(text)
      PROVE  [Atomic!ANext]_(Atomic!avars)
  <2>1. text \in Nat /\ prompt \in Nat
    BY <1>0 DEF TypeOK
  <2>2. OnlySystem(history')
    BY <1>8, <2>1, ReplacedOnlySystem DEF CompactInto
  <2> QED
    BY <1>8, <2>2, AtomicOperators DEF CompactInto, InSend, Committed, Atomic!Replace, Atomic!ANext
<1>9. CASE Quiet
  BY <1>9 DEF Quiet, Committed, Atomic!avars
<1> QED
  BY <1>0, <1>1, <1>2, <1>3, <1>4, <1>5, <1>6, <1>7, <1>8, <1>9, QuietSteps
  DEF AgentNext, WorkerNext, OwnerNext

\* A turn is atomic for whoever looks at the conversation between turns: it commits a
\* whole exchange or rolls back to the restore point, whatever the server, the tools
\* and the user do (Agent.hpp:51-53, Agent.cpp:129-148).
THEOREM Implements == AgentSpec => TurnsAreAtomic
<1>1. AgentInit => Atomic!AInit
  BY InitMaps
<1>2. IInv /\ [AgentNext]_agentVars => [Atomic!ANext]_(Atomic!avars)
  BY StepMaps
<1> QED
  BY <1>1, <1>2, Invariance, PTL DEF AgentSpec, TurnsAreAtomic, Atomic!ASpec

-----------------------------------------------------------------------------
(* The order of the events.                                                 *)

\* Turns whose final event is still to come.
OpenPhases == Phases \ {"idle", "exited"}

\* No event is from a turn to come, and none says that the running turn is over.
EventsOfThePast ==
  \A n \in DOMAIN events :
    /\ events[n].turn <= turn
    /\ wpc \in OpenPhases /\ events[n].type \in FinalTypes => events[n].turn < turn

QueueInOrder ==
  \A m, n \in DOMAIN events : m < n =>
    /\ events[m].turn <= events[n].turn
    /\ events[m].type \in FinalTypes => events[m].turn < events[n].turn

\* A confirmation request is the last event, and its worker still waits for the answer.
RequestLast ==
  \A n \in DOMAIN events : events[n].type = "ConfirmRequest" =>
    wpc = "wait" /\ reply = "none" /\ n = Len(events)

\* The promise of a call is made anew before the gate may ask about it.
ReplyFresh == wpc = "gate" => reply = "none"

EventInv == EventsOfThePast /\ QueueInOrder /\ RequestLast /\ ReplyFresh

LEMMA InitEvents == AgentInit => EventInv
  BY DEF AgentInit, EventInv, EventsOfThePast, QueueInOrder, RequestLast,
     ReplyFresh

LEMMA Numbered ==
  ASSUME TypeOK, NEW n \in DOMAIN events
  PROVE  events[n].turn \in Nat
<1> DEFINE S == [type : EventTypes, turn : Nat]
<1>1. events \in Seq(S)
  BY DEF TypeOK
<1> HIDE DEF S
<1>2. events[n] \in S
  BY <1>1, ElementOfSeq
<1> QED
  BY <1>2 DEF S

\* An event of the running turn: its final one, or one that others may follow.
LEMMA EventPostKeeps ==
  ASSUME TypeOK, EventInv, NEW type \in EventTypes, Post(type), turn' = turn,
         wpc \in OpenPhases \ {"wait"},
         type \in FinalTypes => wpc' \notin OpenPhases,
         type = "ConfirmRequest" => wpc' = "wait" /\ reply' = "none",
         wpc' = "gate" => reply' = "none"
  PROVE  EventInv'
<1>1. events \in Seq([type : EventTypes, turn : Nat]) /\ turn \in Nat
  BY LimitsAssumption DEF TypeOK
<1>2. /\ Len(events') = Len(events) + 1
      /\ DOMAIN events' = 1..(Len(events) + 1)
      /\ DOMAIN events = 1..Len(events)
      /\ \A n \in DOMAIN events : events'[n] = events[n]
      /\ events'[Len(events) + 1].type = type
      /\ events'[Len(events) + 1].turn = turn
  BY <1>1 DEF Post
<1>3. Len(events) \in Nat /\ \A n \in DOMAIN events : events[n].turn \in Nat
  BY <1>1, Numbered
<1>4. \A n \in DOMAIN events' : n \in DOMAIN events \/ n = Len(events) + 1
  BY <1>2, <1>3
<1>5. \A n \in DOMAIN events : events[n].type # "ConfirmRequest"
  BY DEF EventInv, RequestLast
<1>6. \A n \in DOMAIN events :
        /\ events[n].turn <= turn
        /\ events[n].type \in FinalTypes => events[n].turn < turn
  BY DEF EventInv, EventsOfThePast
<1>7. EventsOfThePast'
  BY <1>1, <1>2, <1>4, <1>6 DEF EventsOfThePast
<1>8. QueueInOrder'
  <2> SUFFICES ASSUME NEW m \in DOMAIN events', NEW n \in DOMAIN events', m < n
               PROVE  /\ events'[m].turn <= events'[n].turn
                      /\ events'[m].type \in FinalTypes => events'[m].turn < events'[n].turn
    BY DEF QueueInOrder
  <2>1. m \in DOMAIN events
    BY <1>2, <1>3, <1>4
  <2>2. CASE n \in DOMAIN events
    BY <1>2, <2>1, <2>2 DEF EventInv, QueueInOrder
  <2>3. CASE n = Len(events) + 1
    BY <1>2, <1>6, <2>1, <2>3
  <2> QED
    BY <1>4, <2>2, <2>3
<1>9. RequestLast'
  BY <1>2, <1>4, <1>5 DEF RequestLast
<1> QED
  BY <1>7, <1>8, <1>9 DEF EventInv, ReplyFresh

\* A step that leaves the queue and the turn alone, and the wait for an answer
\* as long as the request for it is in the queue.
Calm ==
  /\ UNCHANGED <<events, turn>>
  /\ wpc' \in OpenPhases => wpc \in OpenPhases
  /\ \/ wpc # "wait" \/ reply # "none" \/ UNCHANGED <<wpc, reply>>
     \/ \A n \in DOMAIN events : events[n].type # "ConfirmRequest"
  /\ wpc' = "gate" => wpc = "gate" /\ reply' = reply

LEMMA CalmKeeps == EventInv /\ Calm => EventInv'
<1> SUFFICES ASSUME EventInv, Calm PROVE EventInv'
  OBVIOUS
<1>1. EventsOfThePast' /\ QueueInOrder'
  BY DEF Calm, EventInv, EventsOfThePast, QueueInOrder
<1>2. RequestLast'
  BY DEF Calm, EventInv, RequestLast
<1> QED
  BY <1>1, <1>2 DEF Calm, EventInv, ReplyFresh

\* Every step that posts and takes out nothing is of that kind.
LEMMA CalmSteps ==
  ASSUME \/ Send \/ IterationsExceeded \/ CancelSeen \/ BeginRound \/ RequestThrows
         \/ StreamAborted \/ StreamFails \/ StreamThrows \/ FinalReply \/ ToolReply
         \/ UnknownTool \/ PreviewThrows \/ GateRuns \/ GateRefuses
         \/ Approved \/ Declined \/ ExecuteThrows \/ Execute \/ Settle
         \/ JoinAfterFinal \/ RequestCancel \/ Reset
         \/ (\E choice \in ConfirmChoices : Respond(choice))
         \/ (\E text \in 1..turn : CompactInto(text) \/ SetSystemPrompt(text))
         \/ (\E model \in Models : SetModel(model))
         \/ UNCHANGED agentVars
  PROVE  Calm
<1> USE DEF Calm, Step, OpenPhases, Phases
<1>1. CASE Send \/ IterationsExceeded \/ CancelSeen \/ BeginRound \/ RequestThrows
  BY <1>1 DEF Send, IterationsExceeded, CancelSeen, BeginRound, RequestThrows
<1>2. CASE StreamAborted \/ StreamFails \/ StreamThrows \/ FinalReply \/ ToolReply
  BY <1>2 DEF StreamAborted, StreamFails, StreamThrows, FinalReply, ToolReply
<1>3. CASE UnknownTool \/ PreviewThrows \/ GateRuns \/ GateRefuses
  BY <1>3 DEF UnknownTool, PreviewThrows, GateRuns, GateRefuses, Finishes
<1>4. CASE Approved \/ Declined \/ ExecuteThrows \/ Execute \/ Settle
  BY <1>4 DEF Approved, Declined, ExecuteThrows, Execute, Settle, Finishes
<1>5. CASE JoinAfterFinal \/ RequestCancel \/ Reset
  BY <1>5 DEF JoinAfterFinal, Join, RequestCancel, Reset
<1>6. CASE \E choice \in ConfirmChoices : Respond(choice)
  BY <1>6 DEF Respond
<1>7. CASE \E text \in 1..turn : CompactInto(text) \/ SetSystemPrompt(text)
  BY <1>7 DEF CompactInto, SetSystemPrompt
<1>8. CASE \E model \in Models : SetModel(model)
  BY <1>8 DEF SetModel
<1>9. CASE UNCHANGED agentVars
  BY <1>9 DEF agentVars
<1> QED
  BY <1>1, <1>2, <1>3, <1>4, <1>5, <1>6, <1>7, <1>8, <1>9

LEMMA StartTurnKeeps == TypeOK /\ EventInv /\ StartTurn => EventInv'
<1> SUFFICES ASSUME TypeOK, EventInv, StartTurn PROVE EventInv'
  OBVIOUS
<1>1. wpc = "idle" /\ wpc' = "send" /\ turn' = turn + 1 /\ events' = events
  BY DEF StartTurn, Step
<1>2. turn \in Nat
  BY LimitsAssumption DEF TypeOK
<1>3. \A n \in DOMAIN events : events[n].turn \in Nat
  BY Numbered
<1>4. EventsOfThePast'
  BY <1>1, <1>2, <1>3 DEF EventInv, EventsOfThePast
<1> QED
  BY <1>1, <1>4 DEF EventInv, QueueInOrder, RequestLast, ReplyFresh

LEMMA PopKeeps == TypeOK /\ EventInv /\ Pop => EventInv'
<1> SUFFICES ASSUME TypeOK, EventInv, Pop PROVE EventInv'
  OBVIOUS
<1>1. /\ events # <<>> /\ events' = Tail(events)
      /\ wpc' = wpc /\ turn' = turn /\ reply' = reply
  BY DEF Pop
<1>2. events \in Seq([type : EventTypes, turn : Nat])
  BY DEF TypeOK
<1>3. /\ Len(events) \in Nat /\ Len(events') = Len(events) - 1
      /\ \A n \in DOMAIN events' : n \in Nat /\ n + 1 \in DOMAIN events /\ events'[n] = events[n + 1]
  BY <1>1, <1>2
<1>4. EventsOfThePast' /\ QueueInOrder'
  BY <1>1, <1>3 DEF EventInv, EventsOfThePast, QueueInOrder
<1>5. RequestLast'
  BY <1>1, <1>3 DEF EventInv, RequestLast
<1> QED
  BY <1>1, <1>4, <1>5 DEF EventInv, ReplyFresh

\* Every step of the worker and of the thread that owns the Agent keeps the queue in
\* order (App.cpp:75-81, 236-246).
THEOREM StepEvents == TypeOK /\ EventInv /\ [AgentNext]_agentVars => EventInv'
<1> SUFFICES ASSUME TypeOK, EventInv, [AgentNext]_agentVars PROVE EventInv'
  OBVIOUS
<1>1. CASE StreamContent \/ StreamReasoning
  <2>1. \E type \in {"Delta", "Reasoning"} : Post(type)
    BY <1>1 DEF StreamContent, StreamReasoning
  <2>2. wpc = "stream" /\ wpc' = wpc /\ turn' = turn
    BY <1>1 DEF StreamContent, StreamReasoning
  <2> QED
    BY <2>1, <2>2, EventPostKeeps DEF EventTypes, FinalTypes, OpenPhases, Phases
<1>2. CASE AnnounceCall
  <2>1. Post("ToolInfo") /\ wpc = "call" /\ turn' = turn /\ reply' = "none"
    BY <1>2 DEF AnnounceCall, Step
  <2> QED
    BY <2>1, EventPostKeeps DEF EventTypes, FinalTypes, OpenPhases, Phases
<1>3. CASE GateAsks
  <2>1. Post("ConfirmRequest") /\ wpc = "gate" /\ wpc' = "wait" /\ turn' = turn /\ reply' = "none"
    BY <1>3 DEF GateAsks, Step, EventInv, ReplyFresh
  <2> QED
    BY <2>1, EventPostKeeps DEF EventTypes, FinalTypes, OpenPhases, Phases
<1>4. CASE FinishCall
  <2>1. Post("ToolResult") /\ wpc = "result" /\ wpc' \in {"call", "check"} /\ turn' = turn
    BY <1>4 DEF FinishCall
  <2> QED
    BY <2>1, EventPostKeeps DEF EventTypes, FinalTypes, OpenPhases, Phases
<1>5. CASE PostOutcome
  <2>1. \E type \in FinalTypes : Post(type)
    BY <1>5 DEF PostOutcome, FinalTypes
  <2>2. wpc = "post" /\ wpc' = "exited" /\ turn' = turn
    BY <1>5 DEF PostOutcome, Step
  <2> QED
    BY <2>1, <2>2, EventPostKeeps DEF EventTypes, FinalTypes, OpenPhases, Phases
<1>6. CASE StartTurn
  BY <1>6, StartTurnKeeps
<1>7. CASE Pop
  BY <1>7, PopKeeps
<1>8. CASE Calm
  BY <1>8, CalmKeeps
<1> QED
  BY <1>1, <1>2, <1>3, <1>4, <1>5, <1>6, <1>7, <1>8, CalmSteps
  DEF AgentNext, WorkerNext, OwnerNext

\* The final event of a turn stands behind all its others and before those of the
\* turns after it, and a confirmation request is the last of all while its worker
\* waits: EventsOrdered for sessions of any length, with however many events left
\* in the queue (App.cpp:75-81, 236-246).
THEOREM OrderedAlways == AgentSpec => []EventsOrdered
<1>1. AgentInit => EventInv
  BY InitEvents
<1>2. IInv /\ EventInv /\ [AgentNext]_agentVars => EventInv'
  BY StepEvents DEF IInv
<1>3. IInv /\ EventInv => EventsOrdered
  <2> SUFFICES ASSUME TypeOK, EventInv PROVE EventsOrdered
    BY DEF IInv
  <2>1. \A n \in DOMAIN events : n \in 1..Len(events) /\ Len(events) \in Nat
    BY DEF TypeOK
  <2> QED
    BY <2>1 DEF EventInv, QueueInOrder, RequestLast, EventsOrdered
<1> QED
  BY <1>1, <1>2, <1>3, Invariance, PTL DEF AgentSpec

-----------------------------------------------------------------------------
(* The number of requests of a turn.                                        *)

\* The places of the assistant's messages behind the first m of a conversation.
Rounds(h, m) == {i \in (m + 1)..Len(h) : h[i].role = "assistant"}

RoundsCounted ==
  wpc \in InSend =>
    /\ Cardinality(Rounds(history, mark)) <= MaxIters
    /\ wpc \in {"check", "stream"} => Cardinality(Rounds(history, mark)) <= iter
    /\ wpc \in ToolPhases => Cardinality(Rounds(history, mark)) <= iter + 1

LEMMA RoundsFinite ==
  ASSUME NEW h \in Seq(Messages), NEW m \in Nat
  PROVE  IsFiniteSet(Rounds(h, m)) /\ Cardinality(Rounds(h, m)) \in Nat
<1>1. IsFiniteSet((m + 1)..Len(h)) /\ Rounds(h, m) \subseteq (m + 1)..Len(h)
  BY FS_Interval DEF Rounds
<1>2. IsFiniteSet(Rounds(h, m))
  BY <1>1, FS_Subset
<1> QED
  BY <1>2, FS_CardinalityType

\* A message is one round more when it is the assistant's, and none when it is not.
LEMMA RoundsGrow ==
  ASSUME NEW h \in Seq(Messages), NEW message \in Messages, NEW m \in 0..Len(h)
  PROVE  LET h2 == Append(h, message)
         IN  /\ message.role = "assistant" =>
                  Cardinality(Rounds(h2, m)) = Cardinality(Rounds(h, m)) + 1
             /\ message.role # "assistant" => Rounds(h2, m) = Rounds(h, m)
<1> DEFINE h2 == Append(h, message)
<1>1. /\ Len(h2) = Len(h) + 1 /\ Len(h) \in Nat /\ m \in Nat
      /\ \A i \in 1..Len(h) : h2[i] = h[i]
      /\ h2[Len(h) + 1] = message
  OBVIOUS
<1> HIDE DEF h2
<1>2. \A i \in (m + 1)..Len(h2) : i \in (m + 1)..Len(h) \/ i = Len(h) + 1
  BY <1>1
<1>3. \A i \in (m + 1)..Len(h) : i \in (m + 1)..Len(h2) /\ h2[i] = h[i]
  BY <1>1
<1>4. CASE message.role = "assistant"
  <2>1. Rounds(h2, m) = Rounds(h, m) \cup {Len(h) + 1}
    BY <1>1, <1>2, <1>3, <1>4 DEF Rounds
  <2>2. Len(h) + 1 \notin Rounds(h, m)
    BY <1>1 DEF Rounds
  <2>3. IsFiniteSet(Rounds(h, m))
    BY <1>1, RoundsFinite
  <2>4. Cardinality(Rounds(h2, m)) = Cardinality(Rounds(h, m)) + 1
    BY <2>1, <2>2, <2>3, FS_AddElement
  <2> QED
    BY <1>4, <2>4 DEF h2
<1>5. CASE message.role # "assistant"
  <2>1. Rounds(h2, m) = Rounds(h, m)
    BY <1>1, <1>2, <1>3, <1>5 DEF Rounds
  <2> QED
    BY <1>5, <2>1 DEF h2
<1> QED
  BY <1>4, <1>5

\* A step that neither adds a message nor moves on to another round.
SameRound ==
  /\ UNCHANGED <<history, mark, iter>>
  /\ wpc' \in InSend => wpc \in InSend
  /\ wpc' \in ToolPhases => wpc \in ToolPhases
  /\ wpc' \in {"check", "stream"} => wpc \in {"check", "stream"}

LEMMA SameRoundSteps ==
  ASSUME \/ IterationsExceeded \/ CancelSeen \/ BeginRound \/ RequestThrows
         \/ StreamContent \/ StreamReasoning \/ StreamAborted \/ StreamFails \/ StreamThrows
         \/ AnnounceCall \/ UnknownTool \/ PreviewThrows \/ GateRuns \/ GateRefuses
         \/ GateAsks \/ Approved \/ Declined \/ ExecuteThrows \/ Execute
         \/ StartTurn \/ JoinAfterFinal \/ Pop \/ RequestCancel
         \/ (\E choice \in ConfirmChoices : Respond(choice))
         \/ (\E text \in 1..turn : SetSystemPrompt(text))
         \/ (\E model \in Models : SetModel(model))
         \/ UNCHANGED agentVars
  PROVE  SameRound
<1> USE DEF SameRound, Step, loopVars, configVars, InSend, ToolPhases
<1>1. CASE IterationsExceeded \/ CancelSeen \/ BeginRound \/ RequestThrows
  BY <1>1 DEF IterationsExceeded, CancelSeen, BeginRound, RequestThrows
<1>2. CASE StreamContent \/ StreamReasoning \/ StreamAborted \/ StreamFails \/ StreamThrows
  BY <1>2 DEF StreamContent, StreamReasoning, StreamAborted, StreamFails, StreamThrows
<1>3. CASE AnnounceCall \/ UnknownTool \/ PreviewThrows \/ GateRuns \/ GateRefuses
  BY <1>3 DEF AnnounceCall, UnknownTool, PreviewThrows, GateRuns, GateRefuses, Finishes
<1>4. CASE GateAsks \/ Approved \/ Declined \/ ExecuteThrows \/ Execute
  BY <1>4 DEF GateAsks, Approved, Declined, ExecuteThrows, Execute, Finishes
<1>5. CASE StartTurn \/ JoinAfterFinal \/ Pop \/ RequestCancel
  BY <1>5 DEF StartTurn, JoinAfterFinal, Join, Pop, RequestCancel
<1>6. CASE \E choice \in ConfirmChoices : Respond(choice)
  BY <1>6 DEF Respond
<1>7. CASE \E text \in 1..turn : SetSystemPrompt(text)
  BY <1>7 DEF SetSystemPrompt
<1>8. CASE \E model \in Models : SetModel(model)
  BY <1>8 DEF SetModel
<1>9. CASE UNCHANGED agentVars
  BY <1>9 DEF agentVars
<1> QED
  BY <1>1, <1>2, <1>3, <1>4, <1>5, <1>6, <1>7, <1>8, <1>9

\* The iteration counter counts the rounds of the running turn through every step
\* (Agent.cpp:25-65).
THEOREM StepRounds == IInv /\ RoundsCounted /\ [AgentNext]_agentVars => RoundsCounted'
<1> SUFFICES ASSUME IInv, RoundsCounted, [AgentNext]_agentVars PROVE RoundsCounted'
  OBVIOUS
<1>0. /\ TypeOK /\ IterBelow /\ CallDecided /\ CursorInRound
      /\ history \in Seq(Messages) /\ mark \in 0..Len(history) /\ mark \in Nat
      /\ iter \in Nat /\ MaxIters \in Nat /\ said \in Nat /\ turn \in Nat
  BY LimitsAssumption DEF IInv, Control, Shape, TypeOK
<1>n. Cardinality(Rounds(history, mark)) \in Nat
  BY <1>0, RoundsFinite
<1>1. CASE Send
  <2>1. /\ wpc' = "check" /\ mark' = Len(history) /\ iter' = 0
        /\ history' = Append(history, Plain("user", turn))
    BY <1>1 DEF Send, Step
  <2>2. Plain("user", turn) \in Messages /\ Plain("user", turn).role = "user"
    BY <1>0, MessageTypes DEF Roles, Plain
  <2>3. Rounds(history', mark') = Rounds(history, Len(history))
    BY <1>0, <2>1, <2>2, RoundsGrow
  <2>4. Rounds(history, Len(history)) = {}
    BY <1>0 DEF Rounds
  <2>5. Cardinality(Rounds(history', mark')) = 0
    BY <2>3, <2>4, FS_EmptySet
  <2>6. 0 <= MaxIters
    BY <1>0
  <2> QED
    BY <2>1, <2>5, <2>6 DEF RoundsCounted, ToolPhases
<1>2. CASE FinalReply
  <2>1. /\ wpc = "stream" /\ wpc' = "settle" /\ mark' = mark /\ iter' = iter
        /\ history' = Append(history, Plain("assistant", said))
    BY <1>2 DEF FinalReply, Step
  <2>2. Plain("assistant", said) \in Messages /\ Plain("assistant", said).role = "assistant"
    BY <1>0, MessageTypes DEF Roles, Plain
  <2>3. Cardinality(Rounds(history', mark')) = Cardinality(Rounds(history, mark)) + 1
    BY <1>0, <2>1, <2>2, RoundsGrow
  <2>4. iter < MaxIters /\ Cardinality(Rounds(history, mark)) <= iter
    BY <1>0, <2>1 DEF IterBelow, RoundsCounted, InSend
  <2>5. Cardinality(Rounds(history', mark')) <= MaxIters
    BY <1>0, <1>n, <2>3, <2>4
  <2> QED
    BY <2>1, <2>5 DEF RoundsCounted, ToolPhases
<1>3. CASE ToolReply
  <2>1. PICK requested \in Replies :
          /\ wpc = "stream" /\ wpc' = "call" /\ mark' = mark /\ iter' = iter
          /\ history' = Append(history, Requesting(said, requested))
    BY <1>3 DEF ToolReply, Step
  <2>2. /\ Requesting(said, requested) \in Messages
        /\ Requesting(said, requested).role = "assistant"
    BY <1>0, MessageTypes, RepliesAssumption DEF Requesting
  <2>3. Cardinality(Rounds(history', mark')) = Cardinality(Rounds(history, mark)) + 1
    BY <1>0, <2>1, <2>2, RoundsGrow
  <2>4. iter < MaxIters /\ Cardinality(Rounds(history, mark)) <= iter
    BY <1>0, <2>1 DEF IterBelow, RoundsCounted, InSend
  <2> QED
    BY <1>0, <1>n, <2>1, <2>3, <2>4 DEF RoundsCounted, ToolPhases
<1>4. CASE FinishCall
  <2>1. /\ wpc = "result" /\ mark' = mark
        /\ history' = Append(history, Answer(Call.id, tr))
        /\ \/ wpc' = "call" /\ iter' = iter
           \/ wpc' = "check" /\ iter' = iter + 1
    BY <1>4 DEF FinishCall
  <2>2. Answer(Call.id, tr) \in Messages /\ Answer(Call.id, tr).role = "tool"
    <3>1. Call.id \in CallIds /\ tr \in Results
      BY <1>0, <2>1, CallTypes DEF CallDecided, ToolPhases
    <3> QED
      BY <3>1, MessageTypes DEF Answer
  <2>3. Rounds(history', mark') = Rounds(history, mark)
    BY <1>0, <2>1, <2>2, RoundsGrow
  <2>4. /\ Cardinality(Rounds(history, mark)) <= MaxIters
        /\ Cardinality(Rounds(history, mark)) <= iter + 1
    BY <2>1 DEF RoundsCounted, InSend, ToolPhases
  <2> QED
    BY <2>1, <2>3, <2>4 DEF RoundsCounted, ToolPhases
<1>5. CASE wpc' \notin InSend
  BY <1>5 DEF RoundsCounted
<1>6. CASE SameRound
  BY <1>6 DEF SameRound, RoundsCounted
<1>7. CASE Settle \/ PostOutcome \/ Reset \/ \E text \in 1..turn : CompactInto(text)
  BY <1>5, <1>7 DEF Settle, PostOutcome, Reset, CompactInto, Step, InSend
<1> QED
  BY <1>1, <1>2, <1>3, <1>4, <1>6, <1>7, SameRoundSteps
  DEF AgentNext, WorkerNext, OwnerNext

\* A turn asks the server at most max_tool_iterations times, whatever mix of rounds
\* it is made of (Config.hpp:48, Agent.cpp:25).
THEOREM BoundedAlways == AgentSpec => []RoundsBounded
<1>1. AgentInit => RoundsCounted
  BY DEF AgentInit, RoundsCounted, InSend
<1>2. IInv /\ RoundsCounted /\ [AgentNext]_agentVars => RoundsCounted'
  BY StepRounds
<1>3. RoundsCounted => RoundsBounded
  BY DEF RoundsCounted, RoundsBounded, Rounds
<1> QED
  BY <1>1, <1>2, <1>3, Invariance, PTL DEF AgentSpec
=============================================================================
