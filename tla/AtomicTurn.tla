----------------------------- MODULE AtomicTurn -----------------------------
(***************************************************************************)
(* What Agent::send promises about the conversation, with the model, the   *)
(* tools and the user left out: a turn either commits a whole exchange or  *)
(* leaves the log as it was (Agent.hpp:51-53).  While no turn is open the  *)
(* log may be replaced by one of system messages only (/clear, /compact).  *)
(***************************************************************************)
EXTENDS Naturals, Sequences, Conversation

VARIABLES log,   \* the committed conversation
          open   \* a turn is being worked on

avars == <<log, open>>

AInit ==
  /\ log \in Seq([role : Roles, text : Nat, calls : {<<>>}, id : {NoId}, result : {NoResult}])
  /\ OnlySystem(log)
  /\ ~open

Begin ==
  /\ ~open
  /\ open'
  /\ UNCHANGED log

\* The log grows by the user's message, rounds of tool calls with all their
\* results, and the assistant's final message, which requests nothing.
Commit ==
  /\ open
  /\ ~open'
  /\ Len(log') > Len(log) + 1
  /\ SubSeq(log', 1, Len(log)) = log
  /\ log'[Len(log) + 1].role = "user"
  /\ log'[Len(log')].role = "assistant"
  /\ log'[Len(log')].calls = <<>>
  /\ Paired(log')

Abort ==
  /\ open
  /\ ~open'
  /\ UNCHANGED log

Replace ==
  /\ ~open
  /\ OnlySystem(log')
  /\ UNCHANGED open

ANext == Begin \/ Commit \/ Abort \/ Replace

ASpec == AInit /\ [][ANext]_avars
=============================================================================
