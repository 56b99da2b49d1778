----------------------------- MODULE McpServers -----------------------------
(***************************************************************************)
(* The MCP servers as processes (src/src/mcp/Transport.cpp): spawned one   *)
(* after the other with pipes to their standard input and output, closed   *)
(* by the transport's destructor.  A process is named by the launch of the *)
(* program that spawned it and its name in the server file, for it may     *)
(* outlive that launch.  What is said through the pipes is McpSession's.   *)
(*                                                                         *)
(* A child inherits every descriptor the program has open but those it     *)
(* closes itself, the ends of its own pipes: it keeps the program's ends   *)
(* of the pipes of the servers spawned before it, and so does a command    *)
(* that run_bash leaves in the background.  A server sees the end of its   *)
(* standard input when the last holder of the other end has closed it.     *)
(***************************************************************************)
EXTENDS Naturals, Sequences, SequencesExt

CONSTANTS Procs,      \* all server processes of all launches
          Polite,     \* those that exit at the end of their standard input
          Obedient,   \* those that exit when they get SIGTERM
          Answering,  \* those that read what they are sent, and answer it or fall
                      \* silent: none talks on and on or lists tools without end
          MaxPolls    \* the destructor's looks before SIGTERM: 20, of 5 ms

ASSUME PoliteAssumption == {Polite, Obedient, Answering} \subseteq SUBSET Procs
ASSUME MaxPollsAssumption == MaxPolls \in Nat

VARIABLES proc,     \* each process: "none", "running", "exited" or "reaped"
          writers,  \* who holds the write end of its standard input
          termed,   \* the processes that SIGTERM was sent to
          kept,     \* the processes whose clients the tools share, in order
          closing,  \* the process whose transport is being destroyed
          polls     \* the looks the destructor has had

mcpVars == <<proc, writers, termed, kept, closing, polls>>

\* Processes of launch 0, which there is not: none of them is in Procs.
Program == <<0, <<"the program">>>>
Job == <<0, <<"a background command">>>>
Nobody == <<0, <<"nobody">>>>

McpInit ==
  /\ proc = [p \in Procs |-> "none"]
  /\ writers = [p \in Procs |-> {}]
  /\ termed = {}
  /\ kept = <<>>
  /\ closing = Nobody
  /\ polls = 0

\* The write ends the program holds are inherited by who it spawns.
Inherits(child) ==
  [p \in Procs |-> IF Program \in writers[p] THEN writers[p] \cup {child} ELSE writers[p]]

Releases(holder) == [p \in Procs |-> writers[p] \ {holder}]

\* A mistake: the child does not close the write end of its own standard input.
Spawn_KeepsOwnEnd(p) ==
  /\ proc[p] = "none"
  /\ proc' = [proc EXCEPT ![p] = "running"]
  /\ writers' = [Inherits(p) EXCEPT ![p] = {Program, p}]
  /\ UNCHANGED <<termed, kept, closing, polls>>

\* open_stdio_transport: pipe, fork and, in the child, exec.  A command that
\* cannot be executed is a process that exits at once.
Spawn(p) ==
  /\ proc[p] = "none"
  /\ proc' = [proc EXCEPT ![p] = "running"]
  /\ writers' = [Inherits(p) EXCEPT ![p] = {Program}]
  /\ UNCHANGED <<termed, kept, closing, polls>>

\* The tools hold the client from now on.
Keep(p) == kept' = Append(kept, p) /\ UNCHANGED <<proc, writers, termed, closing, polls>>

\* ~StdioTransport closes the pipes, when its client goes,
ClosePipes(p) ==
  /\ closing = Nobody
  /\ closing' = p
  /\ polls' = 0
  /\ writers' = [writers EXCEPT ![p] = @ \ {Program}]
  /\ UNCHANGED <<proc, termed>>

\* looks for the child a number of times,
Poll ==
  /\ closing # Nobody
  /\ proc[closing] = "running"
  /\ polls < MaxPolls
  /\ polls' = polls + 1
  /\ UNCHANGED <<proc, writers, termed, kept, closing>>

\* A mistake: a child that is not gone by then is waited for.
Terminate_Waits ==
  /\ closing # Nobody
  /\ proc[closing] = "running"
  /\ polls = MaxPolls
  /\ polls' = MaxPolls + 1
  /\ UNCHANGED <<proc, writers, termed, kept, closing>>

\* sends it SIGTERM if it is not gone by then,
Terminate ==
  /\ closing # Nobody
  /\ proc[closing] = "running"
  /\ polls = MaxPolls
  /\ polls' = MaxPolls + 1
  /\ termed' = termed \cup {closing}
  /\ UNCHANGED <<proc, writers, kept, closing>>

\* and has its exit status, at one of the looks or in the wait that follows.
Reap ==
  /\ closing # Nobody
  /\ proc[closing] = "exited"
  /\ proc' = [proc EXCEPT ![closing] = "reaped"]
  /\ closing' = Nobody
  /\ UNCHANGED <<writers, termed, kept, polls>>

\* The program ends without its destructors.
Abandon ==
  /\ writers' = Releases(Program)
  /\ kept' = <<>>
  /\ closing' = Nobody
  /\ UNCHANGED <<proc, termed, polls>>

-----------------------------------------------------------------------------
(* The servers: external programs.                                          *)

Exits(p) ==
  /\ proc[p] = "running"
  /\ proc' = [proc EXCEPT ![p] = "exited"]
  /\ writers' = Releases(p)
  /\ UNCHANGED <<termed, kept, closing, polls>>

ExitsAtEof(p) == p \in Polite /\ writers[p] = {} /\ Exits(p)

ExitsByTerm(p) == p \in termed /\ Exits(p)

-----------------------------------------------------------------------------
McpTypeOK ==
  /\ proc \in [Procs -> {"none", "running", "exited", "reaped"}]
  /\ \A p \in Procs : writers[p] \subseteq Procs \cup {Program, Job}
  /\ termed \subseteq Procs
  /\ ToSet(kept) \subseteq Procs
  /\ closing \in Procs \cup {Nobody}
  /\ polls \in 0..(MaxPolls + 1)
=============================================================================
