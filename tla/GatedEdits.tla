----------------------------- MODULE GatedEdits -----------------------------
(***************************************************************************)
(* An edit from the model's call to the file: the configuration fills the  *)
(* policy, confirm_details reads the file and makes the preview, the gate  *)
(* gives the policy's verdict or asks the user, and execute reads the file *)
(* again and writes it (Agent.cpp:45-66).  Between any two of these steps  *)
(* another program may change the file.                                    *)
(***************************************************************************)
EXTENDS ConfirmPolicy, FileTools, FiniteSets, Integers

CONSTANTS Paths,           \* the files; NoPath is the argument left out
          Contents,        \* what another program or write_file puts in one
          OldStrs, NewStrs,\* str_replace's arguments
          Context,         \* unified_diff's context, 3 in the program
          MaxLines,        \* unified_diff's max_lines, 4000 in the program
          MaxSessionRules, \* bound: rules with which a session is started
          MaxCalls         \* bound: calls of a session

ASSUME ToolsAreNamed == {"write_file", "str_replace"} \subseteq ToolNames
ASSUME NoPathIsAPath == NoPath \in Paths
ASSUME TextsAreSequences == Contents \cup OldStrs \cup NewStrs \subseteq Seq(STRING)
ASSUME BoundsAreNat == {Context, MaxLines, MaxSessionRules, MaxCalls} \subseteq Nat

EditCalls ==
  [tool : {"write_file"}, path : Paths, old_str : {<<>>}, new_str : Contents]
  \cup [tool : {"str_replace"}, path : Paths, old_str : OldStrs, new_str : NewStrs]

VARIABLES phase,     \* where the worker is
          files,     \* what is on the disk
          call,      \* the tool call at hand
          preview,   \* what confirm_details made of the file
          seen,      \* the file it read
          plan,      \* what execute has decided to write
          result,    \* the ToolResult: ok, declined or an error
          always,    \* ConfirmGate::always_allowed_
          disturbed, \* history: the disk or another program interfered
          calls      \* calls made so far

editVars == <<phase, files, call, preview, seen, plan, result, always, disturbed, calls>>
allVars == <<vars, editVars>>

NoCall == [tool |-> "", path |-> NoPath, old_str |-> <<>>, new_str |-> <<>>]

EditInit ==
  /\ Init
  /\ phase = "configuring"
  /\ files \in [Paths -> {Absent} \cup {File(text) : text \in Contents}]
  /\ files[NoPath] = Absent
  /\ call = NoCall
  /\ preview = NoChanges
  /\ seen = Absent
  /\ plan = Error("")
  /\ result = ""
  /\ always = {}
  /\ disturbed = FALSE
  /\ calls = 0

-----------------------------------------------------------------------------
Configure(rule) ==
  /\ phase = "configuring"
  /\ add_allow(rule) \/ add_deny(rule)
  /\ UNCHANGED editVars

Start ==
  /\ phase = "configuring"
  /\ Cardinality(allowed) + Cardinality(denied) <= MaxSessionRules
  /\ phase' = "idle"
  /\ UNCHANGED <<vars, files, call, preview, seen, plan, result, always, disturbed, calls>>

\* What the policy is asked about: confirm_details' text, which begins with the
\* path behind "path: " and goes on with the preview.
DetailsOf(c) == <<"path:", c.path>>

\* ConfirmGate::allow up to the prompt: where a call goes from here.  A mistake:
\* the session's answers are asked before the policy.
Gate_AlwaysFirst(c) ==
  LET verdict == Decide(policy, c.tool, DetailsOf(c))
  IN IF c.tool \in always \/ verdict = "Allow" THEN "executing"
     ELSE IF verdict = "Deny" THEN "idle" ELSE "asking"

Gate(c) ==
  LET verdict == Decide(policy, c.tool, DetailsOf(c))
  IN IF verdict = "Deny" THEN "idle"
     ELSE IF verdict = "Allow" \/ c.tool \in always THEN "executing"
     ELSE "asking"

\* The model calls a tool: confirm_details, then the gate.
Consider(c) ==
  /\ phase = "idle"
  /\ calls < MaxCalls
  /\ calls' = calls + 1
  /\ call' = c
  /\ seen' = files[c.path]
  /\ preview' = confirm_details(files[c.path], c, Context, MaxLines)
  /\ phase' = Gate(c)
  /\ result' = IF phase' = "idle" THEN "declined" ELSE ""
  /\ plan' = Error("")
  /\ disturbed' = FALSE
  /\ UNCHANGED <<vars, files, always>>

\* The confirmer's answer: ConfirmChoice.
Answer(choice) ==
  /\ phase = "asking"
  /\ IF choice = "No" THEN phase' = "idle" /\ result' = "declined"
     ELSE phase' = "executing" /\ UNCHANGED result
  /\ always' = IF choice = "Always" THEN always \cup {call.tool} ELSE always
  /\ UNCHANGED <<vars, files, call, preview, seen, plan, disturbed, calls>>

\* A mistake: execute's early return is forgotten.
Execute_Anyway ==
  /\ phase = "executing"
  /\ plan' = execute(files[call.path], call)
  /\ phase' = "saving"
  /\ UNCHANGED <<vars, files, call, preview, seen, result, always, disturbed, calls>>

\* execute up to the point where it opens the file for writing.
Execute ==
  /\ phase = "executing"
  /\ plan' = execute(files[call.path], call)
  /\ IF plan'.error = "" THEN phase' = "saving" /\ UNCHANGED result
     ELSE phase' = "idle" /\ result' = plan'.error
  /\ UNCHANGED <<vars, files, call, preview, seen, always, disturbed, calls>>

\* The stream truncates the file and writes all of it.  It may fail to open, or
\* lose all but a part: in write(), which reports it, or when the destructor
\* flushes, which nobody looks at.
SaveEnds(text, how) ==
  /\ phase = "saving"
  /\ phase' = "idle"
  /\ files' = [files EXCEPT ![call.path] = text]
  /\ result' = how
  /\ UNCHANGED <<vars, call, preview, seen, plan, always, calls>>

Saved == SaveEnds(File(plan.text), "ok") /\ UNCHANGED disturbed

NotOpened == SaveEnds(files[call.path], "could not open for writing") /\ UNCHANGED disturbed

Lost ==
  /\ plan.text # <<>>
  /\ \E how \in {"failed while writing", "ok"} : SaveEnds(File(<<>>), how)
  /\ disturbed' = TRUE

\* Another program creates, rewrites or removes a file.
OthersWrite(path, file) ==
  /\ phase # "configuring"
  /\ path # NoPath
  /\ files[path] # file
  /\ files' = [files EXCEPT ![path] = file]
  /\ disturbed' = (disturbed \/ path = call.path)
  /\ UNCHANGED <<vars, phase, call, preview, seen, plan, result, always, calls>>

EditNext ==
  \/ \E rule \in Rules : Configure(rule)
  \/ Start
  \/ \E c \in EditCalls : Consider(c)
  \/ \E choice \in {"Yes", "No", "Always"} : Answer(choice)
  \/ Execute
  \/ Saved
  \/ NotOpened
  \/ Lost
  \/ \E path \in Paths, text \in Contents : OthersWrite(path, File(text))
  \/ \E path \in Paths : OthersWrite(path, Absent)

EditSpec == EditInit /\ [][EditNext]_allVars

-----------------------------------------------------------------------------
EditTypeOK ==
  /\ TypeOK
  /\ phase \in {"configuring", "idle", "asking", "executing", "saving"}
  /\ \A path \in Paths : files[path].exists \in BOOLEAN
  /\ files[NoPath] = Absent
  /\ call \in EditCalls \cup {NoCall}
  /\ preview.fails # "" => preview.diff = <<>>
  /\ phase = "saving" => plan.error = ""
  /\ phase \in {"asking", "executing", "saving"} => result = ""
  /\ always \subseteq {"write_file", "str_replace"}
  /\ disturbed \in BOOLEAN
  /\ calls \in 0..MaxCalls

\* The call ended, and between its preview and its end nothing interfered.
EndedQuietly == phase = "idle" /\ ~disturbed /\ result \notin {"", "declined"}

Lines(file) == split_lines(file.text)

\* The preview matches reality (StrReplaceTool.cpp:90) as far as lines go: of a
\* str_replace it says whether the edit will fail, and the lines it shows, unless it is
\* too large, account for the difference between the lines of the file it read and of
\* the one the call leaves, with no more removed and added lines than that takes.  What
\* it does not show is whether a newline ends the last line ("a" becoming "a\n" is shown
\* as "(no changes)"), and nothing else: an empty diff hides no other change.
PreviewIsKept ==
  EndedQuietly =>
    /\ preview.fails # "" => result # "ok"
    /\ call.tool = "str_replace" /\ preview.fails = "" =>
         result \in {"ok", "could not open for writing"}
    /\ preview.fails = "" /\ result = "ok" /\ preview.diff # TooLarge =>
         /\ Explains(preview.diff, Lines(seen), Lines(files[call.path]))
         /\ Shortest(preview.diff, Lines(seen), Lines(files[call.path]))
         /\ preview.diff = <<>> => SameButEnd(seen.text, files[call.path].text)

\* A successful str_replace has replaced one occurrence and there is no other
\* one behind it; an edit that reports an error leaves the file as it was
\* (StrReplaceTool.cpp:52-72).
EditsOnePlace ==
  EndedQuietly =>
    /\ result # "ok" => files[call.path] = seen
    /\ result = "ok" /\ call.tool = "write_file" => files[call.path] = File(call.new_str)
    /\ result = "ok" /\ call.tool = "str_replace" =>
         \E i \in 0..Len(seen.text) :
           LET before == SubSeq(seen.text, 1, i)
               after == SubSeq(seen.text, i + Len(call.old_str) + 1, Len(seen.text))
           IN /\ seen.text = before \o call.old_str \o after
              /\ files[call.path].text = before \o call.new_str \o after
              /\ ~\E j \in 0..Len(after) : IsPrefix(call.old_str, SubSeq(after, j + 1, Len(after)))

\* A file changes by the tool's hand only when no deny rule covers the call,
\* whatever was allowed or answered before (Agent.cpp:56, Confirm.cpp:82-92).
OnlyApprovedEdits ==
  phase \in {"asking", "executing", "saving"} =>
    ~\E rule \in denied : Covers(rule, call.tool, DetailsOf(call))

-----------------------------------------------------------------------------
(* What the comments of the code say and the code does not do.             *)

\* A deny rule with a prefix blocks the calls whose target starts with it
\* (Config.cpp:288-289).
DeniesTargets ==
  phase \in {"asking", "executing", "saving"} =>
    ~\E rule \in denied : /\ rule.tool = call.tool
                          /\ rule.hasPrefix /\ rule.prefix # <<>>
                          /\ IsPrefix(rule.prefix, <<call.path>>)
=============================================================================
