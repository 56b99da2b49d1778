----------------------------- MODULE TextEditor -----------------------------
(***************************************************************************)
(* What the prompt promises: a text of characters and a cursor between two *)
(* of them.  No byte is mentioned; Screen shows that InputBar, which edits *)
(* UTF-8 bytes, implements this.                                           *)
(***************************************************************************)
EXTENDS Integers, Sequences, SequencesExt, FiniteSetsExt

CONSTANTS Characters, Newline

VARIABLES
  text,  \* the characters of the prompt
  at     \* how many are left of the cursor

Init == text = <<>> /\ at = 0

Breaks == {i \in DOMAIN text : text[i] = Newline}

\* The line around position p: the positions of its start and its end.
Start(p) == Max({0} \cup {i \in Breaks : i <= p})
End(p) == Min({Len(text)} \cup {i - 1 : i \in {j \in Breaks : j > p}})

Type(c) ==
  /\ text' = SubSeq(text, 1, at) \o <<c>> \o SubSeq(text, at + 1, Len(text))
  /\ at' = at + 1

Backspace ==
  /\ at > 0
  /\ text' = RemoveAt(text, at)
  /\ at' = at - 1

Delete ==
  /\ at < Len(text)
  /\ text' = RemoveAt(text, at + 1)
  /\ at' = at

Goto(p) == at' = p /\ UNCHANGED text

Left == Goto(Max({0, at - 1}))
Right == Goto(Min({Len(text), at + 1}))
Home == Goto(Start(at))
ToEnd == Goto(End(at))

\* To the line above or below, in the same column if the line is that long.
Up ==
  /\ Start(at) > 0
  /\ LET above == Start(at) - 1
     IN  Goto(Min({above, Start(above) + at - Start(at)}))

Down ==
  /\ End(at) < Len(text)
  /\ LET below == End(at) + 1
     IN  Goto(Min({End(below), below + at - Start(at)}))

Enter == text' = <<>> /\ at' = 0

Next ==
  \/ \E c \in Characters : Type(c)
  \/ Backspace \/ Delete \/ Left \/ Right \/ Home \/ ToEnd \/ Up \/ Down \/ Enter

Spec == Init /\ [][Next]_<<text, at>>
=============================================================================
