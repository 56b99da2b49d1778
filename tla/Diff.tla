-------------------------------- MODULE Diff --------------------------------
(***************************************************************************)
(* src/src/util/Diff.cpp as operators: the line diff that the confirmation *)
(* dialog shows for an edit.  A text is a sequence of characters, a line   *)
(* the sequence between two newlines, a diff a sequence of marked lines.   *)
(***************************************************************************)
EXTENDS Integers, Sequences, SequencesExt, FiniteSets, FiniteSetsExt

Newline == "\n"

Equal == "equal"
Del == "del"
Add == "add"
Mark(kind, text) == [kind |-> kind, text |-> text]
HunkSeparator == Mark("hunk", <<>>)
TooLarge == <<Mark("too large", <<>>)>>

Changes(op) == op.kind \in {Del, Add}

ReadChar(read, c) ==
  IF c = Newline THEN [lines |-> Append(read.lines, read.line), line |-> <<>>]
  ELSE [lines |-> read.lines, line |-> Append(read.line, c)]

\* A trailing newline makes no empty last line: "a" and "a\n" are one line each.
split_lines(text) ==
  LET read == FoldLeft(ReadChar, [lines |-> <<>>, line |-> <<>>], text)
  IN IF read.line = <<>> THEN read.lines ELSE Append(read.lines, read.line)

\* The places <<i, j>> of a walk over a and b, each of which steps over a line of a, of b,
\* or of both.
Corners(a, b) == (1..Len(a) + 1) \X (1..Len(b) + 1)
Right(p) == <<p[1] + 1, p[2]>>
Down(p) == <<p[1], p[2] + 1>>
Both(p) == <<p[1] + 1, p[2] + 1>>
Within(a, b, p) == p[1] <= Len(a) /\ p[2] <= Len(b)
Same(a, b, p) == Within(a, b, p) /\ a[p[1]] = b[p[2]]

\* The length of the longest common subsequence of a from i and b from j.
dp(a, b) ==
  LET lcs[p \in Corners(a, b)] ==
        IF ~Within(a, b, p) THEN 0
        ELSE IF Same(a, b, p) THEN lcs[Both(p)] + 1
        ELSE Max({lcs[Right(p)], lcs[Down(p)]})
  IN lcs

\* The walk along it, which prefers a removal on a tie.
lcs_ops(a, b) ==
  LET lcs == dp(a, b)
      removes(p) == p[2] > Len(b) \/ (Within(a, b, p) /\ lcs[Right(p)] >= lcs[Down(p)])
      ops[p \in Corners(a, b)] ==
        IF p[1] > Len(a) /\ p[2] > Len(b) THEN <<>>
        ELSE IF Same(a, b, p) THEN <<Mark(Equal, a[p[1]])>> \o ops[Both(p)]
        ELSE IF removes(p) THEN <<Mark(Del, a[p[1]])>> \o ops[Right(p)]
        ELSE <<Mark(Add, b[p[2]])>> \o ops[Down(p)]
  IN ops[<<1, 1>>]

\* The operations within context lines of a change.
Kept(ops, context) ==
  {i \in DOMAIN ops : \E k \in DOMAIN ops : Changes(ops[k]) /\ k - i \in -context..context}

\* A separator goes where lines were left out after the first shown one.
Hunks(ops, kept) ==
  FlattenSeq([i \in DOMAIN ops |->
    IF i \notin kept THEN <<>>
    ELSE IF i - 1 \notin kept /\ \E k \in kept : k < i THEN <<HunkSeparator, ops[i]>>
    ELSE <<ops[i]>>])

\* A mistake: changes on the last line of a file are not seen.
unified_diff_DropsLast(old_text, new_text, context, max_lines) ==
  LET ops == lcs_ops(split_lines(old_text), split_lines(new_text))
  IN Hunks(ops, Kept(ops, context) \ {Len(ops)})

unified_diff(old_text, new_text, context, max_lines) ==
  LET a == split_lines(old_text)
      b == split_lines(new_text)
      ops == lcs_ops(a, b)
  IN IF old_text = new_text THEN <<>>
     ELSE IF Len(a) > max_lines \/ Len(b) > max_lines THEN TooLarge
     ELSE Hunks(ops, Kept(ops, context))

-----------------------------------------------------------------------------
(* What a diff should say, without an algorithm. *)

\* What of s is at these places.
Only(s, places) == FlattenSeq([n \in DOMAIN s |-> IF n \in places THEN <<s[n]>> ELSE <<>>])

Texts(diff, kind) ==
  FlattenSeq([n \in DOMAIN diff |-> IF diff[n].kind = kind THEN <<diff[n].text>> ELSE <<>>])

\* The removed lines are lines of a, the added ones lines of b, in order, and
\* what is left of a without the first is what is left of b without the second.
Explains(diff, a, b) ==
  \E gone \in SUBSET DOMAIN a, come \in SUBSET DOMAIN b :
    /\ Only(a, gone) = Texts(diff, Del)
    /\ Only(b, come) = Texts(diff, Add)
    /\ Only(a, DOMAIN a \ gone) = Only(b, DOMAIN b \ come)

\* What the lines of a text do not say: whether a newline ends the last one.
SameButEnd(s, t) == s = t \/ s = Append(t, Newline) \/ t = Append(s, Newline)

\* No set of removed and added lines explains the change with less.
Shortest(diff, a, b) ==
  \A gone \in SUBSET DOMAIN a, come \in SUBSET DOMAIN b :
    Only(a, DOMAIN a \ gone) = Only(b, DOMAIN b \ come) =>
      Cardinality(gone) + Cardinality(come) >= Len(Texts(diff, Del)) + Len(Texts(diff, Add))
=============================================================================
