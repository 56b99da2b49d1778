------------------------------ MODULE InputBar ------------------------------
(***************************************************************************)
(* InputBar (src/src/ui/InputBar.cpp) and the UTF-8 helpers it is built on *)
(* (src/src/util/Utf8.cpp).  The buffer is a sequence of bytes; of a byte  *)
(* the model keeps what the code looks at: a newline, one of the characters*)
(* of one byte, the lead byte of a longer one, or a continuation.          *)
(* Positions count bytes from 0, as in the code.                           *)
(***************************************************************************)
EXTENDS Integers, Sequences, SequencesExt, FiniteSetsExt

\* A character of one, two or three bytes, and the newline.
Alphabet == {"a", "e", "w", "nl"}

seq_len(byte) == CASE byte = "e" -> 2 [] byte = "w" -> 3 [] OTHER -> 1

is_cont(byte) == byte = "cont"

encode(char) == [i \in 1..seq_len(char) |-> IF i = 1 THEN char ELSE "cont"]

\* A mistake: one byte is taken for one character.
prev_boundary_Byte(s, pos) == Max({0, pos - 1})

prev_boundary(s, pos) ==
  Max({0} \cup {i \in 1..(pos - 1) : ~is_cont(s[i + 1])})

next_boundary(s, pos) ==
  IF pos >= Len(s) THEN Len(s) ELSE Min({Len(s), pos + seq_len(s[pos + 1])})

\* At most n characters on from pos, but not beyond the end.
Walk(s, pos, n, end) ==
  LET reached[k \in 0..n] ==
        IF k = 0 THEN pos
        ELSE IF reached[k - 1] < end THEN next_boundary(s, reached[k - 1]) ELSE reached[k - 1]
  IN  reached[n]

\* Utf8.cpp's count, of the bytes from one position to another.
count(s, from, to) ==
  LET left[i \in from..to] ==
        IF i = to THEN 0 ELSE 1 + left[Min({to, i + seq_len(s[i + 1])})]
  IN  left[from]

-----------------------------------------------------------------------------
EmptyBar == [buffer |-> <<>>, cursor |-> 0]

line_start(s, pos) == Max({0} \cup {i \in 1..pos : s[i] = "nl"})

line_end(s, pos) == Min({Len(s)} \cup {i \in pos..(Len(s) - 1) : s[i + 1] = "nl"})

Without(s, from, to) == SubSeq(s, 1, from) \o SubSeq(s, to + 1, Len(s))

insert(bar, bytes) ==
  [buffer |-> SubSeq(bar.buffer, 1, bar.cursor) \o bytes
                \o SubSeq(bar.buffer, bar.cursor + 1, Len(bar.buffer)),
   cursor |-> bar.cursor + Len(bytes)]

backspace(bar) ==
  LET p == prev_boundary(bar.buffer, bar.cursor)
  IN  [buffer |-> Without(bar.buffer, p, bar.cursor), cursor |-> p]

delete(bar) ==
  [bar EXCEPT !.buffer = Without(@, bar.cursor, next_boundary(@, bar.cursor))]

left(bar) == [bar EXCEPT !.cursor = prev_boundary(bar.buffer, @)]
right(bar) == [bar EXCEPT !.cursor = next_boundary(bar.buffer, @)]
home(bar) == [bar EXCEPT !.cursor = line_start(bar.buffer, @)]
end(bar) == [bar EXCEPT !.cursor = line_end(bar.buffer, @)]

\* A mistake: the column is counted in bytes.
column_Bytes(bar) == bar.cursor - line_start(bar.buffer, bar.cursor)

column(bar) == count(bar.buffer, line_start(bar.buffer, bar.cursor), bar.cursor)

\* move_vertical: nothing happens on the first line, or on the last.
up(bar) ==
  LET start == line_start(bar.buffer, bar.cursor)
  IN  IF start = 0 THEN bar
      ELSE [bar EXCEPT !.cursor =
              Walk(bar.buffer, line_start(bar.buffer, start - 1), column(bar), start - 1)]

down(bar) ==
  LET stop == line_end(bar.buffer, bar.cursor)
  IN  IF stop = Len(bar.buffer) THEN bar
      ELSE [bar EXCEPT !.cursor =
              Walk(bar.buffer, stop + 1, column(bar), line_end(bar.buffer, stop + 1))]

-----------------------------------------------------------------------------
(* wrap_layout: the visual rows of the buffer and the place of the cursor.  *)

\* The last column is kept free for the cursor.
Budget(width, col0) == Max({1, width - 1 - col0})

\* The row that begins at p, which only for the first one leaves room to the prompt.
Row(s, p, width, prompt) ==
  LET col0 == IF p = 0 THEN prompt ELSE 0
  IN  [from |-> p, to |-> Walk(s, p, Budget(width, col0), line_end(s, p)), col0 |-> col0]

\* A mistake: the byte at a soft wrap is skipped like a newline.
Rows_Skips(s, width, prompt) ==
  LET rows[p \in 0..(Len(s) + 1)] ==
        LET row == Row(s, p, width, prompt)
        IN  IF p > Len(s) THEN <<>> ELSE <<row>> \o rows[row.to + 1]
  IN  rows[0]

\* The next row goes on in the line, or begins after its newline.
Rows(s, width, prompt) ==
  LET rows[p \in 0..(Len(s) + 1)] ==
        LET row == Row(s, p, width, prompt)
        IN  IF p > Len(s) THEN <<>>
            ELSE IF row.to < line_end(s, p) THEN <<row>> \o rows[row.to]
            ELSE <<row>> \o rows[row.to + 1]
  IN  rows[0]

\* At a soft wrap the cursor stands at the start of the next row.
Holds(s, row, cursor) ==
  /\ cursor \in row.from..row.to
  /\ cursor < row.to \/ row.to = line_end(s, row.from)

wrap_layout(bar, width, prompt) ==
  LET rows == Rows(bar.buffer, width, prompt)
      k == Min({j \in DOMAIN rows : Holds(bar.buffer, rows[j], bar.cursor)})
  IN  [rows |-> rows, cursor_row |-> k - 1,
       cursor_col |-> rows[k].col0 + count(bar.buffer, rows[k].from, bar.cursor)]

visual_line_count(bar, width, prompt) == Len(Rows(bar.buffer, width, prompt))

\* A mistake: one row too few is scrolled away.
FirstRow_Short(layout, height) ==
  IF Len(layout.rows) > height /\ layout.cursor_row > height
    THEN layout.cursor_row - height ELSE 0

\* render: the first row shown, so that the cursor's is.
FirstRow(layout, height) ==
  IF Len(layout.rows) > height /\ layout.cursor_row >= height
    THEN layout.cursor_row - height + 1 ELSE 0
=============================================================================
