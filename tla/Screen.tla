------------------------------- MODULE Screen -------------------------------
(***************************************************************************)
(* The terminal as App::run routes it (src/src/app/App.cpp:449-579): a key *)
(* edits the prompt, scrolls or folds the chat, or is dropped, depending   *)
(* on whether a reply is in flight and whether anything is typed.  Before  *)
(* every key the windows are sized to the prompt and a frame is drawn,     *)
(* which clamps the scroll offset.                                         *)
(*                                                                         *)
(* The commands a line may be are AppSession's, and what a reply puts on   *)
(* the screen is ChatStream's: here a line is a message and a reply is an  *)
(* entry.                                                                  *)
(***************************************************************************)
EXTENDS InputBar, ChatView, FiniteSets

CONSTANTS
  Typed,         \* characters on the keyboard, but for the newline
  Sizes,         \* sizes of the terminal: [cols, lines]
  kMaxInputRows, \* rows the prompt may take; six in the code
  MaxEntries,    \* bound: entries of the chat
  MaxSize        \* bound: entries of the chat and bytes of the prompt, together

\* Wide enough for the prompt, a character and the cursor.
ScreenAssumption ==
  /\ Typed \subseteq Alphabet \ {"nl"}
  /\ \A size \in Sizes : size.cols \in Nat /\ size.cols >= 6 /\ size.lines \in Nat
  /\ kMaxInputRows \in Nat \ {0} /\ MaxEntries \in Nat /\ MaxSize \in Nat

ASSUME ScreenAssumption

VARIABLES
  bar,    \* App::input_
  chat_,  \* App::chat_
  size,   \* LINES and COLS
  busy_   \* App::busy_

vars == <<bar, chat_, size, busy_>>

-----------------------------------------------------------------------------
(* The windows.                                                             *)

PromptCols == 2

Width(sz) == Max({1, sz.cols - 2})

\* input_lines_shown_
InputRows(b, sz) ==
  Max({1, Min({kMaxInputRows, visual_line_count(b, Width(sz), PromptCols)})})

ChatRows(b, sz) == Max({1, Max({3, sz.lines - 1 - (InputRows(b, sz) + 2)}) - 2})

Rows_ == ChatRows(bar, size)

\* A mistake: the frame is drawn from a clamped offset that is not kept.
Frame_NotKept(b, v, sz) ==
  bar' = b /\ chat_' = v /\ size' = sz

\* The state in which the next key is read: the windows fit the prompt and the frame
\* is drawn.
Frame(b, v, sz) ==
  bar' = b /\ chat_' = Clamped(v, ChatRows(b, sz)) /\ size' = sz

Edits(b) == Frame(b, chat_, size) /\ UNCHANGED busy_
Shows(v) == Frame(bar, v, size) /\ UNCHANGED busy_

Init ==
  /\ bar = EmptyBar
  /\ chat_ = add_preformatted(EmptyView, <<1, 2>>)
  /\ size \in Sizes
  /\ busy_ = FALSE

-----------------------------------------------------------------------------
(* The keys.                                                                *)

Room(bytes) == Len(chat_.entries) + Len(bar.buffer) + bytes <= MaxSize

Editing == bar.buffer # <<>>

\* A printable character; typing is ignored while a reply is in flight.
Character ==
  \E c \in Typed :
    /\ ~busy_
    /\ Room(seq_len(c))
    /\ Edits(insert(bar, encode(c)))

AltEnter ==
  /\ ~busy_
  /\ Room(1)
  /\ Edits(insert(bar, encode("nl")))

KeyUp == IF Editing THEN Edits(up(bar)) ELSE Shows(scroll_up(chat_, 1))
KeyDown == IF Editing THEN Edits(down(bar)) ELSE Shows(scroll_down(chat_, 1))
KeyLeft == Editing /\ Edits(left(bar))
KeyRight == Editing /\ Edits(right(bar))
KeyHome == IF Editing THEN Edits(home(bar)) ELSE Shows(scroll_to_top(chat_))
KeyEnd == IF Editing THEN Edits(end(bar)) ELSE Shows(scroll_to_bottom(chat_))

PageUp == Shows(scroll_page_up(chat_, Rows_))
PageDown == Shows(scroll_page_down(chat_, Rows_))
WheelUp == Shows(scroll_up(chat_, 3))
WheelDown == Shows(scroll_down(chat_, 3))
Tab == Shows(toggle_last_collapsible(chat_))

Backspace == ~busy_ /\ bar.cursor > 0 /\ Edits(backspace(bar))
Delete == ~busy_ /\ bar.cursor < Len(bar.buffer) /\ Edits(delete(bar))

\* Enter takes the whole line; an empty one is not a message.
Enter ==
  /\ ~busy_ /\ Editing
  /\ Len(chat_.entries) < MaxEntries
  /\ busy_' = TRUE
  /\ Frame(EmptyBar, add(chat_, "> ", <<1>>), size)

\* The worker's events, drained while no key comes: text, or the end of the turn.
Reply ==
  /\ busy_ /\ UNCHANGED busy_
  /\ Len(chat_.entries) < MaxEntries
  /\ \/ Frame(bar, append_to(add_thinking(chat_), Len(chat_.entries) + 1, <<1>>), size)
     \/ Frame(bar, add_tool_output(chat_, <<1, 2>>), size)
     \/ Frame(bar, append_to(add(chat_, "* ", <<>>), Len(chat_.entries) + 1, <<1, 2>>), size)

Finish == busy_ /\ busy_' = FALSE /\ Frame(bar, chat_, size)

Resize ==
  \E sz \in Sizes : Frame(bar, chat_, sz) /\ UNCHANGED busy_

Next ==
  \/ Character \/ AltEnter \/ Backspace \/ Delete \/ Enter
  \/ KeyUp \/ KeyDown \/ KeyLeft \/ KeyRight \/ KeyHome \/ KeyEnd
  \/ PageUp \/ PageDown \/ WheelUp \/ WheelDown \/ Tab
  \/ Reply \/ Finish \/ Resize

Spec == Init /\ [][Next]_vars

-----------------------------------------------------------------------------
\* The characters that bytes are: of each its first byte.
Decoded(bytes) ==
  FlattenSeq([i \in DOMAIN bytes |-> IF is_cont(bytes[i]) THEN <<>> ELSE <<bytes[i]>>])

Encoded(chars) == FlattenSeq([i \in DOMAIN chars |-> encode(chars[i])])

\* Positions between two characters.
Boundaries == {p \in 0..Len(bar.buffer) : p = Len(bar.buffer) \/ ~is_cont(bar.buffer[p + 1])}

\* The buffer is whole characters and the cursor never stands inside one
\* (Utf8.cpp:33-44, InputBar.cpp:20-118).
TypeOK ==
  /\ bar.buffer = Encoded(Decoded(bar.buffer))
  /\ bar.cursor \in Boundaries
  /\ chat_.scroll \in Nat
  /\ \A i \in DOMAIN chat_.entries : chat_.entries[i].kind \in Kinds
  /\ size \in Sizes /\ busy_ \in BOOLEAN

\* The bytes implement a text of characters: every key does to the characters what an
\* editor of characters would, on every mix of long and short ones
\* (InputBar.cpp:31-123, InputBar.hpp:15-21).
Editor ==
  INSTANCE TextEditor WITH
    Characters <- Alphabet, Newline <- "nl",
    text <- Decoded(bar.buffer), at <- Len(Decoded(SubSeq(bar.buffer, 1, bar.cursor)))

EditsCharacters == Editor!Spec

RowsNow == Rows(bar.buffer, Width(size), PromptCols)

\* What is drawn of a row, and a newline behind it unless the next row goes on where it
\* stops.
RowText(rows, k) ==
  SubSeq(bar.buffer, rows[k].from + 1, rows[k].to)
    \o (IF k < Len(rows) /\ rows[k + 1].from # rows[k].to THEN <<"nl">> ELSE <<>>)

\* The visual rows are the buffer: what is drawn of them, one row after the other with the
\* newlines back in place, is every byte once, no row is cut inside a character, and each
\* fits the window with the prompt and the cursor's column (InputBar.cpp:132-184).
RowsAreBuffer ==
  LET rows == RowsNow IN
  /\ FlattenSeq([k \in DOMAIN rows |-> RowText(rows, k)]) = bar.buffer
  /\ \A k \in DOMAIN rows :
       /\ rows[k].from \in Boundaries /\ rows[k].to \in Boundaries
       /\ rows[k].col0 + Len(Decoded(SubSeq(bar.buffer, rows[k].from + 1, rows[k].to)))
            < Width(size)
       /\ k > 1 => rows[k].from # rows[k].to \/ bar.buffer[rows[k].from] = "nl"

\* The place of the cursor on the screen, for a cursor anywhere in the buffer.
Place(p) ==
  LET layout == wrap_layout([bar EXCEPT !.cursor = p], Width(size), PromptCols)
      first == FirstRow(layout, InputRows(bar, size))
  IN  [row |-> layout.cursor_row - first, col |-> layout.cursor_col, first |-> first]

\* Wherever the cursor is, it is inside the window, at a place of its own
\* (InputBar.cpp:157-168, 203-223).
CursorShown ==
  LET places == {Place(p) : p \in Boundaries}
  IN  /\ \A place \in places :
           place.row \in 0..(InputRows(bar, size) - 1) /\ place.col \in 0..(Width(size) - 1)
      /\ Cardinality(places) = Cardinality(Boundaries)

Shown(v, b, sz) == FirstVisible(v, ChatRows(b, sz))
LastFirst(v, b, sz) == Max({0, Total(v) - ChatRows(b, sz)})

\* "over-scrolling past either end is harmless" (ChatView.hpp:70-72): a turn of the
\* wheel always moves the text by its three lines, or to the end, however far it was
\* turned before, and whatever was folded or resized since.
WheelMoves ==
  [][/\ WheelDown =>
          Shown(chat_', bar', size') =
            Min({LastFirst(chat_, bar, size), Shown(chat_, bar, size) + 3})
     /\ WheelUp =>
          Shown(chat_', bar', size') = Max({0, Shown(chat_, bar, size) - 3})]_vars
=============================================================================
