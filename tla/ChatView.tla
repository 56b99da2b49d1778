------------------------------ MODULE ChatView ------------------------------
(***************************************************************************)
(* ChatView (src/src/ui/ChatView.cpp): the list of entries on the screen   *)
(* and how far it is scrolled back.  A view is a record; every operator    *)
(* returns the view after the method of its name.  Styles are left out, a  *)
(* text is a sequence of words, and a word wraps to one line.              *)
(***************************************************************************)
EXTENDS Integers, Sequences, SequencesExt, FiniteSetsExt

Kinds == {"Normal", "Thinking", "Preformatted", "Tool"}

EmptyView == [entries |-> <<>>, scroll |-> 0]

Push(view, kind, speaker, text, collapsed) ==
  [entries |-> Append(view.entries, [kind |-> kind, speaker |-> speaker, text |-> text,
                                     collapsed |-> collapsed]),
   scroll |-> 0]

add(view, speaker, text) == Push(view, "Normal", speaker, text, FALSE)
add_preformatted(view, text) == Push(view, "Preformatted", "", text, FALSE)
add_thinking(view) == Push(view, "Thinking", "", <<>>, FALSE)
add_tool_output(view, text) == Push(view, "Tool", "", text, TRUE)

\* Nothing happens at an index that is not there.
append_to(view, index, text) ==
  IF index \notin DOMAIN view.entries THEN view
  ELSE [entries |-> [view.entries EXCEPT ![index].text = @ \o text], scroll |-> 0]

clear(view) == EmptyView

Collapsible(entry) == entry.kind \in {"Thinking", "Tool"}

set_collapsed(view, index, collapsed) ==
  IF index \notin DOMAIN view.entries \/ ~Collapsible(view.entries[index]) THEN view
  ELSE [view EXCEPT !.entries[index].collapsed = collapsed]

toggle_last_collapsible(view) ==
  LET collapsible == {i \in DOMAIN view.entries : Collapsible(view.entries[i])}
  IN  IF collapsible = {} THEN view
      ELSE [view EXCEPT !.entries[Max(collapsible)].collapsed = ~@]

-----------------------------------------------------------------------------
(* Layout and scrolling.                                                    *)

\* The lines of an entry: a wrapped text has at least one, a collapsible entry has
\* its label too, or only that.
Height(entry) ==
  CASE Collapsible(entry) /\ entry.collapsed -> 1
    [] Collapsible(entry) /\ ~entry.collapsed -> 1 + Max({1, Len(entry.text)})
    [] OTHER -> Max({1, Len(entry.text)})

\* Between two entries there is a blank line.
Total(view) ==
  FoldLeft(LAMBDA lines, entry : lines + Height(entry), 0, view.entries)
    + Max({0, Len(view.entries) - 1})

scroll_up(view, lines) == [view EXCEPT !.scroll = @ + lines]
scroll_down(view, lines) == [view EXCEPT !.scroll = Max({0, @ - lines})]
scroll_page_up(view, rows) == scroll_up(view, Max({1, rows - 1}))
scroll_page_down(view, rows) == scroll_down(view, Max({1, rows - 1}))
scroll_to_bottom(view) == [view EXCEPT !.scroll = 0]

\* INT_MAX / 2: more than any content.
scroll_to_top(view) == [view EXCEPT !.scroll = 2^30 - 1]

\* first_visible_line: it clamps the scroll offset to what there is.
Clamped(view, rows) ==
  [view EXCEPT !.scroll = Min({@, Max({0, Total(view) - rows})})]

FirstVisible(view, rows) == Max({0, Total(view) - rows - Clamped(view, rows).scroll})
=============================================================================
