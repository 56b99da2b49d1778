---------------------------- MODULE StreamParser ----------------------------
(***************************************************************************)
(* StreamParser (src/src/llm/ChatResponse.cpp): the incremental parser of  *)
(* a streamed reply.  Its state is a record; feed returns the state after  *)
(* some more bytes.                                                        *)
(*                                                                         *)
(* Bytes come in pieces: a line is Parts pieces of text, which mean        *)
(* something only together, and a newline.  What a line says is a record   *)
(* whose optional fields are sequences of at most one value; a text is a   *)
(* sequence of words.                                                      *)
(***************************************************************************)
EXTENDS Integers, Sequences, SequencesExt, FiniteSets, FiniteSetsExt

\* A line of the stream: a chunk of a reply, the end mark, or anything that is
\* skipped (blank, a comment, another field, malformed JSON).
Silence ==
  [kind |-> "skipped", content |-> <<>>, reasoning |-> <<>>, calls |-> <<>>,
   finish |-> <<>>, usage |-> <<>>]

Chunk == [Silence EXCEPT !.kind = "chunk"]
Content(words) == [Chunk EXCEPT !.content = <<words>>]
Reasoning(words) == [Chunk EXCEPT !.reasoning = <<words>>]
Fragments(calls) == [Chunk EXCEPT !.calls = calls]
Done == [Silence EXCEPT !.kind = "done"]

\* A fragment of a tool call.
Fragment(index, id, name, arguments) ==
  [index |-> index, id |-> id, name |-> name, arguments |-> arguments]

Optional(S) == {s \in Seq(S) : Len(s) <= 1}

\* The lines that may be written with some texts and names.
Written(texts, names) ==
  LET fragments == [index : Int, id : Optional(names), name : Optional(names),
                    arguments : Optional(texts)]
  IN  [kind : {"chunk"}, content : Optional(texts), reasoning : Optional(texts),
       calls : Seq(fragments), finish : Optional(names), usage : Optional(Nat)]
        \cup {Silence, Done}

-----------------------------------------------------------------------------
NewCall == [id |-> "", name |-> "", arguments |-> <<>>]

NewParser ==
  [buffer |-> <<>>, content |-> <<>>, reasoning |-> <<>>, finish |-> "", usage |-> 0,
   done |-> FALSE, tools |-> <<>>, heard |-> <<>>]

Latest(old, given) == IF given = <<>> THEN old ELSE given[1]

Merged(call, fragment) ==
  [id |-> Latest(call.id, fragment.id),
   name |-> Latest(call.name, fragment.name),
   arguments |-> call.arguments \o FlattenSeq(fragment.arguments)]

\* tool_by_index_[fragment.index], made when there is none.
Add(tools, fragment) ==
  [i \in DOMAIN tools \cup {fragment.index} |->
     IF i # fragment.index THEN tools[i]
     ELSE Merged(IF i \in DOMAIN tools THEN tools[i] ELSE NewCall, fragment)]

\* heard: the callbacks made, in order.
process_chunk(parser, line) ==
  [parser EXCEPT
     !.usage = Latest(@, line.usage),
     !.finish = Latest(@, line.finish),
     !.content = @ \o FlattenSeq(line.content),
     !.reasoning = @ \o FlattenSeq(line.reasoning),
     !.tools = FoldLeft(Add, @, line.calls),
     !.heard = @ \o [i \in DOMAIN line.content |-> [type |-> "Delta", text |-> line.content[i]]]
                 \o [i \in DOMAIN line.reasoning |->
                       [type |-> "Reasoning", text |-> line.reasoning[i]]]]

\* Only all the text of a line, in order, is what the server wrote.
Whole(bytes) ==
  /\ bytes # <<>>
  /\ Len(bytes) = bytes[1].of
  /\ \A i \in DOMAIN bytes : bytes[i] = [bytes[1] EXCEPT !.part = i]

process_line(parser, bytes) ==
  IF ~Whole(bytes) \/ bytes[1].line.kind = "skipped" THEN parser
  ELSE IF bytes[1].line.kind = "done" THEN [parser EXCEPT !.done = TRUE]
  ELSE process_chunk(parser, bytes[1].line)

IsNewline(byte) == byte.part = 0

\* One turn of feed's loop: the first line of the buffer goes, without its newline.
TakeLine(parser) ==
  LET ends == {i \in DOMAIN parser.buffer : IsNewline(parser.buffer[i])}
      pos == Min(ends)
  IN  IF ends = {} THEN parser
      ELSE [process_line(parser, SubSeq(parser.buffer, 1, pos - 1)) EXCEPT
              !.buffer = SubSeq(parser.buffer, pos + 1, Len(parser.buffer))]

\* The loop, until there is no newline: every turn takes a byte or more.
TakeLines(parser) ==
  LET after[n \in 0..Len(parser.buffer)] ==
        IF n = 0 THEN parser ELSE TakeLine(after[n - 1])
  IN  after[Len(parser.buffer)]

\* A mistake: what is left after the last newline is taken for a line as well.
feed_Eager(parser, bytes) ==
  LET fed == TakeLines([parser EXCEPT !.buffer = @ \o bytes])
  IN  [process_line(fed, fed.buffer) EXCEPT !.buffer = <<>>]

\* Every complete line is processed; the remainder is kept.
feed(parser, bytes) == TakeLines([parser EXCEPT !.buffer = @ \o bytes])

\* In ascending order of the indices.
tool_calls(parser) ==
  LET indices == DOMAIN parser.tools
      Before(i) == {j \in indices : j < i}
  IN  [k \in 1..Cardinality(indices) |->
         parser.tools[CHOOSE i \in indices : Cardinality(Before(i)) = k - 1]]

-----------------------------------------------------------------------------
(* The bytes of a line, and what a sequence of lines says, read at leisure. *)

Bytes(line, parts) ==
  [i \in 1..(parts + 1) |->
     [line |-> line, of |-> parts, part |-> IF i = parts + 1 THEN 0 ELSE i]]

Newlines(bytes) == Cardinality({i \in DOMAIN bytes : IsNewline(bytes[i])})

Given(lines, Field(_)) == FlattenSeq([i \in DOMAIN lines |-> Field(lines[i])])

\* What the fragments that carry an index give, one after the other.
Part(fragments, index, Field(_)) ==
  Given(fragments, LAMBDA f : IF f.index = index THEN Field(f) ELSE <<>>)

LastOf(given, default) == IF given = <<>> THEN default ELSE given[Len(given)]

\* The reply that whole lines make: the texts joined, the last finish reason and
\* usage, and for every index the fragments that carry it, joined.
Reply(lines) ==
  LET fragments == Given(lines, LAMBDA line : line.calls)
  IN  [content |-> FlattenSeq(Given(lines, LAMBDA line : line.content)),
       reasoning |-> FlattenSeq(Given(lines, LAMBDA line : line.reasoning)),
       finish |-> LastOf(Given(lines, LAMBDA line : line.finish), ""),
       usage |-> LastOf(Given(lines, LAMBDA line : line.usage), 0),
       done |-> \E i \in DOMAIN lines : lines[i].kind = "done",
       tools |-> [i \in {fragments[k].index : k \in DOMAIN fragments} |->
                    [id |-> LastOf(Part(fragments, i, LAMBDA f : f.id), ""),
                     name |-> LastOf(Part(fragments, i, LAMBDA f : f.name), ""),
                     arguments |-> FlattenSeq(Part(fragments, i, LAMBDA f : f.arguments))]]]
=============================================================================
