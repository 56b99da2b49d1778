--------------------------- MODULE ChatStreamProofs --------------------------
(***************************************************************************)
(* Proofs about ChatStream and its StreamParser: its types, what the       *)
(* indices that App keeps into the chat's entries point at, that the       *)
(* parser has what the whole lines received so far say, and that the texts *)
(* of a reply reach the chat whole and round by round, for any bytes,      *)
(* lines and rounds.                                                       *)
(*                                                                         *)
(* A step is a fold: feed takes line after line, a line shows fragment     *)
(* after fragment to the tools, DrainEvents shows event after event. What  *)
(* a fold keeps is brought to a set of numbers (Climb of FoldLemmas):      *)
(* those up to which a run of the fold is what it should be.               *)
(***************************************************************************)
EXTENDS ChatStream, FoldLemmas

-----------------------------------------------------------------------------
(* The parser.                                                              *)

\* A word is of a round and a line, or of the banner; a text is words.
WordKinds == (Nat \X Nat) \cup {"banner"}
TextKinds == Seq(WordKinds)

FragmentKinds ==
  [index : Int, id : Seq(Names), name : Seq(Names), arguments : Seq(TextKinds)]

LineKinds ==
  [kind : {"skipped", "chunk", "done"}, content : Seq(TextKinds), reasoning : Seq(TextKinds),
   calls : Seq(FragmentKinds), finish : Seq(Names), usage : Seq(Nat)]

ByteKinds == [line : LineKinds, of : Nat, part : Nat]

CallKinds == [id : Names, name : Names, arguments : TextKinds]
\* Some calls, each under its index.
IndexSets == {D \in SUBSET Int : IsFiniteSet(D)}
ToolKinds == UNION {[D -> CallKinds] : D \in IndexSets}

HeardKinds == [type : {"Delta", "Reasoning"}, text : TextKinds]

ParserKinds ==
  [buffer : Seq(ByteKinds), content : TextKinds, reasoning : TextKinds, finish : Names,
   usage : Nat, done : BOOLEAN, tools : ToolKinds, heard : Seq(HeardKinds)]

LEMMA LatestType ==
  ASSUME NEW S, NEW old \in S, NEW given \in Seq(S)
  PROVE  Latest(old, given) \in S
<1> QED
  BY ElementOfSeq, EmptySeq DEF Latest

LEMMA MergedType ==
  ASSUME NEW call \in CallKinds, NEW fragment \in FragmentKinds
  PROVE  Merged(call, fragment) \in CallKinds
<1>1. /\ call.id \in Names /\ call.name \in Names /\ call.arguments \in Seq(WordKinds)
      /\ fragment.id \in Seq(Names) /\ fragment.name \in Seq(Names)
      /\ fragment.arguments \in Seq(Seq(WordKinds))
  BY DEF CallKinds, FragmentKinds, TextKinds
<1>2. Latest(call.id, fragment.id) \in Names /\ Latest(call.name, fragment.name) \in Names
  BY <1>1, LatestType
<1>3. FlattenSeq(fragment.arguments) \in Seq(WordKinds)
  BY <1>1, FlattenType
<1>4. call.arguments \o FlattenSeq(fragment.arguments) \in TextKinds
  BY <1>1, <1>3, ConcatProperties DEF TextKinds
<1> QED
  BY <1>2, <1>4 DEF Merged, CallKinds

LEMMA AddType ==
  ASSUME NEW tools \in ToolKinds, NEW fragment \in FragmentKinds
  PROVE  Add(tools, fragment) \in ToolKinds
<1>1. PICK D \in IndexSets : tools \in [D -> CallKinds]
  BY DEF ToolKinds
<1>2. fragment.index \in Int
  BY DEF FragmentKinds
<1>3. NewCall \in CallKinds
  <2>1. "" \in Names
    BY LinesAssumption, Zenon
  <2>2. <<>> \in TextKinds
    BY DEF TextKinds
  <2> QED
    BY <2>1, <2>2, Zenon DEF NewCall, CallKinds
<1> DEFINE E == D \cup {fragment.index}
           call(i) == IF i # fragment.index THEN tools[i]
                      ELSE Merged(IF i \in DOMAIN tools THEN tools[i] ELSE NewCall, fragment)
<1>4. ASSUME NEW i \in E PROVE call(i) \in CallKinds
  <2>1. CASE i # fragment.index
    BY <1>1, <2>1
  <2>2. CASE i = fragment.index /\ i \in DOMAIN tools
    <3>1. tools[i] \in CallKinds
      BY <1>1, <2>2
    <3> QED
      BY <2>2, <3>1, MergedType
  <2>3. CASE i = fragment.index /\ i \notin DOMAIN tools
    BY <1>3, <2>3, MergedType
  <2> QED
    BY <2>1, <2>2, <2>3
<1>5. Add(tools, fragment) = [i \in E |-> call(i)]
  BY <1>1 DEF Add
<1>6. E \in IndexSets
  <2>1. D \in SUBSET Int /\ IsFiniteSet(D)
    BY DEF IndexSets
  <2>2. IsFiniteSet(E)
    BY <2>1, FS_AddElement
  <2> QED
    BY <1>2, <2>1, <2>2 DEF IndexSets
<1> HIDE DEF E, call
<1>7. Add(tools, fragment) \in [E -> CallKinds]
  BY <1>4, <1>5
<1> QED
  BY <1>6, <1>7 DEF ToolKinds

\* A line's fragments are shown to the tools one after the other.
AddAll(tools, q) == FoldLeft(Add, tools, q)

AddsUp(run, tools, q, n) ==
  /\ run[0] = tools
  /\ \A i \in 1..n : run[i] = Add(run[i - 1], q[i])
  /\ AddAll(tools, q) = run[n]

LEMMA AddRun ==
  ASSUME NEW tools \in ToolKinds, NEW q \in Seq(FragmentKinds), NEW n \in Nat, n = Len(q)
  PROVE  \E run \in [0..n -> ToolKinds] : AddsUp(run, tools, q, n)
<1>1. DOMAIN q = 1..n /\ \A i \in 1..n : q[i] \in FragmentKinds
  BY LenProperties, ElementOfSeq
<1> DEFINE F == [k \in 1..n |-> [t \in ToolKinds |-> Add(t, q[k])]]
<1>2. F \in [1..n -> [ToolKinds -> ToolKinds]]
  BY <1>1, AddType
<1>3. PICK g \in [SUBSET (1..n) -> ToolKinds] : Folds(g, tools, n, F)
  <2> HIDE DEF F
  <2> QED
    BY <1>2, FoldExists
<1> DEFINE Eq(h) == h = [s \in SUBSET (1..n) |-> IF s = {} THEN tools
                         ELSE Add(h[s \ {Max(s)}], q[Max(s)])]
<1>4. Eq(g)
  <2> SUFFICES ASSUME NEW s \in SUBSET (1..n), s # {}
               PROVE  F[Max(s)][g[s \ {Max(s)}]] = Add(g[s \ {Max(s)}], q[Max(s)])
    BY <1>3 DEF Folds
  <2>1. \E i \in s : \A j \in s : i >= j
    BY LastPlace
  <2>2. Max(s) \in 1..n
    BY <2>1 DEF Max
  <2>3. g[s \ {Max(s)}] \in ToolKinds
    OBVIOUS
  <2> QED
    BY <2>2, <2>3
<1> DEFINE fold == CHOOSE h : Eq(h)
<1>5. Eq(fold)
  <2> HIDE DEF Eq
  <2> QED
    BY <1>4
<1>6. AddAll(tools, q) = fold[1..n]
  BY <1>1 DEF AddAll, FoldLeft, MapThenFoldSet
<1> HIDE DEF fold, F
<1> DEFINE G == {i \in 0..n : fold[1..i] \in ToolKinds}
<1>7. fold[1..0] = tools
  <2>1. 1..0 = {} /\ {} \in SUBSET (1..n)
    OBVIOUS
  <2>2. fold[{}] = tools
    BY <1>5, <2>1
  <2> QED
    BY <2>1, <2>2
<1>8. ASSUME NEW i \in 1..n PROVE fold[1..i] = Add(fold[1..(i - 1)], q[i])
  <2>1. /\ 1..i \in SUBSET (1..n) /\ 1..i # {} /\ Max(1..i) = i
        /\ (1..i) \ {i} = 1..(i - 1)
    BY UpTo
  <2> QED
    BY <1>5, <2>1
<1>9. \A i \in 0..n : fold[1..i] \in ToolKinds
  <2>1. 0 \in G
    BY <1>7
  <2>2. ASSUME NEW i \in 1..n, i - 1 \in G PROVE i \in G
    BY <1>1, <1>8, <2>2, AddType
  <2> HIDE DEF G
  <2>3. 0..n \subseteq G
    BY <2>1, <2>2, Climb
  <2> QED
    BY <2>3 DEF G
<1> DEFINE run == [i \in 0..n |-> fold[1..i]]
<1>10. run \in [0..n -> ToolKinds] /\ run[0] = tools /\ run[n] = fold[1..n]
  BY <1>7, <1>9
<1>11. \A i \in 1..n : run[i] = fold[1..i] /\ run[i - 1] = fold[1..(i - 1)]
  OBVIOUS
<1> HIDE DEF run
<1>12. AddsUp(run, tools, q, n)
  BY <1>6, <1>8, <1>10, <1>11 DEF AddsUp
<1> QED
  BY <1>10, <1>12

LEMMA AddAllType ==
  ASSUME NEW tools \in ToolKinds, NEW q \in Seq(FragmentKinds)
  PROVE  FoldLeft(Add, tools, q) \in ToolKinds
<1>1. PICK n \in Nat : n = Len(q)
  BY LenProperties
<1>2. PICK run \in [0..n -> ToolKinds] : AddsUp(run, tools, q, n)
  BY <1>1, AddRun
<1>3. AddAll(tools, q) \in ToolKinds
  BY <1>2 DEF AddsUp
<1> QED
  BY <1>3 DEF AddAll

LEMMA HeardType ==
  ASSUME NEW type \in {"Delta", "Reasoning"}, NEW q \in Seq(TextKinds)
  PROVE  [i \in DOMAIN q |-> [type |-> type, text |-> q[i]]] \in Seq(HeardKinds)
<1>1. PICK n \in Nat : n = Len(q) /\ DOMAIN q = 1..n /\ \A i \in 1..n : q[i] \in TextKinds
  BY LenProperties, ElementOfSeq
<1>2. \A i \in 1..n : [type |-> type, text |-> q[i]] \in HeardKinds
  BY <1>1 DEF HeardKinds
<1> QED
  BY <1>1, <1>2, IsASeq

LEMMA ChunkType ==
  ASSUME NEW p \in ParserKinds, NEW line \in LineKinds
  PROVE  process_chunk(p, line) \in ParserKinds
<1>1. /\ p.usage \in Nat /\ p.finish \in Names /\ p.tools \in ToolKinds
      /\ p.content \in Seq(WordKinds) /\ p.reasoning \in Seq(WordKinds)
      /\ p.heard \in Seq(HeardKinds)
  BY DEF ParserKinds, TextKinds
<1>2. /\ line.usage \in Seq(Nat) /\ line.finish \in Seq(Names)
      /\ line.calls \in Seq(FragmentKinds)
      /\ line.content \in Seq(TextKinds) /\ line.reasoning \in Seq(TextKinds)
  BY DEF LineKinds
<1> DEFINE usage == Latest(p.usage, line.usage)
           finish == Latest(p.finish, line.finish)
           content == p.content \o FlattenSeq(line.content)
           reasoning == p.reasoning \o FlattenSeq(line.reasoning)
           tools == FoldLeft(Add, p.tools, line.calls)
           heard == p.heard
                      \o [i \in DOMAIN line.content |-> [type |-> "Delta", text |-> line.content[i]]]
                      \o [i \in DOMAIN line.reasoning |->
                            [type |-> "Reasoning", text |-> line.reasoning[i]]]
<1>3. usage \in Nat /\ finish \in Names
  BY <1>1, <1>2, LatestType
<1>4. content \in TextKinds /\ reasoning \in TextKinds
  <2>1. /\ FlattenSeq(line.content) \in Seq(WordKinds)
        /\ FlattenSeq(line.reasoning) \in Seq(WordKinds)
    BY <1>2, FlattenType DEF TextKinds
  <2> QED
    BY <1>1, <2>1, ConcatProperties DEF TextKinds
<1>5. tools \in ToolKinds
  BY <1>1, <1>2, AddAllType
<1>6. heard \in Seq(HeardKinds)
  <2> DEFINE a == [i \in DOMAIN line.content |-> [type |-> "Delta", text |-> line.content[i]]]
             b == [i \in DOMAIN line.reasoning |->
                     [type |-> "Reasoning", text |-> line.reasoning[i]]]
  <2>1. a \in Seq(HeardKinds) /\ b \in Seq(HeardKinds)
    BY <1>2, HeardType
  <2>2. heard = p.heard \o a \o b
    OBVIOUS
  <2> HIDE DEF a, b, heard
  <2> QED
    BY <1>1, <2>1, <2>2, ConcatProperties
<1>7. process_chunk(p, line)
        = [p EXCEPT !.usage = usage, !.finish = finish, !.content = content,
                    !.reasoning = reasoning, !.tools = tools, !.heard = heard]
  BY DEF process_chunk, ParserKinds
<1> HIDE DEF usage, finish, content, reasoning, tools, heard
<1> QED
  BY <1>3, <1>4, <1>5, <1>6, <1>7 DEF ParserKinds

LEMMA LineType ==
  ASSUME NEW p \in ParserKinds, NEW bytes \in Seq(ByteKinds)
  PROVE  process_line(p, bytes) \in ParserKinds
<1>1. CASE ~Whole(bytes) \/ bytes[1].line.kind = "skipped"
  BY <1>1 DEF process_line
<1>2. CASE Whole(bytes) /\ bytes[1].line.kind = "done"
  BY <1>2 DEF process_line, ParserKinds
<1>3. CASE Whole(bytes) /\ bytes[1].line.kind \notin {"skipped", "done"}
  <2>1. bytes # <<>>
    BY <1>3 DEF Whole
  <2>2. bytes[1] \in ByteKinds
    BY <2>1, EmptySeq, ElementOfSeq
  <2>3. bytes[1].line \in LineKinds
    BY <2>2 DEF ByteKinds
  <2>4. process_line(p, bytes) = process_chunk(p, bytes[1].line)
    BY <1>3 DEF process_line
  <2> QED
    BY <2>3, <2>4, ChunkType
<1> QED
  BY <1>1, <1>2, <1>3

\* The first line of the buffer, if there is one, and what is behind it.
TakesAt(p, n, pos) ==
  /\ IsNewline(p.buffer[pos])
  /\ \A i \in 1..(pos - 1) : ~IsNewline(p.buffer[i])
  /\ TakeLine(p) = [process_line(p, SubSeq(p.buffer, 1, pos - 1))
                      EXCEPT !.buffer = SubSeq(p.buffer, pos + 1, n)]

LEMMA TakeFirst ==
  ASSUME NEW p \in ParserKinds, NEW n \in Nat, n = Len(p.buffer)
  PROVE  \/ TakeLine(p) = p /\ \A i \in 1..n : ~IsNewline(p.buffer[i])
         \/ \E pos \in 1..n : TakesAt(p, n, pos)
<1> DEFINE ends == {i \in DOMAIN p.buffer : IsNewline(p.buffer[i])}
           pos == Min(ends)
<1>1. DOMAIN p.buffer = 1..n
  BY LenProperties DEF ParserKinds
<1>2. CASE ends = {}
  BY <1>1, <1>2 DEF TakeLine
<1>3. CASE ends # {}
  <2>1. ends \in SUBSET (1..n)
    BY <1>1
  <2>2. pos \in ends /\ \A i \in ends : pos <= i
    <3> HIDE DEF ends
    <3> QED
      BY <1>3, <2>1, FirstPlace DEF Min
  <2>3. TakeLine(p) = [process_line(p, SubSeq(p.buffer, 1, pos - 1))
                         EXCEPT !.buffer = SubSeq(p.buffer, pos + 1, n)]
    BY <1>3 DEF TakeLine
  <2> HIDE DEF pos
  <2>4. pos \in 1..n /\ IsNewline(p.buffer[pos])
    BY <2>1, <2>2
  <2>5. ASSUME NEW i \in 1..(pos - 1) PROVE ~IsNewline(p.buffer[i])
    <3>1. i \in 1..n /\ ~(pos <= i)
      BY <2>4
    <3> QED
      BY <1>1, <2>2, <3>1
  <2> QED
    BY <2>3, <2>4, <2>5 DEF TakesAt
<1> QED
  BY <1>2, <1>3

\* One turn of the loop takes a line from the buffer, if there is one.
LEMMA TakeIs ==
  ASSUME NEW p \in ParserKinds
  PROVE  \/ TakeLine(p) = p
         \/ \E line, rest \in Seq(ByteKinds) :
              TakeLine(p) = [process_line(p, line) EXCEPT !.buffer = rest]
<1>1. PICK q \in Seq(ByteKinds) : q = p.buffer
  BY DEF ParserKinds
<1>2. PICK n \in Nat : n = Len(q)
  BY LenProperties
<1>3. CASE TakeLine(p) # p
  <2>1. PICK pos \in 1..n :
          TakeLine(p) = [process_line(p, SubSeq(q, 1, pos - 1))
                           EXCEPT !.buffer = SubSeq(q, pos + 1, n)]
    BY <1>1, <1>2, <1>3, TakeFirst DEF TakesAt
  <2>2. /\ 1 \in Nat /\ 1 >= 1 /\ pos - 1 \in Nat /\ pos - 1 <= n
        /\ pos + 1 \in Nat /\ pos + 1 >= 1 /\ n <= n
    OBVIOUS
  <2>3. PICK line \in Seq(ByteKinds) : line = SubSeq(q, 1, pos - 1)
    BY <1>2, <2>2, SliceType
  <2>4. PICK rest \in Seq(ByteKinds) : rest = SubSeq(q, pos + 1, n)
    BY <1>2, <2>2, SliceType
  <2> QED
    BY <2>1, <2>3, <2>4
<1> QED
  BY <1>3

LEMMA TakeType ==
  ASSUME NEW p \in ParserKinds
  PROVE  TakeLine(p) \in ParserKinds
<1>1. CASE TakeLine(p) # p
  <2>1. PICK line \in Seq(ByteKinds), rest \in Seq(ByteKinds) :
          TakeLine(p) = [process_line(p, line) EXCEPT !.buffer = rest]
    BY <1>1, TakeIs
  <2>2. PICK r \in ParserKinds : r = process_line(p, line)
    BY LineType
  <2> QED
    BY <2>1, <2>2 DEF ParserKinds
<1> QED
  BY <1>1

\* feed's loop is a run of TakeLine.
LEMMA TakeRun ==
  ASSUME NEW r \in ParserKinds, NEW n \in Nat, n = Len(r.buffer)
  PROVE  \E run \in [0..n -> ParserKinds] :
           /\ run[0] = r
           /\ \A i \in 1..n : run[i] = TakeLine(run[i - 1])
           /\ TakeLines(r) = run[n]
<1> DEFINE F == [k \in 1..n |-> [t \in ParserKinds |-> TakeLine(t)]]
<1>1. F \in [1..n -> [ParserKinds -> ParserKinds]]
  BY TakeType
<1>2. PICK run \in [0..n -> ParserKinds] : Runs(run, r, n, F)
  <2> HIDE DEF F
  <2> QED
    BY <1>1, FoldRun
<1>3. run[0] = r /\ \A i \in 1..n : run[i] = TakeLine(run[i - 1])
  <2>1. \A i \in 1..n : i - 1 \in 0..n
    OBVIOUS
  <2> QED
    BY <1>2, <2>1 DEF Runs
<1> HIDE DEF F
<1> DEFINE Eq(h) == h = [k \in 0..n |-> IF k = 0 THEN r ELSE TakeLine(h[k - 1])]
           after == CHOOSE h : Eq(h)
<1>4. Eq(run)
  <2>1. \A k \in 0..n : k # 0 => k \in 1..n
    OBVIOUS
  <2> QED
    BY <1>3, <2>1
<1>5. Eq(after)
  <2> HIDE DEF Eq
  <2> QED
    BY <1>4
<1>6. TakeLines(r) = after[n]
  BY DEF TakeLines
<1> HIDE DEF after
<1> DEFINE G == {k \in 0..n : after[k] = run[k]}
<1>7. 0 \in G
  BY <1>3, <1>5
<1>8. ASSUME NEW k \in 1..n, k - 1 \in G PROVE k \in G
  <2>1. k \in 0..n /\ k # 0
    OBVIOUS
  <2>2. after[k] = TakeLine(after[k - 1])
    BY <1>5, <2>1
  <2> QED
    BY <1>3, <1>8, <2>1, <2>2
<1>9. n \in G
  <2> HIDE DEF G
  <2>1. 0..n \subseteq G
    BY <1>7, <1>8, Climb
  <2> QED
    BY <2>1
<1> QED
  BY <1>3, <1>6, <1>9

\* feed keeps the parser one.
LEMMA FeedType ==
  ASSUME NEW p \in ParserKinds, NEW bytes \in Seq(ByteKinds)
  PROVE  feed(p, bytes) \in ParserKinds
<1>1. PICK r \in ParserKinds : r = [p EXCEPT !.buffer = @ \o bytes]
  <2>1. p.buffer \o bytes \in Seq(ByteKinds)
    BY ConcatProperties DEF ParserKinds
  <2> QED
    BY <2>1 DEF ParserKinds
<1>2. feed(p, bytes) = TakeLines(r)
  BY <1>1 DEF feed
<1>3. PICK n \in Nat : n = Len(r.buffer)
  BY LenProperties DEF ParserKinds
<1>4. PICK run \in [0..n -> ParserKinds] :
        /\ run[0] = r
        /\ \A i \in 1..n : run[i] = TakeLine(run[i - 1])
        /\ TakeLines(r) = run[n]
  BY <1>3, TakeRun
<1> QED
  BY <1>2, <1>4

\* No text is a text.
LEMMA NoText == <<>> \in TextKinds
BY EmptySeq DEF TextKinds

-----------------------------------------------------------------------------
(* The texts of the elements of a sequence, joined.                         *)

LEMMA TextsType ==
  ASSUME NEW S, NEW f \in [S -> TextKinds], NEW q \in Seq(S)
  PROVE  /\ Gathered(f, q) \in Seq(TextKinds)
         /\ Len(Gathered(f, q)) = Len(q)
         /\ \A i \in 1..Len(q) : Gathered(f, q)[i] = f[q[i]]
<1>0. PICK n \in Nat : n = Len(q)
  BY LenProperties
<1>1. DOMAIN q = 1..n /\ \A i \in 1..n : q[i] \in S
  BY <1>0, LenProperties, ElementOfSeq
<1>2. \A i \in 1..n : f[q[i]] \in TextKinds
  BY <1>1
<1>3. Gathered(f, q) = [i \in 1..n |-> f[q[i]]]
  BY <1>1 DEF Gathered
<1> QED
  BY <1>0, <1>2, <1>3, IsASeq, LenProperties

LEMMA JoinedType ==
  ASSUME NEW S, NEW f \in [S -> TextKinds], NEW q \in Seq(S)
  PROVE  Joined(f, q) \in TextKinds
BY GatheredType DEF TextKinds

LEMMA JoinedConcat ==
  ASSUME NEW S, NEW f \in [S -> TextKinds], NEW q \in Seq(S), NEW r \in Seq(S)
  PROVE  Joined(f, q \o r) = Joined(f, q) \o Joined(f, r)
BY GatheredConcat DEF TextKinds

LEMMA JoinedOne ==
  ASSUME NEW S, NEW f \in [S -> TextKinds], NEW e \in S
  PROVE  Joined(f, <<e>>) = f[e]
BY GatheredOne DEF TextKinds

LEMMA JoinedAppend ==
  ASSUME NEW S, NEW f \in [S -> TextKinds], NEW q \in Seq(S), NEW e \in S
  PROVE  Joined(f, Append(q, e)) = Joined(f, q) \o f[e]
BY GatheredAppend DEF TextKinds

LEMMA JoinedNothing ==
  ASSUME NEW S, NEW f \in [S -> TextKinds], NEW q \in Seq(S),
         \A i \in 1..Len(q) : f[q[i]] = <<>>
  PROVE  Joined(f, q) = <<>>
<1>1. PICK n \in Nat : n = Len(q)
  BY LenProperties
<1>2. PICK a \in Seq(TextKinds) :
        a = Gathered(f, q) /\ Len(a) = n /\ \A i \in 1..n : a[i] = f[q[i]]
  BY <1>1, TextsType
<1>3. \A i \in 1..Len(a) : a[i] = <<>>
  BY <1>1, <1>2
<1>4. FlattenSeq(a) = <<>>
  BY <1>3, FlattenNothing DEF TextKinds
<1> QED
  BY <1>2, <1>4 DEF Joined

\* The sequence of the intermediate results.
LEMMA JoinedRun ==
  ASSUME NEW S, NEW f \in [S -> TextKinds], NEW q \in Seq(S)
  PROVE  \E run \in [0..Len(q) -> TextKinds] :
           /\ run[0] = <<>>
           /\ \A i \in 1..Len(q) : run[i] = run[i - 1] \o f[q[i]]
           /\ Joined(f, q) = run[Len(q)]
<1>1. PICK a \in Seq(TextKinds) :
        /\ a = Gathered(f, q) /\ Len(a) = Len(q)
        /\ \A i \in 1..Len(q) : a[i] = f[q[i]]
  BY TextsType
<1>2. \E run \in [0..Len(a) -> TextKinds] :
        /\ run[0] = <<>>
        /\ \A i \in 1..Len(a) : run[i] = run[i - 1] \o a[i]
        /\ FlattenSeq(a) = run[Len(a)]
  BY FlattenRun DEF TextKinds
<1>3. PICK n \in Nat : n = Len(q)
  BY LenProperties
<1>4. PICK run \in [0..n -> TextKinds] :
        /\ run[0] = <<>>
        /\ \A i \in 1..n : run[i] = run[i - 1] \o a[i]
        /\ FlattenSeq(a) = run[n]
  BY <1>1, <1>2, <1>3
<1>5. \A i \in 1..n : a[i] = f[q[i]]
  BY <1>1, <1>3
<1>6. Joined(f, q) = run[n]
  BY <1>1, <1>4 DEF Joined
<1>7. \A i \in 1..n : run[i] = run[i - 1] \o f[q[i]]
  BY <1>4, <1>5
<1> QED
  BY <1>3, <1>4, <1>6, <1>7

-----------------------------------------------------------------------------
(* What whole lines say, and the parser that has taken them.                *)

\* A line as a server writes it: what is no chunk says nothing, and a field is given
\* once or not at all.
SaidFragments == {f \in FragmentKinds : Len(f.id) <= 1 /\ Len(f.name) <= 1}

SaidKinds ==
  {line \in LineKinds :
     /\ Len(line.finish) <= 1 /\ Len(line.usage) <= 1 /\ line.calls \in Seq(SaidFragments)
     /\ line.kind # "chunk" =>
          /\ line.content = <<>> /\ line.reasoning = <<>> /\ line.calls = <<>>
          /\ line.finish = <<>> /\ line.usage = <<>>}

ContentIn == [line \in LineKinds |-> line.content]
ReasoningIn == [line \in LineKinds |-> line.reasoning]
CallsIn == [line \in LineKinds |-> line.calls]
FinishIn == [line \in LineKinds |-> line.finish]
UsageIn == [line \in LineKinds |-> line.usage]

IdOf(i) == [f \in FragmentKinds |-> IF f.index = i THEN f.id ELSE <<>>]
NameOf(i) == [f \in FragmentKinds |-> IF f.index = i THEN f.name ELSE <<>>]
ArgumentsOf(i) == [f \in FragmentKinds |-> IF f.index = i THEN f.arguments ELSE <<>>]

\* The call that the fragments of an index make, and all of them.
CallAt(fs, i) ==
  [id |-> LastOf(Joined(IdOf(i), fs), ""), name |-> LastOf(Joined(NameOf(i), fs), ""),
   arguments |-> FlattenSeq(Joined(ArgumentsOf(i), fs))]

IndicesIn(fs) == {fs[k].index : k \in DOMAIN fs}

ToolsOf(fs) == [i \in IndicesIn(fs) |-> CallAt(fs, i)]

\* The parser has what the lines say.
Means(p, lines) ==
  /\ p.content = FlattenSeq(Joined(ContentIn, lines))
  /\ p.reasoning = FlattenSeq(Joined(ReasoningIn, lines))
  /\ p.finish = LastOf(Joined(FinishIn, lines), "")
  /\ p.usage = LastOf(Joined(UsageIn, lines), 0)
  /\ p.done <=> \E i \in DOMAIN lines : lines[i].kind = "done"
  /\ p.tools = ToolsOf(Joined(CallsIn, lines))

LEMMA FieldsIn ==
  /\ ContentIn \in [LineKinds -> Seq(TextKinds)] /\ ReasoningIn \in [LineKinds -> Seq(TextKinds)]
  /\ CallsIn \in [LineKinds -> Seq(FragmentKinds)]
  /\ FinishIn \in [LineKinds -> Seq(Names)] /\ UsageIn \in [LineKinds -> Seq(Nat)]
BY DEF LineKinds, ContentIn, ReasoningIn, CallsIn, FinishIn, UsageIn

LEMMA PartsIn ==
  ASSUME NEW i
  PROVE  /\ IdOf(i) \in [FragmentKinds -> Seq(Names)]
         /\ NameOf(i) \in [FragmentKinds -> Seq(Names)]
         /\ ArgumentsOf(i) \in [FragmentKinds -> Seq(TextKinds)]
<1>1. <<>> \in Seq(Names) /\ <<>> \in Seq(TextKinds)
  BY EmptySeq
<1> QED
  BY <1>1 DEF FragmentKinds, IdOf, NameOf, ArgumentsOf

\* The last of what was given, when one more or nothing is.
LEMMA LastGrows ==
  ASSUME NEW S, NEW s \in Seq(S), NEW t \in Seq(S), Len(t) <= 1, NEW default
  PROVE  LastOf(s \o t, default) = Latest(LastOf(s, default), t)
<1>1. PICK n \in Nat : n = Len(s)
  BY LenProperties
<1>2. CASE t = <<>>
  <2>1. s \o t = s
    BY <1>2, ConcatEmptySeq
  <2> QED
    BY <1>2, <2>1 DEF Latest
<1>3. CASE t # <<>>
  <2>1. Len(t) = 1
    <3>1. PICK m \in Nat : m = Len(t)
      BY LenProperties
    <3>2. m # 0
      BY <1>3, <3>1
    <3> QED
      BY <3>1, <3>2
  <2>2. PICK r \in Seq(S) : r = s \o t
    BY ConcatProperties
  <2>3. Len(r) = n + 1 /\ r[n + 1] = t[1]
    <3>1. /\ Len(r) = Len(s) + Len(t)
          /\ \A i \in 1..(Len(s) + Len(t)) : r[i] = IF i <= Len(s) THEN s[i] ELSE t[i - Len(s)]
      BY <2>2, ConcatProperties
    <3>2. n + 1 \in 1..(n + 1) /\ ~(n + 1 <= n) /\ (n + 1) - n = 1
      OBVIOUS
    <3> QED
      BY <1>1, <2>1, <3>1, <3>2
  <2>4. r # <<>>
    BY <2>3, EmptySeq
  <2> QED
    BY <1>3, <2>2, <2>3, <2>4 DEF Latest, LastOf
<1> QED
  BY <1>2, <1>3

\* No fragment of an index: a new call.
LEMMA CallNone ==
  ASSUME NEW fs \in Seq(FragmentKinds), NEW i, i \notin IndicesIn(fs)
  PROVE  CallAt(fs, i) = NewCall
<1>1. PICK n \in Nat : n = Len(fs)
  BY LenProperties
<1>2. \A k \in 1..n : fs[k] \in FragmentKinds /\ fs[k].index # i
  BY <1>1, LenProperties, ElementOfSeq DEF IndicesIn
<1>3. \A k \in 1..n : IdOf(i)[fs[k]] = <<>> /\ NameOf(i)[fs[k]] = <<>> /\ ArgumentsOf(i)[fs[k]] = <<>>
  BY <1>2 DEF IdOf, NameOf, ArgumentsOf
<1>4. Joined(IdOf(i), fs) = <<>> /\ Joined(NameOf(i), fs) = <<>>
  BY <1>1, <1>3, PartsIn, GatheredNothing
<1>5. Joined(ArgumentsOf(i), fs) = <<>>
  BY <1>1, <1>3, PartsIn, GatheredNothing
<1>6. FlattenSeq(<<>>) = <<>>
  BY DEF FlattenSeq
<1> QED
  BY <1>4, <1>5, <1>6, Zenon DEF CallAt, NewCall, LastOf

LEMMA CallGrows ==
  ASSUME NEW fs \in Seq(FragmentKinds), NEW f \in SaidFragments, NEW i
  PROVE  CallAt(Append(fs, f), i) = IF i = f.index THEN Merged(CallAt(fs, i), f) ELSE CallAt(fs, i)
<1>0. f \in FragmentKinds /\ Len(f.id) <= 1 /\ Len(f.name) <= 1
  BY DEF SaidFragments
<1>1. PICK ids \in Seq(Names) : ids = Joined(IdOf(i), fs)
  BY PartsIn, GatheredType
<1>2. PICK names \in Seq(Names) : names = Joined(NameOf(i), fs)
  BY PartsIn, GatheredType
<1>3. PICK given \in Seq(TextKinds) : given = Joined(ArgumentsOf(i), fs)
  BY PartsIn, GatheredType
<1>4. /\ Joined(IdOf(i), Append(fs, f)) = ids \o IdOf(i)[f]
      /\ Joined(NameOf(i), Append(fs, f)) = names \o NameOf(i)[f]
      /\ Joined(ArgumentsOf(i), Append(fs, f)) = given \o ArgumentsOf(i)[f]
  <2>1. Joined(IdOf(i), Append(fs, f)) = ids \o IdOf(i)[f]
    <3>1. PICK g \in [FragmentKinds -> Seq(Names)] : g = IdOf(i)
      BY PartsIn
    <3>2. Joined(g, Append(fs, f)) = Joined(g, fs) \o g[f]
      BY <1>0, GatheredAppend
    <3> QED
      BY <1>1, <3>1, <3>2
  <2>2. Joined(NameOf(i), Append(fs, f)) = names \o NameOf(i)[f]
    <3>1. PICK g \in [FragmentKinds -> Seq(Names)] : g = NameOf(i)
      BY PartsIn
    <3>2. Joined(g, Append(fs, f)) = Joined(g, fs) \o g[f]
      BY <1>0, GatheredAppend
    <3> QED
      BY <1>2, <3>1, <3>2
  <2>3. Joined(ArgumentsOf(i), Append(fs, f)) = given \o ArgumentsOf(i)[f]
    <3>1. PICK g \in [FragmentKinds -> Seq(TextKinds)] : g = ArgumentsOf(i)
      BY PartsIn
    <3>2. Joined(g, Append(fs, f)) = Joined(g, fs) \o g[f]
      BY <1>0, GatheredAppend
    <3> QED
      BY <1>3, <3>1, <3>2
  <2> QED
    BY <2>1, <2>2, <2>3
<1>5. CASE i # f.index
  <2>1. IdOf(i)[f] = <<>> /\ NameOf(i)[f] = <<>> /\ ArgumentsOf(i)[f] = <<>>
    BY <1>0, <1>5 DEF IdOf, NameOf, ArgumentsOf
  <2>2. ids \o <<>> = ids /\ names \o <<>> = names /\ given \o <<>> = given
    BY ConcatEmptySeq
  <2> QED
    BY <1>1, <1>2, <1>3, <1>4, <1>5, <2>1, <2>2, Zenon DEF CallAt
<1>6. CASE i = f.index
  <2>1. IdOf(i)[f] = f.id /\ NameOf(i)[f] = f.name /\ ArgumentsOf(i)[f] = f.arguments
    BY <1>0, <1>6 DEF IdOf, NameOf, ArgumentsOf
  <2>2. f.id \in Seq(Names) /\ f.name \in Seq(Names) /\ f.arguments \in Seq(TextKinds)
    BY <1>0 DEF FragmentKinds
  <2>3. LastOf(ids \o f.id, "") = Latest(LastOf(ids, ""), f.id)
    BY <1>0, <2>2, LastGrows
  <2>4. LastOf(names \o f.name, "") = Latest(LastOf(names, ""), f.name)
    BY <1>0, <2>2, LastGrows
  <2>5. FlattenSeq(given \o f.arguments) = FlattenSeq(given) \o FlattenSeq(f.arguments)
    BY <2>2, FlattenConcat DEF TextKinds
  <2>6. CallAt(fs, i) = [id |-> LastOf(ids, ""), name |-> LastOf(names, ""),
                         arguments |-> FlattenSeq(given)]
    BY <1>1, <1>2, <1>3, Zenon DEF CallAt
  <2>7. CallAt(Append(fs, f), i)
          = [id |-> LastOf(ids \o f.id, ""), name |-> LastOf(names \o f.name, ""),
             arguments |-> FlattenSeq(given \o f.arguments)]
    BY <1>4, <2>1, Zenon DEF CallAt
  <2>8. Merged(CallAt(fs, i), f)
          = [id |-> Latest(LastOf(ids, ""), f.id), name |-> Latest(LastOf(names, ""), f.name),
             arguments |-> FlattenSeq(given) \o FlattenSeq(f.arguments)]
    <3> DEFINE id == LastOf(ids, "")
               name == LastOf(names, "")
               words == FlattenSeq(given)
    <3>1. CallAt(fs, i) = [id |-> id, name |-> name, arguments |-> words]
      BY <2>6
    <3> HIDE DEF id, name, words
    <3>2. /\ CallAt(fs, i).id = id /\ CallAt(fs, i).name = name
          /\ CallAt(fs, i).arguments = words
      BY <3>1
    <3>3. Merged(CallAt(fs, i), f)
            = [id |-> Latest(id, f.id), name |-> Latest(name, f.name),
               arguments |-> words \o FlattenSeq(f.arguments)]
      BY <3>2, Zenon DEF Merged
    <3> QED
      BY <3>3 DEF id, name, words
  <2> QED
    BY <1>6, <2>3, <2>4, <2>5, <2>7, <2>8, Zenon
<1> QED
  BY <1>5, <1>6

LEMMA AddGrows ==
  ASSUME NEW fs \in Seq(FragmentKinds), NEW f \in SaidFragments
  PROVE  ToolsOf(Append(fs, f)) = Add(ToolsOf(fs), f)
<1>0. f \in FragmentKinds
  BY DEF SaidFragments
<1>1. PICK n \in Nat : n = Len(fs)
  BY LenProperties
<1>2. PICK gs \in Seq(FragmentKinds) : gs = Append(fs, f)
  BY <1>0, AppendProperties
<1>3. IndicesIn(gs) = IndicesIn(fs) \cup {f.index}
  <2>1. /\ DOMAIN fs = 1..n /\ DOMAIN gs = 1..(n + 1) /\ gs[n + 1] = f
        /\ \A k \in 1..n : gs[k] = fs[k]
    BY <1>0, <1>1, <1>2, AppendProperties, LenProperties
  <2>2. \A k \in 1..(n + 1) : k \in 1..n \/ k = n + 1
    OBVIOUS
  <2>3. n + 1 \in 1..(n + 1) /\ \A k \in 1..n : k \in 1..(n + 1)
    OBVIOUS
  <2>4. \A i \in IndicesIn(gs) : i \in IndicesIn(fs) \cup {f.index}
    BY <2>1, <2>2 DEF IndicesIn
  <2>5. \A i \in IndicesIn(fs) \cup {f.index} : i \in IndicesIn(gs)
    BY <2>1, <2>3 DEF IndicesIn
  <2> QED
    BY <2>4, <2>5
<1>4. \A i : CallAt(gs, i) = IF i = f.index THEN Merged(CallAt(fs, i), f) ELSE CallAt(fs, i)
  BY <1>2, CallGrows
<1>5. \A i : i \notin IndicesIn(fs) => CallAt(fs, i) = NewCall
  BY CallNone
<1> DEFINE tools == ToolsOf(fs)
<1>6. DOMAIN tools = IndicesIn(fs) /\ \A i \in IndicesIn(fs) : tools[i] = CallAt(fs, i)
  BY DEF ToolsOf
<1> HIDE DEF tools
<1>7. Add(tools, f)
        = [i \in IndicesIn(gs) |->
             IF i # f.index THEN tools[i]
             ELSE Merged(IF i \in IndicesIn(fs) THEN tools[i] ELSE NewCall, f)]
  BY <1>3, <1>6 DEF Add
<1>8. ASSUME NEW i \in IndicesIn(gs)
      PROVE  CallAt(gs, i) = IF i # f.index THEN tools[i]
                             ELSE Merged(IF i \in IndicesIn(fs) THEN tools[i] ELSE NewCall, f)
  <2>1. CASE i # f.index
    BY <1>3, <1>4, <1>6, <2>1
  <2>2. CASE i = f.index /\ i \in IndicesIn(fs)
    BY <1>4, <1>6, <2>2
  <2>3. CASE i = f.index /\ i \notin IndicesIn(fs)
    BY <1>4, <1>5, <2>3
  <2> QED
    BY <2>1, <2>2, <2>3
<1>9. ToolsOf(gs) = Add(tools, f)
  BY <1>7, <1>8 DEF ToolsOf
<1> QED
  BY <1>2, <1>9 DEF tools

LEMMA PrefixGrows ==
  ASSUME NEW S, NEW s \in Seq(S), NEW q \in Seq(S), NEW n \in Nat, n = Len(q), NEW i \in 1..n
  PROVE  /\ s \o SubSeq(q, 1, i - 1) \in Seq(S)
         /\ s \o SubSeq(q, 1, i) = Append(s \o SubSeq(q, 1, i - 1), q[i])
<1>1. q[i] \in S
  BY ElementOfSeq
<1>2. /\ 1 \in Nat /\ 1 >= 1 /\ i - 1 \in Nat /\ i - 1 <= n
  OBVIOUS
<1>3. PICK a \in Seq(S) : a = SubSeq(q, 1, i - 1)
  BY <1>2, SliceType
<1>4. PICK b \in Seq(S) : b = <<q[i]>>
  <2>1. <<q[i]>> \in Seq(S)
    BY <1>1
  <2> QED
    BY <2>1
<1>5. SubSeq(q, 1, i) = a \o b
  <2>1. 1 \in 1..Len(q) /\ i \in 1..Len(q)
    OBVIOUS
  <2> QED
    BY <1>3, <1>4, <2>1, SubSeqRecursiveSecond
<1> DEFINE Cat(x, y) == x \o y
<1>6. \A x, y, z \in Seq(S) : Cat(Cat(x, y), z) = Cat(x, Cat(y, z))
  BY Concats
<1> HIDE DEF Cat
<1>7. Cat(Cat(s, a), b) = Cat(s, Cat(a, b))
  BY <1>6
<1>8. (s \o a) \o b = s \o (a \o b)
  BY <1>7 DEF Cat
<1>9. PICK c \in Seq(S) : c = s \o a
  BY ConcatProperties
<1>10. Append(c, q[i]) = c \o <<q[i]>>
  BY <1>1, AppendIsConcat
<1> QED
  BY <1>3, <1>4, <1>5, <1>8, <1>9, <1>10

\* The tools are those of the fragments shown so far.
LEMMA AddAllGrows ==
  ASSUME NEW fs \in Seq(FragmentKinds), NEW q \in Seq(SaidFragments), NEW tools \in ToolKinds,
         tools = ToolsOf(fs)
  PROVE  AddAll(tools, q) = ToolsOf(fs \o q)
<1>1. PICK n \in Nat : n = Len(q)
  BY LenProperties
<1>2. \A i \in 1..n : q[i] \in SaidFragments
  BY <1>1, ElementOfSeq
<1>3. q \in Seq(FragmentKinds)
  <2>1. SaidFragments \subseteq FragmentKinds
    BY DEF SaidFragments
  <2> QED
    BY <2>1
<1>4. PICK run \in [0..n -> ToolKinds] :
        /\ run[0] = tools
        /\ \A i \in 1..n : run[i] = Add(run[i - 1], q[i])
        /\ AddAll(tools, q) = run[n]
  <2>1. \E run \in [0..n -> ToolKinds] : AddsUp(run, tools, q, n)
    BY <1>1, <1>3, AddRun
  <2> QED
    BY <2>1 DEF AddsUp
<1> DEFINE G == {i \in 0..n : run[i] = ToolsOf(fs \o SubSeq(q, 1, i))}
<1>5. 0 \in G
  <2>1. SubSeq(q, 1, 0) = <<>>
    BY <1>3, SubSeqProperties
  <2>2. fs \o <<>> = fs
    BY ConcatEmptySeq
  <2>3. run[0] = ToolsOf(fs \o SubSeq(q, 1, 0))
    BY <1>4, <2>1, <2>2
  <2>4. 0 \in 0..n
    OBVIOUS
  <2> QED
    BY <2>3, <2>4
<1>6. ASSUME NEW i \in 1..n, i - 1 \in G PROVE i \in G
  <2>1. PICK c \in Seq(FragmentKinds) : c = fs \o SubSeq(q, 1, i - 1)
    BY <1>1, <1>3, PrefixGrows
  <2>2. fs \o SubSeq(q, 1, i) = Append(c, q[i])
    BY <1>1, <1>3, <2>1, PrefixGrows
  <2>3. ToolsOf(Append(c, q[i])) = Add(ToolsOf(c), q[i])
    BY <1>2, AddGrows
  <2>4. run[i - 1] = ToolsOf(c)
    BY <1>6, <2>1
  <2>5. run[i] = ToolsOf(fs \o SubSeq(q, 1, i))
    BY <1>4, <2>2, <2>3, <2>4
  <2> QED
    BY <2>5
<1>7. n \in G
  <2> HIDE DEF G
  <2>1. 0..n \subseteq G
    BY <1>5, <1>6, Climb
  <2> QED
    BY <2>1
<1>8. SubSeq(q, 1, n) = q
  BY <1>1, SubSeqFull
<1> QED
  BY <1>4, <1>7, <1>8

LEMMA DoneGrows ==
  ASSUME NEW lines \in Seq(LineKinds), NEW line \in LineKinds
  PROVE  (\E i \in DOMAIN Append(lines, line) : Append(lines, line)[i].kind = "done")
           <=> (\E i \in DOMAIN lines : lines[i].kind = "done") \/ line.kind = "done"
<1>1. PICK n \in Nat : n = Len(lines)
  BY LenProperties
<1>2. PICK more \in Seq(LineKinds) : more = Append(lines, line)
  BY AppendProperties
<1>3. /\ DOMAIN lines = 1..n /\ DOMAIN more = 1..(n + 1) /\ more[n + 1] = line
      /\ \A i \in 1..n : more[i] = lines[i]
  BY <1>1, <1>2, AppendProperties, LenProperties
<1>4. n + 1 \in 1..(n + 1) /\ \A i \in 1..(n + 1) : i \in 1..n \/ i = n + 1
  OBVIOUS
<1>5. \A i \in 1..n : i \in 1..(n + 1)
  OBVIOUS
<1> QED
  BY <1>2, <1>3, <1>4, <1>5

\* A chunk adds what it says.
LEMMA ChunkMeans ==
  ASSUME NEW p \in ParserKinds, NEW lines \in Seq(LineKinds), NEW line \in SaidKinds,
         Means(p, lines), line.kind = "chunk"
  PROVE  Means(process_chunk(p, line), Append(lines, line))
<1>0. line \in LineKinds
  BY DEF SaidKinds
<1>1. /\ Len(line.finish) <= 1 /\ Len(line.usage) <= 1 /\ line.calls \in Seq(SaidFragments)
      /\ line.content \in Seq(TextKinds) /\ line.reasoning \in Seq(TextKinds)
      /\ line.calls \in Seq(FragmentKinds)
      /\ line.finish \in Seq(Names) /\ line.usage \in Seq(Nat)
  BY DEF SaidKinds, LineKinds
<1>2. /\ p.content = FlattenSeq(Joined(ContentIn, lines))
      /\ p.reasoning = FlattenSeq(Joined(ReasoningIn, lines))
      /\ p.finish = LastOf(Joined(FinishIn, lines), "")
      /\ p.usage = LastOf(Joined(UsageIn, lines), 0)
      /\ p.done <=> \E i \in DOMAIN lines : lines[i].kind = "done"
      /\ p.tools = ToolsOf(Joined(CallsIn, lines))
  BY DEF Means
<1>3. PICK more \in Seq(LineKinds) : more = Append(lines, line)
  BY <1>0, AppendProperties
<1>4. PICK q \in ParserKinds : q = process_chunk(p, line)
  BY <1>0, ChunkType
<1>5. /\ q.content = p.content \o FlattenSeq(line.content)
      /\ q.reasoning = p.reasoning \o FlattenSeq(line.reasoning)
      /\ q.finish = Latest(p.finish, line.finish) /\ q.usage = Latest(p.usage, line.usage)
      /\ q.done = p.done /\ q.tools = AddAll(p.tools, line.calls)
  BY <1>4 DEF process_chunk, ParserKinds, AddAll
<1>6. q.content = FlattenSeq(Joined(ContentIn, more))
  <2>1. PICK said \in Seq(TextKinds) : said = Joined(ContentIn, lines)
    BY FieldsIn, GatheredType
  <2>2. Joined(ContentIn, more) = said \o ContentIn[line]
    <3>1. PICK g \in [LineKinds -> Seq(TextKinds)] : g = ContentIn
      BY FieldsIn
    <3>2. Joined(g, Append(lines, line)) = Joined(g, lines) \o g[line]
      BY <1>0, GatheredAppend
    <3> QED
      BY <1>3, <2>1, <3>1, <3>2
  <2>3. ContentIn[line] = line.content
    BY <1>0 DEF ContentIn
  <2>4. FlattenSeq(said \o line.content) = FlattenSeq(said) \o FlattenSeq(line.content)
    BY <1>1, FlattenConcat DEF TextKinds
  <2> QED
    BY <1>2, <1>5, <2>1, <2>2, <2>3, <2>4
<1>7. q.reasoning = FlattenSeq(Joined(ReasoningIn, more))
  <2>1. PICK said \in Seq(TextKinds) : said = Joined(ReasoningIn, lines)
    BY FieldsIn, GatheredType
  <2>2. Joined(ReasoningIn, more) = said \o ReasoningIn[line]
    <3>1. PICK g \in [LineKinds -> Seq(TextKinds)] : g = ReasoningIn
      BY FieldsIn
    <3>2. Joined(g, Append(lines, line)) = Joined(g, lines) \o g[line]
      BY <1>0, GatheredAppend
    <3> QED
      BY <1>3, <2>1, <3>1, <3>2
  <2>3. ReasoningIn[line] = line.reasoning
    BY <1>0 DEF ReasoningIn
  <2>4. FlattenSeq(said \o line.reasoning) = FlattenSeq(said) \o FlattenSeq(line.reasoning)
    BY <1>1, FlattenConcat DEF TextKinds
  <2> QED
    BY <1>2, <1>5, <2>1, <2>2, <2>3, <2>4
<1>8. q.finish = LastOf(Joined(FinishIn, more), "")
  <2>1. PICK said \in Seq(Names) : said = Joined(FinishIn, lines)
    BY FieldsIn, GatheredType
  <2>2. Joined(FinishIn, more) = said \o FinishIn[line]
    <3>1. PICK g \in [LineKinds -> Seq(Names)] : g = FinishIn
      BY FieldsIn
    <3>2. Joined(g, Append(lines, line)) = Joined(g, lines) \o g[line]
      BY <1>0, GatheredAppend
    <3> QED
      BY <1>3, <2>1, <3>1, <3>2
  <2>3. FinishIn[line] = line.finish
    BY <1>0 DEF FinishIn
  <2>4. LastOf(said \o line.finish, "") = Latest(LastOf(said, ""), line.finish)
    BY <1>1, LastGrows
  <2> QED
    BY <1>2, <1>5, <2>1, <2>2, <2>3, <2>4
<1>9. q.usage = LastOf(Joined(UsageIn, more), 0)
  <2>1. PICK said \in Seq(Nat) : said = Joined(UsageIn, lines)
    BY FieldsIn, GatheredType
  <2>2. Joined(UsageIn, more) = said \o UsageIn[line]
    <3>1. PICK g \in [LineKinds -> Seq(Nat)] : g = UsageIn
      BY FieldsIn
    <3>2. Joined(g, Append(lines, line)) = Joined(g, lines) \o g[line]
      BY <1>0, GatheredAppend
    <3> QED
      BY <1>3, <2>1, <3>1, <3>2
  <2>3. UsageIn[line] = line.usage
    BY <1>0 DEF UsageIn
  <2>4. LastOf(said \o line.usage, 0) = Latest(LastOf(said, 0), line.usage)
    BY <1>1, LastGrows
  <2> QED
    BY <1>2, <1>5, <2>1, <2>2, <2>3, <2>4
<1>10. q.done <=> \E i \in DOMAIN more : more[i].kind = "done"
  BY <1>0, <1>2, <1>3, <1>5, DoneGrows
<1>11. q.tools = ToolsOf(Joined(CallsIn, more))
  <2>1. PICK said \in Seq(FragmentKinds) : said = Joined(CallsIn, lines)
    BY FieldsIn, GatheredType
  <2>2. Joined(CallsIn, more) = said \o CallsIn[line]
    <3>1. PICK g \in [LineKinds -> Seq(FragmentKinds)] : g = CallsIn
      BY FieldsIn
    <3>2. Joined(g, Append(lines, line)) = Joined(g, lines) \o g[line]
      BY <1>0, GatheredAppend
    <3> QED
      BY <1>3, <2>1, <3>1, <3>2
  <2>3. CallsIn[line] = line.calls
    BY <1>0 DEF CallsIn
  <2>4. p.tools \in ToolKinds /\ p.tools = ToolsOf(said)
    BY <1>2, <2>1 DEF ParserKinds
  <2>5. AddAll(p.tools, line.calls) = ToolsOf(said \o line.calls)
    BY <1>1, <2>4, AddAllGrows
  <2> QED
    BY <1>5, <2>2, <2>3, <2>5
<1> QED
  BY <1>3, <1>4, <1>6, <1>7, <1>8, <1>9, <1>10, <1>11 DEF Means

\* What is no chunk says nothing but that the reply is done.
LEMMA QuietMeans ==
  ASSUME NEW p \in ParserKinds, NEW q \in ParserKinds, NEW lines \in Seq(LineKinds),
         NEW line \in SaidKinds, Means(p, lines), line.kind # "chunk",
         q = [p EXCEPT !.done = p.done \/ line.kind = "done"]
  PROVE  Means(q, Append(lines, line))
<1>0. line \in LineKinds
  BY DEF SaidKinds
<1>1. /\ line.content = <<>> /\ line.reasoning = <<>> /\ line.calls = <<>>
      /\ line.finish = <<>> /\ line.usage = <<>>
  BY DEF SaidKinds
<1>2. /\ q.content = p.content /\ q.reasoning = p.reasoning /\ q.finish = p.finish
      /\ q.usage = p.usage /\ q.tools = p.tools /\ q.done = (p.done \/ line.kind = "done")
  BY DEF ParserKinds
<1>3. ASSUME NEW T, NEW g \in [LineKinds -> Seq(T)], g[line] = <<>>
      PROVE  Joined(g, Append(lines, line)) = Joined(g, lines)
  <2>1. Joined(g, Append(lines, line)) = Joined(g, lines) \o <<>>
    BY <1>0, <1>3, GatheredAppend
  <2>2. Joined(g, lines) \in Seq(T)
    BY GatheredType
  <2>3. Joined(g, lines) \o <<>> = Joined(g, lines)
    BY <2>2, ConcatEmptySeq
  <2> QED
    BY <2>1, <2>3
<1>4. Joined(ContentIn, Append(lines, line)) = Joined(ContentIn, lines)
  <2>1. PICK g \in [LineKinds -> Seq(TextKinds)] : g = ContentIn
    BY FieldsIn
  <2>2. g[line] = <<>>
    BY <1>0, <1>1, <2>1 DEF ContentIn
  <2> QED
    BY <1>3, <2>1, <2>2
<1>5. Joined(ReasoningIn, Append(lines, line)) = Joined(ReasoningIn, lines)
  <2>1. PICK g \in [LineKinds -> Seq(TextKinds)] : g = ReasoningIn
    BY FieldsIn
  <2>2. g[line] = <<>>
    BY <1>0, <1>1, <2>1 DEF ReasoningIn
  <2> QED
    BY <1>3, <2>1, <2>2
<1>6. Joined(FinishIn, Append(lines, line)) = Joined(FinishIn, lines)
  <2>1. PICK g \in [LineKinds -> Seq(Names)] : g = FinishIn
    BY FieldsIn
  <2>2. g[line] = <<>>
    BY <1>0, <1>1, <2>1 DEF FinishIn
  <2> QED
    BY <1>3, <2>1, <2>2
<1>7. Joined(UsageIn, Append(lines, line)) = Joined(UsageIn, lines)
  <2>1. PICK g \in [LineKinds -> Seq(Nat)] : g = UsageIn
    BY FieldsIn
  <2>2. g[line] = <<>>
    BY <1>0, <1>1, <2>1 DEF UsageIn
  <2> QED
    BY <1>3, <2>1, <2>2
<1>8. Joined(CallsIn, Append(lines, line)) = Joined(CallsIn, lines)
  <2>1. PICK g \in [LineKinds -> Seq(FragmentKinds)] : g = CallsIn
    BY FieldsIn
  <2>2. g[line] = <<>>
    BY <1>0, <1>1, <2>1 DEF CallsIn
  <2> QED
    BY <1>3, <2>1, <2>2
<1>9. q.done <=> \E i \in DOMAIN Append(lines, line) : Append(lines, line)[i].kind = "done"
  <2>1. p.done <=> \E i \in DOMAIN lines : lines[i].kind = "done"
    BY Zenon DEF Means
  <2> QED
    BY <1>0, <1>2, <2>1, DoneGrows, Zenon
<1> QED
  BY <1>2, <1>4, <1>5, <1>6, <1>7, <1>8, <1>9, Zenon DEF Means

\* The bytes of a line, of which the last is the newline.
LEMMA BytesAre ==
  ASSUME NEW line \in LineKinds, NEW parts \in Nat \ {0}, NEW n \in Nat, n = parts + 1
  PROVE  /\ Bytes(line, parts) \in Seq(ByteKinds) /\ Len(Bytes(line, parts)) = n
         /\ \A i \in 1..n : Bytes(line, parts)[i]
              = [line |-> line, of |-> parts, part |-> IF i = n THEN 0 ELSE i]
<1> DEFINE byte(i) == [line |-> line, of |-> parts, part |-> IF i = n THEN 0 ELSE i]
<1>1. \A i \in 1..n : byte(i) \in ByteKinds
  BY DEF ByteKinds
<1>2. Bytes(line, parts) = [i \in 1..n |-> byte(i)]
  BY DEF Bytes
<1> HIDE DEF byte
<1>3. Bytes(line, parts) \in Seq(ByteKinds)
  BY <1>1, <1>2, IsASeq
<1>4. Len(Bytes(line, parts)) = n /\ \A i \in 1..n : Bytes(line, parts)[i] = byte(i)
  BY <1>2
<1> QED
  BY <1>3, <1>4 DEF byte

SpellsOut(s, line, parts, n) ==
  /\ Len(s) = n
  /\ \A i \in 1..n : s[i] = [line |-> line, of |-> parts, part |-> IF i = n THEN 0 ELSE i]

LEMMA BytesSpell ==
  ASSUME NEW line \in LineKinds, NEW parts \in Nat \ {0}, NEW n \in Nat, n = parts + 1
  PROVE  SpellsOut(Bytes(line, parts), line, parts, n)
<1> DEFINE byte(i) == [line |-> line, of |-> parts, part |-> IF i = n THEN 0 ELSE i]
<1>1. PICK s : s = [i \in 1..n |-> byte(i)]
  OBVIOUS
<1>2. s = Bytes(line, parts)
  BY <1>1 DEF Bytes
<1> HIDE DEF byte
<1>3. Len(s) = n /\ \A i \in 1..n : s[i] = byte(i)
  BY <1>1
<1>4. SpellsOut(s, line, parts, n)
  BY <1>3, Zenon DEF SpellsOut, byte
<1> QED
  BY <1>2, <1>4, Zenon

\* A whole line is taken for what it says.
LEMMA LineMeans ==
  ASSUME NEW p \in ParserKinds, NEW lines \in Seq(LineKinds), NEW line \in SaidKinds,
         NEW parts \in Nat \ {0}, NEW bytes \in Seq(ByteKinds), Len(bytes) = parts,
         \A i \in 1..parts : bytes[i] = [line |-> line, of |-> parts, part |-> i],
         Means(p, lines)
  PROVE  Means(process_line(p, bytes), Append(lines, line))
<1>1. bytes # <<>> /\ DOMAIN bytes = 1..parts /\ 1 \in 1..parts
  <2>1. Len(bytes) # 0
    OBVIOUS
  <2> QED
    BY <2>1, EmptySeq, LenProperties
<1>2. bytes[1] = [line |-> line, of |-> parts, part |-> 1]
  BY <1>1
<1>3. Whole(bytes)
  BY <1>1, <1>2 DEF Whole
<1>4. bytes[1].line = line
  BY <1>2
<1>5. line.kind \in {"skipped", "chunk", "done"}
  BY DEF SaidKinds, LineKinds
<1>6. CASE line.kind = "skipped"
  <2>1. process_line(p, bytes) = p
    BY <1>4, <1>6 DEF process_line
  <2>2. p = [p EXCEPT !.done = p.done \/ line.kind = "done"]
    BY <1>6 DEF ParserKinds
  <2>3. line.kind # "chunk"
    BY <1>6
  <2> QED
    BY <2>1, <2>2, <2>3, QuietMeans
<1>7. CASE line.kind = "done"
  <2>1. process_line(p, bytes) = [p EXCEPT !.done = TRUE]
    BY <1>3, <1>4, <1>7 DEF process_line
  <2>2. PICK q \in ParserKinds : q = [p EXCEPT !.done = TRUE]
    BY DEF ParserKinds
  <2>3. q = [p EXCEPT !.done = p.done \/ line.kind = "done"]
    BY <1>7, <2>2
  <2>4. line.kind # "chunk"
    BY <1>7
  <2>5. Means(q, Append(lines, line))
    BY <2>3, <2>4, QuietMeans
  <2> QED
    BY <2>1, <2>2, <2>5
<1>8. CASE line.kind = "chunk"
  <2>1. process_line(p, bytes) = process_chunk(p, line)
    BY <1>3, <1>4, <1>8 DEF process_line
  <2> QED
    BY <1>8, <2>1, ChunkMeans
<1> QED
  BY <1>5, <1>6, <1>7, <1>8

-----------------------------------------------------------------------------
(* The newlines in a stream.                                                *)

NewlinesAt(s) == {i \in DOMAIN s : IsNewline(s[i])}

LEMMA NewlinesFinite ==
  ASSUME NEW s \in Seq(ByteKinds)
  PROVE  IsFiniteSet(NewlinesAt(s)) /\ Newlines(s) = Cardinality(NewlinesAt(s)) /\ Newlines(s) \in Nat
<1>1. PICK n \in Nat : n = Len(s)
  BY LenProperties
<1>2. NewlinesAt(s) \in SUBSET (1..n)
  BY <1>1, LenProperties DEF NewlinesAt
<1>3. IsFiniteSet(1..n)
  BY FS_Interval
<1>4. IsFiniteSet(NewlinesAt(s))
  BY <1>2, <1>3, FS_Subset
<1> QED
  BY <1>4, FS_CardinalityType DEF Newlines, NewlinesAt

LEMMA NewlinesNone ==
  ASSUME NEW s \in Seq(ByteKinds), NEW n \in Nat, n = Len(s), \A i \in 1..n : ~IsNewline(s[i])
  PROVE  Newlines(s) = 0
<1>1. NewlinesAt(s) = {}
  BY LenProperties DEF NewlinesAt
<1> QED
  BY <1>1, NewlinesFinite, FS_EmptySet

LEMMA NewlinesOne ==
  ASSUME NEW line \in LineKinds, NEW parts \in Nat \ {0}
  PROVE  Newlines(Bytes(line, parts)) = 1
<1>1. PICK n \in Nat : n = parts + 1
  OBVIOUS
<1>2. PICK s \in Seq(ByteKinds) : s = Bytes(line, parts)
  BY <1>1, BytesAre
<1>3. Len(s) = n /\ \A i \in 1..n : s[i] = [line |-> line, of |-> parts, part |-> IF i = n THEN 0 ELSE i]
  <2>1. SpellsOut(s, line, parts, n)
    BY <1>1, <1>2, BytesSpell
  <2> QED
    BY <2>1 DEF SpellsOut
<1>4. \A i \in 1..n : IsNewline(s[i]) <=> i = n
  BY <1>3 DEF IsNewline
<1>5. NewlinesAt(s) = {n}
  <2>1. DOMAIN s = 1..n /\ n \in 1..n
    BY <1>1, <1>3, LenProperties
  <2> QED
    BY <1>4, <2>1 DEF NewlinesAt
<1> QED
  BY <1>2, <1>5, NewlinesFinite, FS_Singleton

LEMMA NewlinesConcat ==
  ASSUME NEW s \in Seq(ByteKinds), NEW t \in Seq(ByteKinds)
  PROVE  Newlines(s \o t) = Newlines(s) + Newlines(t)
<1>1. PICK n \in Nat : n = Len(s)
  BY LenProperties
<1>2. PICK m \in Nat : m = Len(t)
  BY LenProperties
<1>3. PICK r \in Seq(ByteKinds) : r = s \o t
  BY ConcatProperties
<1>4. Len(r) = n + m /\ \A i \in 1..(n + m) : r[i] = IF i <= n THEN s[i] ELSE t[i - n]
  BY <1>1, <1>2, <1>3, ConcatProperties
<1> DEFINE A == NewlinesAt(s)
           B == NewlinesAt(t)
           moved == {n + j : j \in B}
<1>5. /\ A = {i \in 1..n : IsNewline(s[i])} /\ B = {i \in 1..m : IsNewline(t[i])}
      /\ NewlinesAt(r) = {i \in 1..(n + m) : IsNewline(r[i])}
  BY <1>1, <1>2, <1>4, LenProperties DEF NewlinesAt
<1> HIDE DEF A, B
<1>6. NewlinesAt(r) = A \cup moved
  <2>1. ASSUME NEW i \in NewlinesAt(r) PROVE i \in A \cup moved
    <3>1. i \in 1..(n + m) /\ IsNewline(r[i])
      BY <1>5
    <3>2. CASE i <= n
      BY <1>4, <1>5, <3>1, <3>2
    <3>3. CASE ~(i <= n)
      <4>1. i - n \in 1..m /\ n + (i - n) = i
        BY <3>1, <3>3
      <4>2. IsNewline(t[i - n])
        BY <1>4, <3>1, <3>3
      <4> QED
        BY <1>5, <4>1, <4>2
    <3> QED
      BY <3>2, <3>3
  <2>2. ASSUME NEW i \in A PROVE i \in NewlinesAt(r)
    <3>1. i \in 1..(n + m) /\ i <= n
      BY <1>5
    <3> QED
      BY <1>4, <1>5, <3>1
  <2>3. ASSUME NEW j \in B PROVE n + j \in NewlinesAt(r)
    <3>1. n + j \in 1..(n + m) /\ ~(n + j <= n) /\ (n + j) - n = j
      BY <1>5
    <3> QED
      BY <1>4, <1>5, <3>1
  <2> QED
    BY <2>1, <2>2, <2>3
<1>7. IsFiniteSet(A) /\ IsFiniteSet(B) /\ Newlines(s) = Cardinality(A) /\ Newlines(t) = Cardinality(B)
      /\ Newlines(s) \in Nat /\ Newlines(t) \in Nat
  BY NewlinesFinite DEF A, B
<1>8. IsFiniteSet(moved) /\ Cardinality(moved) = Cardinality(B)
  <2> DEFINE f == [j \in B |-> n + j]
  <2>1. \A j \in B : j \in Nat
    BY <1>5
  <2>2. f \in Bijection(B, moved)
    <3>1. f \in [B -> moved] /\ \A y \in moved : \E j \in B : f[j] = y
      OBVIOUS
    <3>2. \A a, b \in B : f[a] = f[b] => a = b
      BY <2>1
    <3> HIDE DEF f, moved
    <3> QED
      BY <3>1, <3>2 DEF Bijection, Injection, Surjection, IsInjective
  <2>3. ExistsBijection(B, moved)
    BY <2>2 DEF ExistsBijection
  <2> HIDE DEF moved
  <2> QED
    BY <1>7, <2>3, FS_Bijection
<1>9. A \cap moved = {}
  <2>1. \A i \in A : i <= n /\ i \in Nat
    BY <1>5
  <2>2. \A j \in B : n + j > n /\ j \in Nat
    BY <1>5
  <2> QED
    BY <2>1, <2>2
<1> HIDE DEF moved
<1>10. Cardinality(A \cup moved) = Cardinality(A) + Cardinality(moved) - Cardinality(A \cap moved)
  BY <1>7, <1>8, FS_Union
<1>11. Cardinality({}) = 0
  BY FS_EmptySet
<1>12. Newlines(r) = Cardinality(NewlinesAt(r))
  BY NewlinesFinite
<1>13. Cardinality(A \cap moved) = 0 /\ Newlines(r) = Cardinality(A \cup moved)
  BY <1>6, <1>9, <1>11, <1>12
<1>14. Newlines(r) = Newlines(s) + Newlines(t)
  <2>1. Newlines(r) = Newlines(s) + Newlines(t) - 0
    BY <1>7, <1>8, <1>10, <1>13
  <2> QED
    BY <1>7, <2>1
<1> QED
  BY <1>3, <1>14

-----------------------------------------------------------------------------
(* Lines on their way: what is behind the lines taken.                      *)

BytesIn(parts) == [line \in LineKinds |-> Bytes(line, parts)]
Stream(lines, parts) == Joined(BytesIn(parts), lines)

Quiet(bytes) == \A i \in DOMAIN bytes : ~IsNewline(bytes[i])

\* Of the lines, the parser has taken those of read; what it keeps and what is still
\* to come, w, are the whole lines of rest and a tail without a newline.
Streaming(p, w, lines, parts, tail, read, rest) ==
  /\ lines = read \o rest /\ Means(p, read)
  /\ p.buffer \o w = Stream(rest, parts) \o tail
  /\ Newlines(p.buffer \o w) = Len(rest)

Streamed(p, w, lines, parts, tail) ==
  \E read, rest \in Seq(SaidKinds) : Streaming(p, w, lines, parts, tail, read, rest)

LEMMA SaidLines == Seq(SaidKinds) \subseteq Seq(LineKinds)
<1>1. SaidKinds \subseteq LineKinds
  BY DEF SaidKinds
<1> QED
  BY <1>1

LEMMA BytesInType ==
  ASSUME NEW parts \in Nat \ {0}
  PROVE  BytesIn(parts) \in [LineKinds -> Seq(ByteKinds)]
<1>1. PICK n \in Nat : n = parts + 1
  OBVIOUS
<1>2. \A line \in LineKinds : Bytes(line, parts) \in Seq(ByteKinds)
  BY <1>1, BytesAre
<1> QED
  BY <1>2 DEF BytesIn

LEMMA StreamConcat ==
  ASSUME NEW parts \in Nat \ {0}, NEW x \in Seq(LineKinds), NEW y \in Seq(LineKinds)
  PROVE  /\ Stream(x, parts) \in Seq(ByteKinds)
         /\ Stream(x \o y, parts) = Stream(x, parts) \o Stream(y, parts)
<1>1. BytesIn(parts) \in [LineKinds -> Seq(ByteKinds)]
  BY BytesInType
<1>2. ASSUME NEW g \in [LineKinds -> Seq(ByteKinds)]
      PROVE  Joined(g, x) \in Seq(ByteKinds) /\ Joined(g, x \o y) = Joined(g, x) \o Joined(g, y)
  <2>1. Joined(g, x) \in Seq(ByteKinds)
    BY GatheredType
  <2>2. Joined(g, x \o y) = Joined(g, x) \o Joined(g, y)
    BY GatheredConcat
  <2> QED
    BY <2>1, <2>2
<1> QED
  BY <1>1, <1>2 DEF Stream

LEMMA StreamOne ==
  ASSUME NEW parts \in Nat \ {0}, NEW line \in LineKinds
  PROVE  Stream(<<line>>, parts) = Bytes(line, parts)
<1>1. BytesIn(parts) \in [LineKinds -> Seq(ByteKinds)]
  BY BytesInType
<1>2. \A g \in [LineKinds -> Seq(ByteKinds)] : Joined(g, <<line>>) = g[line]
  BY GatheredOne
<1> QED
  BY <1>1, <1>2 DEF Stream, BytesIn

\* A stream begins with the bytes of its first line.
LEMMA StreamFirst ==
  ASSUME NEW parts \in Nat \ {0}, NEW rest \in Seq(SaidKinds), rest # <<>>
  PROVE  \E line \in SaidKinds, more \in Seq(SaidKinds) :
           /\ rest = <<line>> \o more /\ Len(rest) = 1 + Len(more)
           /\ Stream(more, parts) \in Seq(ByteKinds)
           /\ Stream(rest, parts) = Bytes(line, parts) \o Stream(more, parts)
<1>1. PICK line \in SaidKinds : line = Head(rest)
  BY HeadTailProperties
<1>2. PICK more \in Seq(SaidKinds) : more = Tail(rest)
  BY HeadTailProperties
<1>3. PICK first \in Seq(SaidKinds) : first = <<line>>
  <2>1. <<line>> \in Seq(SaidKinds)
    OBVIOUS
  <2> QED
    BY <2>1
<1>4. rest = first \o more
  BY <1>1, <1>2, <1>3
<1>5. Len(rest) = 1 + Len(more)
  <2>1. Len(first \o more) = Len(first) + Len(more)
    BY ConcatProperties
  <2>2. Len(first) = 1
    BY <1>3
  <2> QED
    BY <1>4, <2>1, <2>2
<1>6. line \in LineKinds /\ first \in Seq(LineKinds) /\ more \in Seq(LineKinds)
  BY SaidLines DEF SaidKinds
<1>7. PICK x \in Seq(LineKinds) : x = first
  BY <1>6
<1>8. PICK y \in Seq(LineKinds) : y = more
  BY <1>6
<1>9. Stream(x \o y, parts) = Stream(x, parts) \o Stream(y, parts) /\ Stream(y, parts) \in Seq(ByteKinds)
  BY StreamConcat
<1>10. Stream(x, parts) = Bytes(line, parts)
  BY <1>3, <1>6, <1>7, StreamOne
<1> QED
  BY <1>3, <1>4, <1>5, <1>7, <1>8, <1>9, <1>10

\* What is before and behind the end of the first line, when the buffer holds it.
CutsAt(b, w, l, u, pos, n) ==
  /\ \A i \in 1..pos : b[i] = l[i]
  /\ SubSeq(b, pos + 1, n) \in Seq(ByteKinds)
  /\ SubSeq(b, pos + 1, n) \o w = u

LEMMA CutLine ==
  ASSUME NEW b \in Seq(ByteKinds), NEW w \in Seq(ByteKinds),
         NEW l \in Seq(ByteKinds), NEW u \in Seq(ByteKinds), b \o w = l \o u,
         NEW pos \in Nat, pos = Len(l), NEW n \in Nat, n = Len(b), pos <= n
  PROVE  CutsAt(b, w, l, u, pos, n)
<1> DEFINE S == ByteKinds
<1>1. PICK m \in Nat : m = Len(w)
  BY LenProperties
<1>2. PICK k \in Nat : k = Len(u)
  BY LenProperties
<1>3. PICK s \in Seq(S) : s = b \o w
  BY ConcatProperties
<1>4. Len(s) = n + m /\ \A i \in 1..(n + m) : s[i] = IF i <= n THEN b[i] ELSE w[i - n]
  BY <1>1, <1>3, ConcatProperties
<1>5. Len(s) = pos + k /\ \A i \in 1..(pos + k) : s[i] = IF i <= pos THEN l[i] ELSE u[i - pos]
  BY <1>2, <1>3, ConcatProperties
<1>6. ASSUME NEW i \in 1..pos PROVE b[i] = l[i]
  <2>1. i \in 1..(n + m) /\ i \in 1..(pos + k) /\ i <= n /\ i <= pos
    OBVIOUS
  <2> QED
    BY <1>4, <1>5, <2>1
<1>7. PICK c \in Seq(S) : c = SubSeq(b, pos + 1, n)
  <2>1. pos + 1 \in Nat /\ pos + 1 >= 1 /\ n <= n
    OBVIOUS
  <2> QED
    BY <2>1, SliceType
<1>8. PICK d \in Nat : d = n - pos
  BY ONLY n \in Nat, pos \in Nat, pos <= n
<1>9. Len(c) = d /\ \A i \in 1..d : c[i] = b[pos + i]
  <2>1. \A i \in (pos + 1)..n : b[i] \in S
    BY ElementOfSeq
  <2>2. /\ Len(c) = IF pos + 1 <= n THEN n - (pos + 1) + 1 ELSE 0
        /\ \A i \in 1..(n - (pos + 1) + 1) : c[i] = b[(pos + 1) + i - 1]
    BY <1>7, <2>1, SubSeqProperties
  <2>3. n - (pos + 1) + 1 = d /\ (pos + 1 <= n \/ d = 0)
    BY <1>8
  <2>4. \A i \in 1..d : (pos + 1) + i - 1 = pos + i
    OBVIOUS
  <2> QED
    BY <2>2, <2>3, <2>4
<1>10. PICK e \in Seq(S) : e = c \o w
  BY ConcatProperties
<1>11. Len(e) = d + m /\ \A i \in 1..(d + m) : e[i] = IF i <= d THEN c[i] ELSE w[i - d]
  <2>1. Len(c) = d /\ Len(w) = m
    BY <1>1, <1>9
  <2>2. /\ Len(c \o w) = Len(c) + Len(w)
        /\ \A i \in 1..(Len(c) + Len(w)) :
             (c \o w)[i] = IF i <= Len(c) THEN c[i] ELSE w[i - Len(c)]
    BY ONLY c \in Seq(S), w \in Seq(S), ConcatProperties
  <2> QED
    BY <1>10, <2>1, <2>2
<1>12. d + m = k
  <2>1. n + m = pos + k
    BY <1>4, <1>5
  <2> QED
    BY ONLY <1>8, <2>1, n \in Nat, m \in Nat, pos \in Nat, k \in Nat, d \in Nat
<1>13. ASSUME NEW i \in 1..k PROVE e[i] = u[i]
  <2>1. PICK j \in Nat : j = pos + i
    OBVIOUS
  <2>2. j \in 1..(n + m) /\ j \in 1..(pos + k) /\ ~(j <= pos) /\ j - pos = i /\ i \in 1..(d + m)
    BY <1>4, <1>5, <1>12, <2>1
  <2>3. s[j] = u[i]
    BY <1>5, <2>2
  <2>4. CASE i <= d
    <3>1. j <= n /\ i \in 1..d
      BY <1>8, <2>1, <2>4
    <3> QED
      BY <1>4, <1>9, <1>11, <2>1, <2>2, <2>3, <2>4, <3>1
  <2>5. CASE ~(i <= d)
    <3>1. ~(j <= n) /\ j - n = i - d
      BY <1>8, <2>1, <2>5
    <3> QED
      BY <1>4, <1>11, <2>2, <2>3, <2>5, <3>1
  <2> QED
    BY <2>4, <2>5
<1>14. e = u
  BY <1>2, <1>11, <1>12, <1>13, SeqEqual
<1> QED
  BY <1>6, <1>7, <1>10, <1>14 DEF CutsAt

LEMMA BufferApart ==
  ASSUME NEW p \in ParserKinds, NEW lines, Means(p, lines), NEW b
  PROVE  Means([p EXCEPT !.buffer = b], lines)
<1>1. PICK q : q = [p EXCEPT !.buffer = b]
  OBVIOUS
<1>2. /\ q.content = p.content /\ q.reasoning = p.reasoning /\ q.finish = p.finish
      /\ q.usage = p.usage /\ q.tools = p.tools /\ q.done = p.done
  BY <1>1 DEF ParserKinds
<1> QED
  BY <1>1, <1>2, Zenon DEF Means

\* Taking a line takes the first of those on their way.
LEMMA TakeStreamed ==
  ASSUME NEW parts \in Nat \ {0}, NEW p \in ParserKinds, NEW w \in Seq(ByteKinds),
         NEW lines, NEW tail \in Seq(ByteKinds), Quiet(tail), Streamed(p, w, lines, parts, tail)
  PROVE  Streamed(TakeLine(p), w, lines, parts, tail)
<1>1. PICK read \in Seq(SaidKinds), rest \in Seq(SaidKinds) :
        Streaming(p, w, lines, parts, tail, read, rest)
  BY DEF Streamed
<1>2. PICK b \in Seq(ByteKinds) : b = p.buffer
  BY DEF ParserKinds
<1>3. PICK n \in Nat : n = Len(b)
  BY LenProperties
<1>4. CASE TakeLine(p) = p
  BY <1>4
<1>5. ASSUME NEW pos \in 1..n, IsNewline(b[pos]), \A i \in 1..(pos - 1) : ~IsNewline(b[i]),
             TakeLine(p) = [process_line(p, SubSeq(b, 1, pos - 1))
                              EXCEPT !.buffer = SubSeq(b, pos + 1, n)]
      PROVE  Streamed(TakeLine(p), w, lines, parts, tail)
  <2>1. /\ lines = read \o rest /\ Means(p, read)
        /\ b \o w = Stream(rest, parts) \o tail /\ Newlines(b \o w) = Len(rest)
    BY <1>1, <1>2 DEF Streaming
  <2>2. PICK s \in Seq(ByteKinds) : s = b \o w
    BY ConcatProperties
  <2>3. pos \in 1..Len(s) /\ IsNewline(s[pos])
    <3>1. PICK m \in Nat : m = Len(w)
      BY LenProperties
    <3>2. Len(s) = n + m /\ \A i \in 1..(n + m) : s[i] = IF i <= n THEN b[i] ELSE w[i - n]
      <4>1. /\ Len(b \o w) = Len(b) + Len(w)
            /\ \A i \in 1..(Len(b) + Len(w)) :
                 (b \o w)[i] = IF i <= Len(b) THEN b[i] ELSE w[i - Len(b)]
        BY ONLY b \in Seq(ByteKinds), w \in Seq(ByteKinds), ConcatProperties
      <4> QED
        BY <1>3, <2>2, <3>1, <4>1
    <3>3. pos \in 1..(n + m) /\ pos <= n
      OBVIOUS
    <3> QED
      BY <1>5, <3>2, <3>3
  <2>4. rest # <<>>
    <3> SUFFICES ASSUME rest = <<>> PROVE FALSE
      OBVIOUS
    <3>1. Stream(<<>>, parts) = <<>>
      BY DEF Stream, Joined, Gathered, FlattenSeq
    <3>2. s = tail
      BY <2>1, <2>2, <3>1, ConcatEmptySeq
    <3> QED
      BY <2>3, <3>2, LenProperties DEF Quiet
  <2>5. PICK line \in SaidKinds, more \in Seq(SaidKinds) :
          /\ rest = <<line>> \o more /\ Len(rest) = 1 + Len(more)
          /\ Stream(more, parts) \in Seq(ByteKinds)
          /\ Stream(rest, parts) = Bytes(line, parts) \o Stream(more, parts)
    BY <2>4, StreamFirst
  <2>6. line \in LineKinds
    BY DEF SaidKinds
  <2>7. PICK e \in Nat : e = parts + 1
    OBVIOUS
  <2>8. PICK l \in Seq(ByteKinds) : l = Bytes(line, parts)
    BY <2>6, <2>7, BytesAre
  <2>9. Len(l) = e /\ \A i \in 1..e : l[i] = [line |-> line, of |-> parts, part |-> IF i = e THEN 0 ELSE i]
    <3>1. SpellsOut(l, line, parts, e)
      BY <2>6, <2>7, <2>8, BytesSpell
    <3> QED
      BY <3>1 DEF SpellsOut
  <2>10. PICK u \in Seq(ByteKinds) : u = Stream(more, parts) \o tail
    BY <2>5, ConcatProperties
  <2>11. s = l \o u
    <3> DEFINE Cat(x, y) == x \o y
    <3>1. \A x, y, z \in Seq(ByteKinds) : Cat(Cat(x, y), z) = Cat(x, Cat(y, z))
      BY Concats
    <3> HIDE DEF Cat
    <3>2. PICK v \in Seq(ByteKinds) : v = Stream(more, parts)
      BY <2>5
    <3>3. Cat(Cat(l, v), tail) = Cat(l, Cat(v, tail))
      BY <3>1
    <3>4. (l \o v) \o tail = l \o (v \o tail)
      BY <3>3 DEF Cat
    <3> QED
      BY <2>1, <2>2, <2>5, <2>8, <2>10, <3>2, <3>4
  <2>12. PICK k \in Nat : k = Len(u)
    BY LenProperties
  <2>13. Len(s) = e + k /\ \A i \in 1..e : s[i] = l[i]
    <3>1. Len(s) = e + k /\ \A i \in 1..(e + k) : s[i] = IF i <= e THEN l[i] ELSE u[i - e]
      <4>1. Len(l) = e /\ Len(u) = k
        BY <2>9, <2>12
      <4>2. /\ Len(l \o u) = Len(l) + Len(u)
            /\ \A i \in 1..(Len(l) + Len(u)) :
                 (l \o u)[i] = IF i <= Len(l) THEN l[i] ELSE u[i - Len(l)]
        BY ONLY l \in Seq(ByteKinds), u \in Seq(ByteKinds), ConcatProperties
      <4> QED
        BY <2>11, <4>1, <4>2
    <3>2. \A i \in 1..e : i \in 1..(e + k) /\ i <= e
      OBVIOUS
    <3> QED
      BY <3>1, <3>2
  <2>14. pos = e
    <3>1. \A i \in 1..e : IsNewline(s[i]) <=> i = e
      BY <2>9, <2>13 DEF IsNewline
    <3>2. ~(pos < e)
      <4> SUFFICES ASSUME pos < e PROVE FALSE
        OBVIOUS
      <4>1. pos \in 1..e /\ pos # e
        OBVIOUS
      <4> QED
        BY <2>3, <3>1, <4>1
    <3>3. ~(pos > e)
      <4> SUFFICES ASSUME pos > e PROVE FALSE
        OBVIOUS
      <4>1. e \in 1..(pos - 1) /\ e \in 1..e /\ e \in 1..n
        BY <2>7
      <4>2. s[e] = b[e]
        <5>1. PICK m \in Nat : m = Len(w)
          BY LenProperties
        <5>2. \A i \in 1..(n + m) : s[i] = IF i <= n THEN b[i] ELSE w[i - n]
          <6>1. \A i \in 1..(Len(b) + Len(w)) :
                  (b \o w)[i] = IF i <= Len(b) THEN b[i] ELSE w[i - Len(b)]
            BY ONLY b \in Seq(ByteKinds), w \in Seq(ByteKinds), ConcatProperties
          <6> QED
            BY <1>3, <2>2, <5>1, <6>1
        <5>3. e \in 1..(n + m) /\ e <= n
          BY <4>1
        <5> QED
          BY <5>2, <5>3
      <4> QED
        BY <1>5, <3>1, <4>1, <4>2
    <3> QED
      BY <3>2, <3>3
  <2>15. /\ \A i \in 1..e : b[i] = l[i]
         /\ SubSeq(b, e + 1, n) \in Seq(ByteKinds) /\ SubSeq(b, e + 1, n) \o w = u
    <3>1. b \o w = l \o u /\ e = Len(l) /\ n = Len(b) /\ e <= n
      BY <1>3, <2>2, <2>9, <2>11, <2>14
    <3> QED
      <4>1. CutsAt(b, w, l, u, e, n)
        BY <3>1, CutLine
      <4> QED
        BY <4>1 DEF CutsAt
  <2>16. PICK c \in Seq(ByteKinds) : c = SubSeq(b, e + 1, n)
    BY <2>15
  <2>17. PICK bytes \in Seq(ByteKinds) : bytes = SubSeq(b, 1, parts)
    <3>1. 1 \in Nat /\ 1 >= 1 /\ parts \in Nat /\ parts <= n
      BY <2>7, <2>14
    <3> QED
      BY <1>3, <3>1, SliceType
  <2>18. Len(bytes) = parts /\ \A i \in 1..parts : bytes[i] = [line |-> line, of |-> parts, part |-> i]
    <3>1. \A i \in 1..parts : i \in 1..n /\ i \in 1..e /\ i # e
      BY <2>7, <2>14
    <3>2. \A i \in 1..parts : b[i] \in ByteKinds
      BY <1>3, <3>1, ElementOfSeq
    <3>3. Len(bytes) = parts /\ \A i \in 1..parts : bytes[i] = b[i]
      <4>1. /\ Len(bytes) = IF 1 <= parts THEN parts - 1 + 1 ELSE 0
            /\ \A i \in 1..(parts - 1 + 1) : bytes[i] = b[1 + i - 1]
        BY <2>17, <3>2, SubSeqProperties
      <4>2. parts - 1 + 1 = parts /\ 1 <= parts /\ \A i \in 1..parts : 1 + i - 1 = i
        OBVIOUS
      <4> QED
        BY <4>1, <4>2
    <3>4. ASSUME NEW i \in 1..parts PROVE bytes[i] = [line |-> line, of |-> parts, part |-> i]
      <4>1. bytes[i] = l[i]
        BY <2>15, <3>1, <3>3
      <4> QED
        BY <2>9, <3>1, <4>1
    <3> QED
      BY <3>3, <3>4
  <2>19. PICK lr \in Seq(LineKinds) : lr = read
    BY SaidLines
  <2>20. PICK q \in ParserKinds : q = process_line(p, bytes)
    BY LineType
  <2>21. Means(q, Append(read, line))
    BY <2>1, <2>18, <2>19, <2>20, LineMeans
  <2>22. TakeLine(p) = [q EXCEPT !.buffer = c]
    <3>1. pos - 1 = parts /\ pos + 1 = e + 1
      BY <2>7, <2>14
    <3> QED
      BY <1>5, <2>16, <2>17, <2>20, <3>1
  <2>23. PICK t \in ParserKinds : t = [q EXCEPT !.buffer = c]
    BY DEF ParserKinds
  <2>24. t.buffer = c /\ Means(t, Append(read, line))
    <3>1. t.buffer = c
      BY <2>23 DEF ParserKinds
    <3> QED
      BY <2>21, <2>23, <3>1, BufferApart
  <2>25. PICK longer \in Seq(SaidKinds) : longer = Append(read, line)
    BY AppendProperties
  <2>26. lines = longer \o more
    <3> DEFINE Cat(x, y) == x \o y
    <3>1. \A x, y, z \in Seq(SaidKinds) : Cat(Cat(x, y), z) = Cat(x, Cat(y, z))
      BY Concats
    <3> HIDE DEF Cat
    <3>2. PICK first \in Seq(SaidKinds) : first = <<line>>
      <4>1. <<line>> \in Seq(SaidKinds)
        OBVIOUS
      <4> QED
        BY <4>1
    <3>3. Cat(Cat(read, first), more) = Cat(read, Cat(first, more))
      BY <3>1
    <3>4. (read \o first) \o more = read \o (first \o more)
      BY <3>3 DEF Cat
    <3>5. longer = read \o first
      BY <2>25, <3>2, AppendIsConcat
    <3> QED
      BY <2>1, <2>5, <3>2, <3>4, <3>5
  <2>27. Newlines(c \o w) = Len(more)
    <3>1. PICK k1 \in Nat : k1 = Len(more)
      BY LenProperties
    <3>2. Newlines(l \o u) = Newlines(l) + Newlines(u)
      BY NewlinesConcat
    <3>3. Newlines(l) = 1
      BY <2>6, <2>8, NewlinesOne
    <3>4. PICK k2 \in Nat : k2 = Newlines(u)
      BY NewlinesFinite
    <3>5. 1 + k1 = 1 + k2
      BY <2>1, <2>2, <2>5, <2>11, <3>1, <3>2, <3>3, <3>4
    <3>6. k1 = k2
      BY ONLY <3>5, k1 \in Nat, k2 \in Nat
    <3> QED
      BY <2>15, <2>16, <3>1, <3>4, <3>6
  <2>28. Streaming(t, w, lines, parts, tail, longer, more)
    BY <2>10, <2>15, <2>16, <2>24, <2>25, <2>26, <2>27 DEF Streaming
  <2> QED
    BY <2>22, <2>23, <2>28 DEF Streamed
<1>6. \/ TakeLine(p) = p /\ \A i \in 1..n : ~IsNewline(b[i])
      \/ \E pos \in 1..n :
           /\ IsNewline(b[pos]) /\ \A i \in 1..(pos - 1) : ~IsNewline(b[i])
           /\ TakeLine(p) = [process_line(p, SubSeq(b, 1, pos - 1))
                               EXCEPT !.buffer = SubSeq(b, pos + 1, n)]
  BY <1>2, <1>3, TakeFirst DEF TakesAt
<1> QED
  BY <1>4, <1>5, <1>6

\* Taking a line leaves no newline behind, or a shorter buffer.
LEMMA TakeShortens ==
  ASSUME NEW p \in ParserKinds, NEW m \in Nat \ {0}, Quiet(p.buffer) \/ Len(p.buffer) <= m
  PROVE  Quiet(TakeLine(p).buffer) \/ Len(TakeLine(p).buffer) <= m - 1
<1>1. PICK b \in Seq(ByteKinds) : b = p.buffer
  BY DEF ParserKinds
<1>2. PICK n \in Nat : n = Len(b)
  BY LenProperties
<1>3. CASE \A i \in 1..n : ~IsNewline(b[i])
  <2>1. Quiet(b)
    BY <1>2, <1>3, LenProperties DEF Quiet
  <2>2. \/ TakeLine(p) = p
        \/ \E pos \in 1..n : IsNewline(b[pos])
    BY <1>1, <1>2, TakeFirst DEF TakesAt
  <2> QED
    BY <1>1, <1>3, <2>1, <2>2
<1>4. ASSUME NEW pos \in 1..n, IsNewline(b[pos]),
             TakeLine(p) = [process_line(p, SubSeq(b, 1, pos - 1))
                              EXCEPT !.buffer = SubSeq(b, pos + 1, n)]
      PROVE  Len(TakeLine(p).buffer) <= m - 1
  <2>1. ~Quiet(b)
    BY <1>2, <1>4, LenProperties DEF Quiet
  <2>2. n <= m
    BY <1>1, <1>2, <2>1
  <2>3. PICK line \in Seq(ByteKinds) : line = SubSeq(b, 1, pos - 1)
    <3>1. 1 \in Nat /\ 1 >= 1 /\ pos - 1 \in Nat /\ pos - 1 <= n
      OBVIOUS
    <3> QED
      BY <1>2, <3>1, SliceType
  <2>4. PICK c \in Seq(ByteKinds) : c = SubSeq(b, pos + 1, n)
    <3>1. pos + 1 \in Nat /\ pos + 1 >= 1 /\ n <= n
      OBVIOUS
    <3> QED
      BY <1>2, <3>1, SliceType
  <2>5. PICK q \in ParserKinds : q = process_line(p, line)
    BY LineType
  <2>6. TakeLine(p).buffer = c
    <3>1. TakeLine(p) = [q EXCEPT !.buffer = c]
      BY <1>4, <2>3, <2>4, <2>5
    <3> QED
      BY <3>1 DEF ParserKinds
  <2>7. Len(c) = IF pos + 1 <= n THEN n - (pos + 1) + 1 ELSE 0
    <3>1. \A i \in (pos + 1)..n : b[i] \in ByteKinds
      BY <1>2, ElementOfSeq
    <3> QED
      BY <2>4, <3>1, SubSeqProperties
  <2>8. PICK k \in Nat : k = Len(c)
    BY LenProperties
  <2>9. k <= m - 1
    BY ONLY <2>2, <2>7, <2>8, k \in Nat, m \in Nat \ {0}, n \in Nat, pos \in 1..n
  <2> QED
    BY <2>6, <2>8, <2>9
<1>5. \/ \A i \in 1..n : ~IsNewline(b[i])
      \/ \E pos \in 1..n :
           /\ IsNewline(b[pos])
           /\ TakeLine(p) = [process_line(p, SubSeq(b, 1, pos - 1))
                               EXCEPT !.buffer = SubSeq(b, pos + 1, n)]
  BY <1>1, <1>2, TakeFirst DEF TakesAt
<1> QED
  BY <1>3, <1>4, <1>5

\* feed takes every whole line: what it keeps has no newline.
LEMMA FeedQuiet ==
  ASSUME NEW p \in ParserKinds, NEW bytes \in Seq(ByteKinds)
  PROVE  Quiet(feed(p, bytes).buffer)
<1>1. PICK r \in ParserKinds : r = [p EXCEPT !.buffer = @ \o bytes]
  <2>1. p.buffer \o bytes \in Seq(ByteKinds)
    BY ConcatProperties DEF ParserKinds
  <2> QED
    BY <2>1 DEF ParserKinds
<1>2. feed(p, bytes) = TakeLines(r)
  BY <1>1 DEF feed
<1>3. PICK n \in Nat : n = Len(r.buffer)
  BY LenProperties DEF ParserKinds
<1>4. PICK run \in [0..n -> ParserKinds] :
        /\ run[0] = r
        /\ \A i \in 1..n : run[i] = TakeLine(run[i - 1])
        /\ TakeLines(r) = run[n]
  BY <1>3, TakeRun
<1> DEFINE G == {k \in 0..n : Quiet(run[k].buffer) \/ Len(run[k].buffer) <= n - k}
<1>5. 0 \in G
  BY <1>3, <1>4
<1>6. ASSUME NEW k \in 1..n, k - 1 \in G PROVE k \in G
  <2>1. PICK m \in Nat \ {0} : m = n - (k - 1)
    OBVIOUS
  <2>2. k - 1 \in 0..n /\ k \in 0..n /\ n - k = m - 1
    BY <2>1
  <2>3. PICK q \in ParserKinds : q = run[k - 1]
    BY <2>2
  <2>4. Quiet(q.buffer) \/ Len(q.buffer) <= m
    BY <1>6, <2>1, <2>3
  <2>5. Quiet(TakeLine(q).buffer) \/ Len(TakeLine(q).buffer) <= m - 1
    BY <2>4, TakeShortens
  <2>6. run[k] = TakeLine(q)
    BY <1>4, <2>3
  <2> QED
    BY <2>2, <2>5, <2>6
<1>7. n \in G
  <2> HIDE DEF G
  <2>1. 0..n \subseteq G
    BY <1>5, <1>6, Climb
  <2> QED
    BY <2>1
<1>8. PICK b \in Seq(ByteKinds) : b = run[n].buffer
  BY DEF ParserKinds
<1>9. Quiet(b) \/ Len(b) <= 0
  BY <1>7, <1>8
<1>10. Len(b) <= 0 => Quiet(b)
  BY LenProperties DEF Quiet
<1> QED
  BY <1>2, <1>4, <1>8, <1>9, <1>10

\* feed takes the lines that the bytes complete, and no other.
LEMMA FeedStreamed ==
  ASSUME NEW parts \in Nat \ {0}, NEW p \in ParserKinds, NEW bytes \in Seq(ByteKinds),
         NEW w \in Seq(ByteKinds), NEW lines, NEW tail \in Seq(ByteKinds), Quiet(tail),
         Streamed(p, bytes \o w, lines, parts, tail)
  PROVE  Streamed(feed(p, bytes), w, lines, parts, tail)
<1>0. PICK b \in Seq(ByteKinds) : b = p.buffer
  BY DEF ParserKinds
<1>1. PICK c \in Seq(ByteKinds) : c = b \o bytes
  BY ConcatProperties
<1>2. PICK r \in ParserKinds : r = [p EXCEPT !.buffer = c]
  BY DEF ParserKinds
<1>3. feed(p, bytes) = TakeLines(r)
  BY <1>0, <1>1, <1>2 DEF feed
<1>4. r.buffer \o w = b \o (bytes \o w)
  <2> DEFINE Cat(x, y) == x \o y
  <2>1. \A x, y, z \in Seq(ByteKinds) : Cat(Cat(x, y), z) = Cat(x, Cat(y, z))
    BY Concats
  <2> HIDE DEF Cat
  <2>2. Cat(Cat(b, bytes), w) = Cat(b, Cat(bytes, w))
    BY <2>1
  <2>3. (b \o bytes) \o w = b \o (bytes \o w)
    BY <2>2 DEF Cat
  <2>4. r.buffer = c
    BY <1>2 DEF ParserKinds
  <2> QED
    BY <1>1, <2>3, <2>4
<1>5. Streamed(r, w, lines, parts, tail)
  <2>1. PICK read \in Seq(SaidKinds), rest \in Seq(SaidKinds) :
          Streaming(p, bytes \o w, lines, parts, tail, read, rest)
    BY DEF Streamed
  <2>2. PICK v : v = bytes \o w
    OBVIOUS
  <2>3. /\ lines = read \o rest /\ Means(p, read)
        /\ b \o v = Stream(rest, parts) \o tail /\ Newlines(b \o v) = Len(rest)
    BY <1>0, <2>1, <2>2 DEF Streaming
  <2>4. Means(r, read)
    BY <1>2, <2>3, BufferApart
  <2>5. r.buffer \o w = b \o v
    BY <1>4, <2>2
  <2> QED
    BY <2>3, <2>4, <2>5 DEF Streaming, Streamed
<1>6. PICK n \in Nat : n = Len(r.buffer)
  BY LenProperties DEF ParserKinds
<1>7. PICK run \in [0..n -> ParserKinds] :
        /\ run[0] = r
        /\ \A i \in 1..n : run[i] = TakeLine(run[i - 1])
        /\ TakeLines(r) = run[n]
  BY <1>6, TakeRun
<1> DEFINE G == {k \in 0..n : Streamed(run[k], w, lines, parts, tail)}
<1>8. 0 \in G
  BY <1>5, <1>7
<1>9. ASSUME NEW k \in 1..n, k - 1 \in G PROVE k \in G
  <2>1. k - 1 \in 0..n /\ k \in 0..n
    OBVIOUS
  <2>2. PICK q \in ParserKinds : q = run[k - 1]
    BY <2>1
  <2>3. Streamed(TakeLine(q), w, lines, parts, tail)
    BY <1>9, <2>2, TakeStreamed
  <2>4. run[k] = TakeLine(q)
    BY <1>7, <2>2
  <2> QED
    BY <2>1, <2>3, <2>4
<1>10. n \in G
  <2> HIDE DEF G
  <2>1. 0..n \subseteq G
    BY <1>8, <1>9, Climb
  <2> QED
    BY <2>1
<1> QED
  BY <1>3, <1>7, <1>10

\* The callbacks do not count: they are posted as events.
LEMMA HeardApart ==
  ASSUME NEW parts, NEW p \in ParserKinds, NEW w, NEW lines, NEW tail,
         Streamed(p, w, lines, parts, tail), NEW h
  PROVE  Streamed([p EXCEPT !.heard = h], w, lines, parts, tail)
<1>1. PICK q : q = [p EXCEPT !.heard = h]
  OBVIOUS
<1>2. /\ q.content = p.content /\ q.reasoning = p.reasoning /\ q.finish = p.finish
      /\ q.usage = p.usage /\ q.tools = p.tools /\ q.done = p.done /\ q.buffer = p.buffer
  BY <1>1 DEF ParserKinds
<1>3. \A read : Means(p, read) => Means(q, read)
  BY <1>2, Zenon DEF Means
<1>4. \A read, rest : Streaming(p, w, lines, parts, tail, read, rest)
                        => Streaming(q, w, lines, parts, tail, read, rest)
  BY <1>2, <1>3, Zenon DEF Streaming
<1> QED
  BY <1>1, <1>4, Zenon DEF Streamed

-----------------------------------------------------------------------------
(* What the parser has is the reply that the lines make.                    *)

LEMMA EmptyFunction ==
  ASSUME NEW F(_), NEW S, S = {}
  PROVE  [i \in S |-> F(i)] = <<>>
<1>1. 1..0 = S
  OBVIOUS
<1>2. PICK t : t = [i \in 1..0 |-> F(i)]
  OBVIOUS
<1>3. t \in Seq(Nat) /\ Len(t) = 0
  BY <1>2, 0 \in Nat, IsASeq
<1>4. t = <<>>
  BY <1>3, EmptySeq
<1> QED
  BY <1>1, <1>2, <1>4

LEMMA JoinedEmpty ==
  ASSUME NEW S, NEW T, NEW g \in [S -> Seq(T)], NEW q \in Seq(S), Len(q) = 0
  PROVE  Joined(g, q) = <<>>
<1>1. PICK n \in Nat : n = Len(q)
  BY LenProperties
<1>2. \A i \in 1..n : g[q[i]] = <<>>
  BY <1>1
<1> QED
  BY <1>1, <1>2, GatheredNothing

LEMMA ToolsEmpty ==
  ASSUME NEW fs \in Seq(FragmentKinds), Len(fs) = 0
  PROVE  ToolsOf(fs) = <<>>
<1>1. DOMAIN fs = {}
  BY LenProperties
<1>2. IndicesIn(fs) = {}
  BY <1>1 DEF IndicesIn
<1>3. ASSUME NEW S, S = {} PROVE [i \in S |-> CallAt(fs, i)] = <<>>
  BY <1>3, EmptyFunction
<1> QED
  BY <1>2, <1>3 DEF ToolsOf

\* Before the first line.
LEMMA MeansNothing ==
  ASSUME NEW p, p.content = <<>> /\ p.reasoning = <<>> /\ p.finish = ""
                  /\ p.usage = 0 /\ p.done = FALSE /\ p.tools = <<>>,
         NEW lines \in Seq(LineKinds), Len(lines) = 0
  PROVE  Means(p, lines)
<1>1. FlattenSeq(<<>>) = <<>>
  BY DEF FlattenSeq
<1>2. Joined(ContentIn, lines) = <<>>
  BY FieldsIn, JoinedEmpty
<1>3. Joined(ReasoningIn, lines) = <<>>
  BY FieldsIn, JoinedEmpty
<1>4. Joined(FinishIn, lines) = <<>>
  BY FieldsIn, JoinedEmpty
<1>5. Joined(UsageIn, lines) = <<>>
  BY FieldsIn, JoinedEmpty
<1>6. Joined(CallsIn, lines) = <<>>
  BY FieldsIn, JoinedEmpty
<1>7. ToolsOf(<<>>) = <<>>
  <2>1. <<>> \in Seq(FragmentKinds) /\ Len(<<>>) = 0
    BY EmptySeq
  <2> QED
    BY <2>1, ToolsEmpty
<1>8. ~ \E i \in DOMAIN lines : lines[i].kind = "done"
  <2>1. DOMAIN lines = {}
    BY ONLY lines \in Seq(LineKinds), Len(lines) = 0, LenProperties
  <2> QED
    BY <2>1
<1>9. \A default : LastOf(<<>>, default) = default
  BY DEF LastOf
<1> QED
  BY <1>1, <1>2, <1>3, <1>4, <1>5, <1>6, <1>7, <1>8, <1>9, Zenon DEF Means

LEMMA FieldsGiven ==
  ASSUME NEW lines \in Seq(LineKinds)
  PROVE  /\ Given(lines, LAMBDA line : line.content) = Joined(ContentIn, lines)
         /\ Given(lines, LAMBDA line : line.reasoning) = Joined(ReasoningIn, lines)
         /\ Given(lines, LAMBDA line : line.finish) = Joined(FinishIn, lines)
         /\ Given(lines, LAMBDA line : line.usage) = Joined(UsageIn, lines)
         /\ Given(lines, LAMBDA line : line.calls) = Joined(CallsIn, lines)
<1>1. PICK n \in Nat : n = Len(lines)
  BY LenProperties
<1>2. DOMAIN lines = 1..n /\ \A i \in 1..n : lines[i] \in LineKinds
  BY <1>1, LenProperties, ElementOfSeq
<1>3. [i \in DOMAIN lines |-> lines[i].content] = Gathered(ContentIn, lines)
  BY <1>2 DEF Gathered, ContentIn
<1>4. [i \in DOMAIN lines |-> lines[i].reasoning] = Gathered(ReasoningIn, lines)
  BY <1>2 DEF Gathered, ReasoningIn
<1>5. [i \in DOMAIN lines |-> lines[i].finish] = Gathered(FinishIn, lines)
  BY <1>2 DEF Gathered, FinishIn
<1>6. [i \in DOMAIN lines |-> lines[i].usage] = Gathered(UsageIn, lines)
  BY <1>2 DEF Gathered, UsageIn
<1>7. [i \in DOMAIN lines |-> lines[i].calls] = Gathered(CallsIn, lines)
  BY <1>2 DEF Gathered, CallsIn
<1> QED
  BY <1>3, <1>4, <1>5, <1>6, <1>7 DEF Given, Joined

LEMMA PartsGiven ==
  ASSUME NEW fs \in Seq(FragmentKinds), NEW i
  PROVE  /\ Part(fs, i, LAMBDA f : f.id) = Joined(IdOf(i), fs)
         /\ Part(fs, i, LAMBDA f : f.name) = Joined(NameOf(i), fs)
         /\ Part(fs, i, LAMBDA f : f.arguments) = Joined(ArgumentsOf(i), fs)
<1>1. PICK n \in Nat : n = Len(fs)
  BY LenProperties
<1>2. DOMAIN fs = 1..n /\ \A k \in 1..n : fs[k] \in FragmentKinds
  BY <1>1, LenProperties, ElementOfSeq
<1>3. [k \in DOMAIN fs |-> IF fs[k].index = i THEN fs[k].id ELSE <<>>] = Gathered(IdOf(i), fs)
  BY <1>2 DEF Gathered, IdOf
<1>4. [k \in DOMAIN fs |-> IF fs[k].index = i THEN fs[k].name ELSE <<>>] = Gathered(NameOf(i), fs)
  BY <1>2 DEF Gathered, NameOf
<1>5. [k \in DOMAIN fs |-> IF fs[k].index = i THEN fs[k].arguments ELSE <<>>]
        = Gathered(ArgumentsOf(i), fs)
  BY <1>2 DEF Gathered, ArgumentsOf
<1> QED
  BY <1>3, <1>4, <1>5 DEF Part, Given, Joined

LEMMA MeansReply ==
  ASSUME NEW p \in ParserKinds, NEW lines \in Seq(LineKinds), Means(p, lines)
  PROVE  \A field \in DOMAIN Reply(lines) : p[field] = Reply(lines)[field]
<1>1. PICK said : said = Reply(lines)
  OBVIOUS
<1>2. PICK fs \in Seq(FragmentKinds) : fs = Joined(CallsIn, lines)
  BY FieldsIn, GatheredType
<1>3. PICK made : made =
        [i \in {fs[k].index : k \in DOMAIN fs} |->
           [id |-> LastOf(Part(fs, i, LAMBDA f : f.id), ""),
            name |-> LastOf(Part(fs, i, LAMBDA f : f.name), ""),
            arguments |-> FlattenSeq(Part(fs, i, LAMBDA f : f.arguments))]]
  OBVIOUS
<1>4. made = ToolsOf(fs)
  <2>1. \A i : /\ Part(fs, i, LAMBDA f : f.id) = Joined(IdOf(i), fs)
               /\ Part(fs, i, LAMBDA f : f.name) = Joined(NameOf(i), fs)
               /\ Part(fs, i, LAMBDA f : f.arguments) = Joined(ArgumentsOf(i), fs)
    BY PartsGiven
  <2> QED
    BY <1>3, <2>1, Zenon DEF ToolsOf, CallAt, IndicesIn
<1>5. said = [content |-> FlattenSeq(Joined(ContentIn, lines)),
              reasoning |-> FlattenSeq(Joined(ReasoningIn, lines)),
              finish |-> LastOf(Joined(FinishIn, lines), ""),
              usage |-> LastOf(Joined(UsageIn, lines), 0),
              done |-> \E i \in DOMAIN lines : lines[i].kind = "done",
              tools |-> made]
  <2>1. /\ Given(lines, LAMBDA line : line.content) = Joined(ContentIn, lines)
        /\ Given(lines, LAMBDA line : line.reasoning) = Joined(ReasoningIn, lines)
        /\ Given(lines, LAMBDA line : line.finish) = Joined(FinishIn, lines)
        /\ Given(lines, LAMBDA line : line.usage) = Joined(UsageIn, lines)
        /\ Given(lines, LAMBDA line : line.calls) = fs
    BY <1>2, FieldsGiven
  <2>2. said = [content |-> FlattenSeq(Given(lines, LAMBDA line : line.content)),
                reasoning |-> FlattenSeq(Given(lines, LAMBDA line : line.reasoning)),
                finish |-> LastOf(Given(lines, LAMBDA line : line.finish), ""),
                usage |-> LastOf(Given(lines, LAMBDA line : line.usage), 0),
                done |-> \E i \in DOMAIN lines : lines[i].kind = "done",
                tools |-> made]
    BY ONLY <1>1, <1>3, <2>1, Zenon DEF Reply
  <2> QED
    BY ONLY <2>1, <2>2, Zenon
<1>6. DOMAIN said = {"content", "reasoning", "finish", "usage", "done", "tools"}
  BY <1>5
<1>7. /\ said.content = FlattenSeq(Joined(ContentIn, lines))
      /\ said.reasoning = FlattenSeq(Joined(ReasoningIn, lines))
      /\ said.finish = LastOf(Joined(FinishIn, lines), "")
      /\ said.usage = LastOf(Joined(UsageIn, lines), 0)
      /\ said.done = (\E i \in DOMAIN lines : lines[i].kind = "done")
      /\ said.tools = made
  BY <1>5
<1>8. /\ p.content = said.content /\ p.reasoning = said.reasoning /\ p.finish = said.finish
      /\ p.usage = said.usage /\ p.tools = said.tools
  BY <1>2, <1>4, <1>7 DEF Means
<1>9. p.done = said.done
  <2>1. p.done \in BOOLEAN
    BY DEF ParserKinds
  <2>2. p.done <=> \E i \in DOMAIN lines : lines[i].kind = "done"
    BY Zenon DEF Means
  <2> QED
    BY <1>7, <2>1, <2>2, Zenon
<1> QED
  BY <1>1, <1>6, <1>8, <1>9

-----------------------------------------------------------------------------
(* The stream grows.                                                        *)

\* One more line is sent.
LEMMA StreamMore ==
  ASSUME NEW parts \in Nat \ {0}, NEW p \in ParserKinds, NEW w \in Seq(ByteKinds),
         NEW lines \in Seq(LineKinds), NEW line \in SaidKinds,
         Streamed(p, w, lines, parts, <<>>)
  PROVE  Streamed(p, w \o Bytes(line, parts), Append(lines, line), parts, <<>>)
<1>1. PICK read \in Seq(SaidKinds), rest \in Seq(SaidKinds) :
        Streaming(p, w, lines, parts, <<>>, read, rest)
  BY DEF Streamed
<1>2. PICK b \in Seq(ByteKinds) : b = p.buffer
  BY DEF ParserKinds
<1>3. PICK s \in Seq(ByteKinds) : s = b \o w
  BY ConcatProperties
<1>4. line \in LineKinds /\ rest \in Seq(LineKinds)
  BY SaidLines DEF SaidKinds
<1>5. PICK l \in Seq(ByteKinds) : l = Bytes(line, parts)
  <2>1. PICK n \in Nat : n = parts + 1
    OBVIOUS
  <2> QED
    BY <1>4, <2>1, BytesAre
<1>6. PICK one \in Seq(SaidKinds) : one = <<line>>
  <2>1. <<line>> \in Seq(SaidKinds)
    OBVIOUS
  <2> QED
    BY <2>1
<1>7. one \in Seq(LineKinds)
  BY SaidLines
<1>8. PICK more \in Seq(SaidKinds) : more = rest \o one
  BY ConcatProperties
<1>9. /\ lines = read \o rest /\ Means(p, read)
      /\ s = Stream(rest, parts) \o <<>> /\ Newlines(s) = Len(rest)
  BY <1>1, <1>2, <1>3 DEF Streaming
<1>10. PICK t \in Seq(ByteKinds) : t = Stream(rest, parts) /\ s = t
  <2>1. Stream(rest, parts) \in Seq(ByteKinds)
    BY <1>4, StreamConcat
  <2>2. \A u \in Seq(ByteKinds) : u \o <<>> = u
    BY ConcatEmptySeq
  <2> QED
    BY <1>9, <2>1, <2>2
<1>11. Stream(more, parts) = t \o l
  <2>1. Stream(rest \o one, parts) = Stream(rest, parts) \o Stream(one, parts)
    BY <1>4, <1>7, StreamConcat
  <2>2. Stream(one, parts) = l
    BY <1>4, <1>5, <1>6, StreamOne
  <2> QED
    BY <1>8, <1>10, <2>1, <2>2
<1>12. PICK v \in Seq(ByteKinds) : v = t \o l
  BY ConcatProperties
<1>13. b \o (w \o l) = v
  <2> DEFINE Cat(x, y) == x \o y
  <2>1. \A x, y, z \in Seq(ByteKinds) : Cat(Cat(x, y), z) = Cat(x, Cat(y, z))
    BY Concats
  <2> HIDE DEF Cat
  <2>2. Cat(Cat(b, w), l) = Cat(b, Cat(w, l))
    BY <2>1
  <2>3. (b \o w) \o l = b \o (w \o l)
    BY <2>2 DEF Cat
  <2> QED
    BY <1>3, <1>10, <1>12, <2>3
<1>14. v = Stream(more, parts) \o <<>>
  <2>1. \A u \in Seq(ByteKinds) : u \o <<>> = u
    BY ConcatEmptySeq
  <2> QED
    BY <1>11, <1>12, <2>1
<1>15. Newlines(v) = Len(more)
  <2>1. PICK k \in Nat : k = Len(rest)
    BY LenProperties
  <2>2. Newlines(t \o l) = Newlines(t) + Newlines(l)
    BY NewlinesConcat
  <2>3. Newlines(l) = 1
    BY <1>4, <1>5, NewlinesOne
  <2>4. Len(more) = Len(rest) + Len(one)
    BY <1>8, ConcatProperties
  <2>5. Len(one) = 1
    BY <1>6
  <2>6. Newlines(t) = k
    BY <1>9, <1>10, <2>1
  <2> QED
    BY <1>12, <2>1, <2>2, <2>3, <2>4, <2>5, <2>6
<1>16. Append(lines, line) = read \o more
  <2> DEFINE Cat(x, y) == x \o y
  <2>1. \A x, y, z \in Seq(SaidKinds) : Cat(Cat(x, y), z) = Cat(x, Cat(y, z))
    BY Concats
  <2> HIDE DEF Cat
  <2>2. Cat(Cat(read, rest), one) = Cat(read, Cat(rest, one))
    BY <2>1
  <2>3. (read \o rest) \o one = read \o (rest \o one)
    BY <2>2 DEF Cat
  <2>4. Append(lines, line) = lines \o one
    BY <1>4, <1>6, AppendIsConcat
  <2> QED
    BY <1>8, <1>9, <2>3, <2>4
<1>17. /\ Append(lines, line) = read \o more /\ Means(p, read)
       /\ p.buffer \o (w \o l) = Stream(more, parts) \o <<>>
       /\ Newlines(p.buffer \o (w \o l)) = Len(more)
  BY <1>2, <1>9, <1>13, <1>14, <1>15, <1>16
<1>18. Streaming(p, w \o l, Append(lines, line), parts, <<>>, read, more)
  BY <1>17 DEF Streaming
<1> QED
  BY <1>5, <1>18 DEF Streamed

\* A line whose newline is missing is sent.
LEMMA StreamTail ==
  ASSUME NEW parts \in Nat \ {0}, NEW p \in ParserKinds, NEW w \in Seq(ByteKinds),
         NEW lines, NEW tail \in Seq(ByteKinds), Quiet(tail),
         Streamed(p, w, lines, parts, <<>>)
  PROVE  Streamed(p, w \o tail, lines, parts, tail)
<1>1. PICK read \in Seq(SaidKinds), rest \in Seq(SaidKinds) :
        Streaming(p, w, lines, parts, <<>>, read, rest)
  BY DEF Streamed
<1>2. PICK b \in Seq(ByteKinds) : b = p.buffer
  BY DEF ParserKinds
<1>3. PICK s \in Seq(ByteKinds) : s = b \o w
  BY ConcatProperties
<1>4. rest \in Seq(LineKinds)
  BY SaidLines
<1>9. /\ lines = read \o rest /\ Means(p, read)
      /\ s = Stream(rest, parts) \o <<>> /\ Newlines(s) = Len(rest)
  BY <1>1, <1>2, <1>3 DEF Streaming
<1>10. s = Stream(rest, parts)
  <2>1. Stream(rest, parts) \in Seq(ByteKinds)
    BY <1>4, StreamConcat
  <2>2. \A u \in Seq(ByteKinds) : u \o <<>> = u
    BY ConcatEmptySeq
  <2> QED
    BY <1>9, <2>1, <2>2
<1>11. PICK v \in Seq(ByteKinds) : v = s \o tail
  BY ConcatProperties
<1>12. b \o (w \o tail) = v
  <2> DEFINE Cat(x, y) == x \o y
  <2>1. \A x, y, z \in Seq(ByteKinds) : Cat(Cat(x, y), z) = Cat(x, Cat(y, z))
    BY Concats
  <2> HIDE DEF Cat
  <2>2. Cat(Cat(b, w), tail) = Cat(b, Cat(w, tail))
    BY <2>1
  <2>3. (b \o w) \o tail = b \o (w \o tail)
    BY <2>2 DEF Cat
  <2> QED
    BY <1>3, <1>11, <2>3
<1>13. Newlines(v) = Len(rest)
  <2>1. PICK k \in Nat : k = Len(rest)
    BY LenProperties
  <2>2. Newlines(s \o tail) = Newlines(s) + Newlines(tail)
    BY NewlinesConcat
  <2>3. Newlines(tail) = 0
    <3>1. PICK n \in Nat : n = Len(tail)
      BY LenProperties
    <3>2. \A i \in 1..n : ~IsNewline(tail[i])
      BY <3>1, LenProperties DEF Quiet
    <3> QED
      BY <3>1, <3>2, NewlinesNone
  <2> QED
    BY <1>9, <1>11, <2>1, <2>2, <2>3
<1>14. /\ p.buffer \o (w \o tail) = Stream(rest, parts) \o tail
       /\ Newlines(p.buffer \o (w \o tail)) = Len(rest)
  BY <1>2, <1>10, <1>11, <1>12, <1>13
<1>15. Streaming(p, w \o tail, lines, parts, tail, read, rest)
  BY <1>9, <1>14 DEF Streaming
<1> QED
  BY <1>15 DEF Streamed

\* Nothing is sent yet.
LEMMA StreamNothing ==
  ASSUME NEW parts \in Nat \ {0}
  PROVE  Streamed(NewParser, <<>>, <<>>, parts, <<>>) /\ Quiet(NewParser.buffer)
<1>1. /\ NewParser.content = <<>> /\ NewParser.reasoning = <<>> /\ NewParser.finish = ""
      /\ NewParser.usage = 0 /\ NewParser.done = FALSE /\ NewParser.tools = <<>>
      /\ NewParser.buffer = <<>>
  BY DEF NewParser
<1>2. PICK e \in Seq(SaidKinds) : e = <<>> /\ Len(e) = 0
  BY EmptySeq
<1>3. e \in Seq(LineKinds)
  BY SaidLines
<1>4. Means(NewParser, e)
  BY <1>1, <1>2, <1>3, MeansNothing
<1>5. PICK b \in Seq(ByteKinds) : b = <<>> /\ Len(b) = 0
  BY EmptySeq
<1>6. Quiet(b)
  BY <1>5, LenProperties DEF Quiet
<1>7. Stream(e, parts) = <<>>
  <2>1. BytesIn(parts) \in [LineKinds -> Seq(ByteKinds)]
    BY BytesInType
  <2> QED
    BY <1>2, <1>3, <2>1, JoinedEmpty DEF Stream
<1>8. Newlines(b) = 0
  <2>1. PICK n \in Nat : n = 0
    OBVIOUS
  <2>2. n = Len(b) /\ \A i \in 1..n : ~IsNewline(b[i])
    BY <1>5, <2>1
  <2> QED
    BY <2>2, NewlinesNone
<1>9. /\ e = e \o e /\ b \o b = b
  BY <1>2, <1>5, ConcatEmptySeq
<1>10. Streaming(NewParser, b, e, parts, b, e, e)
  BY <1>1, <1>2, <1>4, <1>5, <1>7, <1>8, <1>9, Zenon DEF Streaming
<1>11. Streamed(NewParser, b, e, parts, b)
  BY <1>10 DEF Streamed
<1> QED
  BY <1>1, <1>2, <1>5, <1>6, <1>11

LEMMA NothingQuiet == <<>> \in Seq(ByteKinds) /\ Quiet(<<>>)
<1>1. PICK b \in Seq(ByteKinds) : b = <<>> /\ Len(b) = 0
  BY EmptySeq
<1>2. Quiet(b)
  BY <1>1, LenProperties DEF Quiet
<1> QED
  BY <1>1, <1>2

\* A line without its newline.
LEMMA UnendedQuiet ==
  ASSUME NEW parts \in Nat \ {0}, NEW line \in LineKinds
  PROVE  /\ SubSeq(Bytes(line, parts), 1, parts) \in Seq(ByteKinds)
         /\ Quiet(SubSeq(Bytes(line, parts), 1, parts))
<1>1. PICK n \in Nat : n = parts + 1
  OBVIOUS
<1>2. PICK s \in Seq(ByteKinds) : s = Bytes(line, parts)
  BY <1>1, BytesAre
<1>3. Len(s) = n /\ \A i \in 1..n : s[i] = [line |-> line, of |-> parts, part |-> IF i = n THEN 0 ELSE i]
  <2>1. SpellsOut(s, line, parts, n)
    BY <1>1, <1>2, BytesSpell
  <2> QED
    BY <2>1 DEF SpellsOut
<1>4. PICK c \in Seq(ByteKinds) : c = SubSeq(s, 1, parts)
  <2>1. 1 \in Nat /\ 1 >= 1 /\ parts \in Nat /\ parts <= Len(s)
    BY <1>1, <1>3
  <2> QED
    BY <2>1, SliceType
<1>5. Len(c) = parts /\ \A i \in 1..parts : c[i] = s[i]
  <2>1. \A i \in 1..parts : s[i] \in ByteKinds
    <3>1. \A i \in 1..parts : i \in 1..Len(s)
      BY <1>1, <1>3
    <3> QED
      BY <3>1, ElementOfSeq
  <2>2. /\ Len(c) = IF 1 <= parts THEN parts - 1 + 1 ELSE 0
        /\ \A i \in 1..(parts - 1 + 1) : c[i] = s[1 + i - 1]
    BY <1>4, <2>1, SubSeqProperties
  <2>3. parts - 1 + 1 = parts /\ 1 <= parts /\ \A i \in 1..parts : 1 + i - 1 = i
    OBVIOUS
  <2> QED
    BY <2>2, <2>3
<1>6. \A i \in 1..parts : ~IsNewline(c[i])
  <2> SUFFICES ASSUME NEW i \in 1..parts PROVE c[i].part # 0
    BY DEF IsNewline
  <2>1. i \in 1..n /\ i # n /\ i # 0
    BY <1>1
  <2>2. s[i].part = i
    BY <1>3, <2>1
  <2> QED
    BY <1>5, <2>1, <2>2
<1>7. Quiet(c)
  BY <1>5, <1>6, LenProperties DEF Quiet
<1> QED
  BY <1>2, <1>4, <1>7

LEMMA Cut ==
  ASSUME NEW S, NEW s \in Seq(S), NEW n \in 1..Len(s)
  PROVE  /\ SubSeq(s, 1, n) \in Seq(S) /\ SubSeq(s, n + 1, Len(s)) \in Seq(S)
         /\ s = SubSeq(s, 1, n) \o SubSeq(s, n + 1, Len(s))
<1>1. PICK m \in Nat : m = Len(s)
  BY LenProperties
<1>2. n \in 1..m
  BY <1>1
<1>3. SubSeq(s, 1, n) \in Seq(S)
  BY <1>1, <1>2, SliceType
<1>4. SubSeq(s, n + 1, m) \in Seq(S)
  BY <1>1, <1>2, SliceType
<1>5. SubSeq(s, 1, n) \o SubSeq(s, n + 1, m) = SubSeq(s, 1, m)
  <2>1. 1 \in 1..(Len(s) + 1) /\ n \in (1 - 1)..Len(s) /\ m \in n..Len(s)
    BY <1>1, <1>2
  <2> QED
    BY <2>1, ConcatAdjacentSubSeq
<1>6. SubSeq(s, 1, m) = s
  BY <1>1, SubSeqFull
<1> QED
  BY <1>1, <1>3, <1>4, <1>5, <1>6

\* The lines before those whose newline is still to come.
LEMMA ReadIs ==
  ASSUME NEW w \in Seq(ByteKinds), NEW p \in ParserKinds, Quiet(p.buffer),
         NEW lines \in Seq(LineKinds), NEW parts, NEW tail,
         NEW read \in Seq(SaidKinds), NEW rest \in Seq(SaidKinds),
         Streaming(p, w, lines, parts, tail, read, rest)
  PROVE  SubSeq(lines, 1, Len(lines) - Newlines(w)) = read
<1>1. PICK b \in Seq(ByteKinds) : b = p.buffer
  BY DEF ParserKinds
<1>2. PICK n \in Nat : n = Len(b)
  BY LenProperties
<1>3. Newlines(b) = 0
  <2>1. \A i \in 1..n : ~IsNewline(b[i])
    BY <1>1, <1>2, LenProperties DEF Quiet
  <2> QED
    BY <1>2, <2>1, NewlinesNone
<1>4. PICK k \in Nat : k = Newlines(w)
  BY NewlinesFinite
<1>5. PICK m \in Nat : m = Len(rest)
  BY LenProperties
<1>6. lines = read \o rest /\ Newlines(b \o w) = m
  BY <1>1, <1>5 DEF Streaming
<1>7. k = m
  <2>1. Newlines(b \o w) = Newlines(b) + Newlines(w)
    BY NewlinesConcat
  <2> QED
    BY <1>3, <1>4, <1>6, <2>1
<1>8. PICK l \in Nat : l = Len(read)
  BY LenProperties
<1>9. PICK s \in Seq(SaidKinds) : s = read \o rest
  BY ConcatProperties
<1>10. Len(s) = l + m /\ \A i \in 1..(l + m) : s[i] = IF i <= l THEN read[i] ELSE rest[i - l]
  BY <1>5, <1>8, <1>9, ConcatProperties
<1>11. PICK c \in Seq(SaidKinds) : c = SubSeq(s, 1, l)
  <2>1. 1 \in Nat /\ 1 >= 1 /\ l \in Nat /\ l <= Len(s)
    BY <1>10
  <2> QED
    BY <2>1, SliceType
<1>12. Len(c) = l /\ \A i \in 1..l : c[i] = s[i]
  <2>1. \A i \in 1..l : s[i] \in SaidKinds
    <3>1. \A i \in 1..l : i \in 1..Len(s)
      BY <1>10
    <3> QED
      BY <3>1, ElementOfSeq
  <2>2. /\ Len(c) = IF 1 <= l THEN l - 1 + 1 ELSE 0
        /\ \A i \in 1..(l - 1 + 1) : c[i] = s[1 + i - 1]
    BY <1>11, <2>1, SubSeqProperties
  <2>3. l - 1 + 1 = l /\ (1 <= l \/ l = 0) /\ \A i \in 1..l : 1 + i - 1 = i
    OBVIOUS
  <2> QED
    BY <2>2, <2>3
<1>13. \A i \in 1..l : c[i] = read[i]
  <2>1. \A i \in 1..l : i \in 1..(l + m) /\ i <= l
    OBVIOUS
  <2> QED
    BY <1>10, <1>12, <2>1
<1>14. c = read
  BY <1>8, <1>12, <1>13, SeqEqual
<1>15. Len(lines) - Newlines(w) = l
  BY <1>4, <1>6, <1>7, <1>9, <1>10
<1> QED
  BY <1>6, <1>9, <1>11, <1>14, <1>15

-----------------------------------------------------------------------------
(* The view.                                                                *)

Speakers == {"", "* ", "> ", "error"}

EntryKinds ==
  [kind : Kinds, speaker : Speakers, text : TextKinds, collapsed : BOOLEAN]

ViewKinds == [entries : Seq(EntryKinds), scroll : {0}]

\* w has the entries of v, whose texts and folds may have changed.
Keeps(w, v) ==
  /\ Len(v.entries) <= Len(w.entries)
  /\ \A i \in 1..Len(v.entries) :
       /\ w.entries[i].kind = v.entries[i].kind
       /\ w.entries[i].speaker = v.entries[i].speaker

LEMMA KeepsTransitive ==
  ASSUME NEW u \in ViewKinds, NEW v \in ViewKinds, NEW w \in ViewKinds,
         Keeps(v, u), Keeps(w, v)
  PROVE  Keeps(w, u)
<1>1. /\ Len(u.entries) \in Nat /\ Len(v.entries) \in Nat /\ Len(w.entries) \in Nat
  BY LenProperties DEF ViewKinds
<1> QED
  BY <1>1 DEF Keeps

\* w has one more entry than v.
LEMMA PushKeeps ==
  ASSUME NEW v \in ViewKinds, NEW entry \in EntryKinds
  PROVE  LET w == [entries |-> Append(v.entries, entry), scroll |-> 0]
         IN  /\ w \in ViewKinds
             /\ Keeps(w, v)
             /\ Len(w.entries) = Len(v.entries) + 1
             /\ w.entries[Len(w.entries)] = entry
<1> DEFINE w == [entries |-> Append(v.entries, entry), scroll |-> 0]
<1>1. v.entries \in Seq(EntryKinds)
  BY DEF ViewKinds
<1>2. Len(v.entries) \in Nat
  BY <1>1, LenProperties
<1>3. /\ Append(v.entries, entry) \in Seq(EntryKinds)
      /\ Len(Append(v.entries, entry)) = Len(v.entries) + 1
      /\ Append(v.entries, entry)[Len(v.entries) + 1] = entry
      /\ \A i \in 1..Len(v.entries) : Append(v.entries, entry)[i] = v.entries[i]
  BY <1>1, AppendProperties
<1>4. w.entries = Append(v.entries, entry) /\ w \in ViewKinds
  BY <1>3 DEF ViewKinds
<1> HIDE DEF w
<1>5. Keeps(w, v)
  BY <1>2, <1>3, <1>4 DEF Keeps
<1> QED
  BY <1>3, <1>4, <1>5 DEF w

LEMMA AnswerKept ==
  ASSUME NEW e, NEW f, f.speaker = e.speaker, IsAnswer(e)
  PROVE  IsAnswer(f)
<1> QED
  BY Zenon DEF IsAnswer

LEMMA AddKeeps ==
  ASSUME NEW v \in ViewKinds, NEW speaker \in Speakers, NEW text \in TextKinds
  PROVE  /\ add(v, speaker, text) \in ViewKinds
         /\ Keeps(add(v, speaker, text), v)
         /\ Len(add(v, speaker, text).entries) = Len(v.entries) + 1
         /\ add(v, speaker, text).entries[Len(v.entries) + 1].speaker = speaker
<1> DEFINE entry == [kind |-> "Normal", speaker |-> speaker, text |-> text, collapsed |-> FALSE]
<1>1. entry \in EntryKinds /\ entry.speaker = speaker
  BY DEF EntryKinds, Kinds
<1>2. add(v, speaker, text) = [entries |-> Append(v.entries, entry), scroll |-> 0]
  BY DEF add, Push
<1> HIDE DEF entry
<1> QED
  BY <1>1, <1>2, PushKeeps

LEMMA ThinkingKeeps ==
  ASSUME NEW v \in ViewKinds
  PROVE  /\ add_thinking(v) \in ViewKinds
         /\ Keeps(add_thinking(v), v)
         /\ Len(add_thinking(v).entries) = Len(v.entries) + 1
         /\ add_thinking(v).entries[Len(v.entries) + 1].kind = "Thinking"
<1> DEFINE entry == [kind |-> "Thinking", speaker |-> "", text |-> <<>>, collapsed |-> FALSE]
<1>1. entry \in EntryKinds /\ entry.kind = "Thinking"
  BY DEF EntryKinds, Kinds, Speakers, TextKinds
<1>2. add_thinking(v) = [entries |-> Append(v.entries, entry), scroll |-> 0]
  BY DEF add_thinking, Push
<1> HIDE DEF entry
<1> QED
  BY <1>1, <1>2, PushKeeps

LEMMA ToolKeeps ==
  ASSUME NEW v \in ViewKinds, NEW text \in TextKinds
  PROVE  add_tool_output(v, text) \in ViewKinds /\ Keeps(add_tool_output(v, text), v)
<1> DEFINE entry == [kind |-> "Tool", speaker |-> "", text |-> text, collapsed |-> TRUE]
<1>1. entry \in EntryKinds
  BY DEF EntryKinds, Kinds, Speakers
<1>2. add_tool_output(v, text) = [entries |-> Append(v.entries, entry), scroll |-> 0]
  BY DEF add_tool_output, Push
<1> HIDE DEF entry
<1> QED
  BY <1>1, <1>2, PushKeeps

LEMMA AppendKeeps ==
  ASSUME NEW v \in ViewKinds, NEW i, NEW text \in TextKinds
  PROVE  LET w == append_to(v, i, text)
         IN  w \in ViewKinds /\ Keeps(w, v) /\ Len(w.entries) = Len(v.entries)
<1>1. v.entries \in Seq(EntryKinds)
  BY DEF ViewKinds
<1>2. Len(v.entries) \in Nat /\ DOMAIN v.entries = 1..Len(v.entries)
  BY <1>1, LenProperties
<1>3. CASE i \notin DOMAIN v.entries
  BY <1>2, <1>3 DEF append_to, Keeps
<1>4. CASE i \in DOMAIN v.entries
  <2> DEFINE entry == [v.entries[i] EXCEPT !.text = @ \o text]
             es == [v.entries EXCEPT ![i] = entry]
             w == [entries |-> es, scroll |-> 0]
  <2>1. append_to(v, i, text) = w
    BY <1>4 DEF append_to
  <2>2. v.entries[i] \in EntryKinds
    BY <1>1, <1>4
  <2>3. v.entries[i].text \o text \in TextKinds
    BY <2>2 DEF EntryKinds, TextKinds
  <2>4. /\ entry \in EntryKinds /\ entry.kind = v.entries[i].kind
        /\ entry.speaker = v.entries[i].speaker
    BY <2>2, <2>3 DEF EntryKinds
  <2> HIDE DEF entry
  <2>5. es \in Seq(EntryKinds) /\ Len(es) = Len(v.entries)
    BY <1>1, <1>4, <2>4, ExceptSeq
  <2>6. \A j \in 1..Len(v.entries) : es[j] = IF j = i THEN entry ELSE v.entries[j]
    BY <1>2
  <2>7. w \in ViewKinds /\ w.entries = es
    BY <2>5 DEF ViewKinds
  <2> HIDE DEF es, w
  <2>8. Keeps(w, v)
    BY <1>2, <2>4, <2>5, <2>6, <2>7 DEF Keeps
  <2> QED
    BY <2>1, <2>5, <2>7, <2>8
<1> QED
  BY <1>3, <1>4

\* An entry is folded or unfolded.
LEMMA FoldKeeps ==
  ASSUME NEW v \in ViewKinds, NEW i \in DOMAIN v.entries, NEW c \in BOOLEAN
  PROVE  LET w == [v EXCEPT !.entries[i].collapsed = c]
         IN  w \in ViewKinds /\ Keeps(w, v) /\ Len(w.entries) = Len(v.entries)
<1> DEFINE entry == [v.entries[i] EXCEPT !.collapsed = c]
           es == [v.entries EXCEPT ![i] = entry]
           w == [v EXCEPT !.entries = es]
<1>1. v.entries \in Seq(EntryKinds)
  BY DEF ViewKinds
<1>2. Len(v.entries) \in Nat /\ DOMAIN v.entries = 1..Len(v.entries)
  BY <1>1, LenProperties
<1>3. v.entries[i] \in EntryKinds
  BY <1>1
<1>4. /\ entry \in EntryKinds /\ entry.kind = v.entries[i].kind
      /\ entry.speaker = v.entries[i].speaker
  BY <1>3 DEF EntryKinds
<1>5. [v EXCEPT !.entries[i].collapsed = c] = w
  BY DEF ViewKinds
<1> HIDE DEF entry
<1>6. es \in Seq(EntryKinds) /\ Len(es) = Len(v.entries)
  BY <1>1, <1>4, ExceptSeq
<1>7. \A j \in 1..Len(v.entries) : es[j] = IF j = i THEN entry ELSE v.entries[j]
  BY <1>2
<1>8. w \in ViewKinds /\ w.entries = es
  BY <1>6 DEF ViewKinds
<1> HIDE DEF es, w
<1>9. Keeps(w, v)
  BY <1>2, <1>4, <1>6, <1>7, <1>8 DEF Keeps
<1> QED
  BY <1>5, <1>6, <1>8, <1>9

\* Tab folds an entry or opens it, if there is one to fold.
LEMMA ToggleIs ==
  ASSUME NEW v \in ViewKinds
  PROVE  LET w == toggle_last_collapsible(v)
         IN  \/ w = v
             \/ \E i \in DOMAIN v.entries, b \in BOOLEAN :
                  w = [v EXCEPT !.entries[i].collapsed = b]
<1> DEFINE C == {i \in DOMAIN v.entries : Collapsible(v.entries[i])}
<1>1. v.entries \in Seq(EntryKinds)
  BY DEF ViewKinds
<1>2. Len(v.entries) \in Nat /\ DOMAIN v.entries = 1..Len(v.entries)
  BY <1>1, LenProperties
<1>3. CASE C = {}
  BY <1>3 DEF toggle_last_collapsible
<1>4. CASE C # {}
  <2>1. \E i \in C : \A j \in C : i >= j
    BY <1>2, <1>4, LastPlace
  <2>2. Max(C) \in C
    BY <2>1 DEF Max
  <2>3. PICK i \in DOMAIN v.entries : i = Max(C)
    BY <2>2
  <2>4. toggle_last_collapsible(v) = [v EXCEPT !.entries[Max(C)].collapsed = ~@]
    BY <1>4 DEF toggle_last_collapsible
  <2> HIDE DEF C
  <2>5. toggle_last_collapsible(v) = [v EXCEPT !.entries[i].collapsed = ~@]
    BY <2>3, <2>4
  <2>6. v.entries[i] \in EntryKinds
    BY <1>1
  <2> DEFINE b == ~v.entries[i].collapsed
  <2>7. b \in BOOLEAN
    OBVIOUS
  <2>8. toggle_last_collapsible(v) = [v EXCEPT !.entries[i].collapsed = b]
    BY <2>5, <2>6 DEF ViewKinds, EntryKinds
  <2> HIDE DEF b
  <2> QED
    BY <2>7, <2>8
<1> QED
  BY <1>3, <1>4

LEMMA ToggleKeeps ==
  ASSUME NEW v \in ViewKinds
  PROVE  LET w == toggle_last_collapsible(v)
         IN  w \in ViewKinds /\ Keeps(w, v) /\ Len(w.entries) = Len(v.entries)
<1>1. CASE toggle_last_collapsible(v) = v
  <2>1. Len(v.entries) \in Nat
    BY LenProperties DEF ViewKinds
  <2> QED
    BY <1>1, <2>1 DEF Keeps
<1>2. CASE toggle_last_collapsible(v) # v
  <2>1. PICK i \in DOMAIN v.entries, b \in BOOLEAN :
          toggle_last_collapsible(v) = [v EXCEPT !.entries[i].collapsed = b]
    BY <1>2, ToggleIs
  <2> QED
    BY <2>1, FoldKeeps
<1> QED
  BY <1>1, <1>2

-----------------------------------------------------------------------------
(* One event, and a queue of them.                                          *)

UiKinds ==
  [chat_ : ViewKinds, thinking_idx_ : Nat, content_idx_ : Nat, busy_ : BOOLEAN]

EventTypes ==
  {"Delta", "Reasoning", "ToolInfo", "ToolResult", "Done", "Canceled", "Error"}

EventKinds == [type : EventTypes, text : TextKinds]

\* The indices of the view are of entries after the one of the message, of their kind.
PointsIn(u, from) ==
  /\ from <= Len(u.chat_.entries)
  /\ u.thinking_idx_ # 0 =>
       /\ u.thinking_idx_ \in from + 1..Len(u.chat_.entries)
       /\ u.chat_.entries[u.thinking_idx_].kind = "Thinking"
  /\ u.content_idx_ # 0 =>
       /\ u.content_idx_ \in from + 1..Len(u.chat_.entries)
       /\ IsAnswer(u.chat_.entries[u.content_idx_])

\* A step from u to w: what an index points at stays, or is an entry made by the step.
Steps(w, u) ==
  /\ Keeps(w.chat_, u.chat_)
  /\ \/ w.thinking_idx_ = u.thinking_idx_
     \/ /\ w.thinking_idx_ \in Len(u.chat_.entries) + 1..Len(w.chat_.entries)
        /\ w.chat_.entries[w.thinking_idx_].kind = "Thinking"
  /\ \/ w.content_idx_ \in {0, u.content_idx_}
     \/ /\ w.content_idx_ \in Len(u.chat_.entries) + 1..Len(w.chat_.entries)
        /\ IsAnswer(w.chat_.entries[w.content_idx_])

LEMMA PointsKept ==
  ASSUME NEW u \in UiKinds, NEW from \in Nat, PointsIn(u, from),
         NEW w \in UiKinds, Steps(w, u)
  PROVE  PointsIn(w, from)
<1>1. PICK m \in Nat : m = Len(u.chat_.entries)
  BY LenProperties DEF UiKinds, ViewKinds
<1>2. PICK n \in Nat : n = Len(w.chat_.entries)
  BY LenProperties DEF UiKinds, ViewKinds
<1>3. PICK i \in Nat : i = w.thinking_idx_
  BY DEF UiKinds
<1>4. PICK j \in Nat : j = w.content_idx_
  BY DEF UiKinds
<1>5. /\ from <= m /\ m <= n
      /\ \A k \in 1..m : /\ w.chat_.entries[k].kind = u.chat_.entries[k].kind
                         /\ w.chat_.entries[k].speaker = u.chat_.entries[k].speaker
  BY <1>1, <1>2 DEF PointsIn, Steps, Keeps
<1>a. from <= m /\ m <= n
  BY <1>5
<1>6. from <= n
  BY ONLY <1>a, from \in Nat, m \in Nat, n \in Nat
<1>7. ASSUME i # 0 PROVE i \in from + 1..n /\ w.chat_.entries[i].kind = "Thinking"
  <2>1. CASE i = u.thinking_idx_
    <3>1. i \in from + 1..m /\ u.chat_.entries[i].kind = "Thinking"
      BY <1>1, <1>7, <2>1 DEF PointsIn
    <3>2. i \in 1..m /\ i \in from + 1..n
      BY ONLY <1>a, <3>1, from \in Nat, m \in Nat, n \in Nat
    <3> QED
      BY <1>5, <3>1, <3>2
  <2>2. CASE i # u.thinking_idx_
    <3>1. i \in m + 1..n /\ w.chat_.entries[i].kind = "Thinking"
      BY <1>1, <1>2, <1>3, <2>2 DEF Steps
    <3>2. i \in from + 1..n
      BY ONLY <1>a, <3>1, from \in Nat, m \in Nat, n \in Nat
    <3> QED
      BY <3>1, <3>2
  <2> QED
    BY <2>1, <2>2
<1>8. ASSUME j # 0 PROVE j \in from + 1..n /\ IsAnswer(w.chat_.entries[j])
  <2>1. CASE j = u.content_idx_
    <3>1. j \in from + 1..m /\ IsAnswer(u.chat_.entries[j])
      BY <1>1, <1>8, <2>1 DEF PointsIn
    <3>2. j \in 1..m /\ j \in from + 1..n
      BY ONLY <1>a, <3>1, from \in Nat, m \in Nat, n \in Nat
    <3>3. w.chat_.entries[j].speaker = u.chat_.entries[j].speaker
      BY <1>5, <3>2
    <3> QED
      BY <3>1, <3>2, <3>3, AnswerKept
  <2>2. CASE j # u.content_idx_
    <3>1. j \in m + 1..n /\ IsAnswer(w.chat_.entries[j])
      BY <1>1, <1>2, <1>4, <1>8, <2>2 DEF Steps
    <3>2. j \in from + 1..n
      BY ONLY <1>a, <3>1, from \in Nat, m \in Nat, n \in Nat
    <3> QED
      BY <3>1, <3>2
  <2> QED
    BY <2>1, <2>2
<1> QED
  BY <1>2, <1>3, <1>4, <1>6, <1>7, <1>8 DEF PointsIn

LEMMA KeepsItself == ASSUME NEW v \in ViewKinds PROVE Keeps(v, v)
<1>1. Len(v.entries) \in Nat
  BY LenProperties DEF ViewKinds
<1> QED
  BY <1>1 DEF Keeps

LEMMA FoldedKeeps ==
  ASSUME NEW u \in UiKinds
  PROVE  LET w == Folded(u)
         IN  w \in ViewKinds /\ Keeps(w, u.chat_)
               /\ Len(w.entries) = Len(u.chat_.entries)
<1>1. u.chat_ \in ViewKinds
  BY DEF UiKinds
<1>2. Len(u.chat_.entries) \in Nat
  BY <1>1, LenProperties DEF ViewKinds
<1>3. Keeps(u.chat_, u.chat_)
  BY <1>2 DEF Keeps
<1>4. CASE Folded(u) = u.chat_
  BY <1>1, <1>3, <1>4
<1>5. CASE Folded(u) # u.chat_
  <2> DEFINE i == u.thinking_idx_
  <2>1. i \in DOMAIN u.chat_.entries
    BY <1>5 DEF Folded, set_collapsed
  <2>2. Folded(u) = [u.chat_ EXCEPT !.entries[i].collapsed = TRUE]
    BY <1>5 DEF Folded, set_collapsed
  <2> HIDE DEF i
  <2>3. TRUE \in BOOLEAN
    OBVIOUS
  <2> QED
    BY <1>1, <2>1, <2>2, <2>3, FoldKeeps
<1> QED
  BY <1>4, <1>5

LEMMA ShowReasoningStep ==
  ASSUME NEW u \in UiKinds, NEW text \in TextKinds
  PROVE  LET w == ShowReasoning(u, text)
         IN  w \in UiKinds /\ w.busy_ = u.busy_ /\ Steps(w, u)
<1> DEFINE v == IF u.thinking_idx_ = 0 THEN add_thinking(u.chat_) ELSE u.chat_
           i == IF u.thinking_idx_ = 0 THEN Len(v.entries) ELSE u.thinking_idx_
           x == append_to(v, i, text)
           w == [u EXCEPT !.chat_ = x, !.thinking_idx_ = i]
<1>1. ShowReasoning(u, text) = w
  BY DEF ShowReasoning
<1>2. u.chat_ \in ViewKinds /\ u.thinking_idx_ \in Nat /\ Len(u.chat_.entries) \in Nat
  BY LenProperties DEF UiKinds, ViewKinds
<1>3. /\ v \in ViewKinds /\ Keeps(v, u.chat_) /\ i \in Nat
      /\ \/ i = u.thinking_idx_
         \/ /\ i \in Len(u.chat_.entries) + 1..Len(v.entries)
            /\ i \in 1..Len(v.entries)
            /\ v.entries[i].kind = "Thinking"
  <2>1. CASE u.thinking_idx_ = 0
    <3>2. v = add_thinking(u.chat_)
      BY <2>1
    <3>5. /\ v \in ViewKinds /\ Keeps(v, u.chat_)
          /\ Len(v.entries) = Len(u.chat_.entries) + 1
          /\ v.entries[Len(v.entries)].kind = "Thinking"
      <4> HIDE DEF v
      <4> QED
        BY <1>2, <3>2, ThinkingKeeps
    <3>6. i = Len(v.entries)
      BY <2>1
    <3> HIDE DEF v, i
    <3>7. i \in Nat /\ i \in Len(u.chat_.entries) + 1..Len(v.entries) /\ i \in 1..Len(v.entries)
      BY <1>2, <3>5, <3>6
    <3> QED
      BY <3>5, <3>6, <3>7
  <2>2. CASE u.thinking_idx_ # 0
    <3>1. v = u.chat_ /\ i = u.thinking_idx_
      BY <2>2
    <3> HIDE DEF v, i
    <3> QED
      BY <1>2, <3>1, KeepsItself
  <2> QED
    BY <2>1, <2>2
<1> HIDE DEF v, i
<1>4. x \in ViewKinds /\ Keeps(x, v) /\ Len(x.entries) = Len(v.entries)
  BY <1>3, AppendKeeps
<1> HIDE DEF x
<1>5. Keeps(x, u.chat_)
  BY <1>2, <1>3, <1>4, KeepsTransitive
<1>6. i \in 1..Len(v.entries) => x.entries[i].kind = v.entries[i].kind
  BY <1>4 DEF Keeps
<1>7. /\ w \in UiKinds /\ w.busy_ = u.busy_ /\ w.chat_ = x /\ w.thinking_idx_ = i
      /\ w.content_idx_ = u.content_idx_
  BY <1>3, <1>4 DEF UiKinds
<1> HIDE DEF w
<1>8. Steps(w, u)
  BY <1>3, <1>4, <1>5, <1>6, <1>7 DEF Steps
<1> QED
  BY <1>1, <1>7, <1>8

LEMMA ShowDeltaStep ==
  ASSUME NEW u \in UiKinds, NEW text \in TextKinds
  PROVE  LET w == ShowDelta(u, text)
         IN  w \in UiKinds /\ w.busy_ = u.busy_ /\ Steps(w, u)
<1> DEFINE star == "* "
<1> DEFINE v == IF u.content_idx_ = 0 THEN add(Folded(u), star, <<>>) ELSE u.chat_
           i == IF u.content_idx_ = 0 THEN Len(v.entries) ELSE u.content_idx_
           x == append_to(v, i, text)
           w == [u EXCEPT !.chat_ = x, !.content_idx_ = i]
<1>1. ShowDelta(u, text) = w
  BY Zenon DEF ShowDelta
<1>0. star \in Speakers /\ \A e : e.speaker = star => IsAnswer(e)
  BY Zenon DEF Speakers, IsAnswer
<1> HIDE DEF star
<1>2. u.chat_ \in ViewKinds /\ u.content_idx_ \in Nat /\ Len(u.chat_.entries) \in Nat
  BY LenProperties DEF UiKinds, ViewKinds
<1>3. /\ v \in ViewKinds /\ Keeps(v, u.chat_) /\ i \in Nat
      /\ \/ i = u.content_idx_
         \/ /\ i \in Len(u.chat_.entries) + 1..Len(v.entries)
            /\ i \in 1..Len(v.entries)
            /\ IsAnswer(v.entries[i])
  <2>1. CASE u.content_idx_ = 0
    <3>1. <<>> \in TextKinds
      BY DEF TextKinds
    <3>2. v = add(Folded(u), star, <<>>)
      BY <2>1
    <3>3. PICK f \in ViewKinds :
            f = Folded(u) /\ Keeps(f, u.chat_) /\ Len(f.entries) = Len(u.chat_.entries)
      BY FoldedKeeps
    <3>5. /\ v \in ViewKinds /\ Keeps(v, u.chat_)
          /\ Len(v.entries) = Len(u.chat_.entries) + 1
          /\ IsAnswer(v.entries[Len(v.entries)])
      <4>1. v = add(f, star, <<>>)
        BY <3>2, <3>3
      <4> HIDE DEF v
      <4>2. /\ v \in ViewKinds /\ Keeps(v, f) /\ Len(v.entries) = Len(f.entries) + 1
            /\ IsAnswer(v.entries[Len(v.entries)])
        BY <1>0, <3>1, <4>1, AddKeeps
      <4>3. Keeps(v, u.chat_)
        BY <1>2, <3>3, <4>2, KeepsTransitive
      <4> QED
        BY <3>3, <4>2, <4>3
    <3>6. i = Len(v.entries)
      BY <2>1
    <3> HIDE DEF v, i
    <3>7. i \in Nat /\ i \in Len(u.chat_.entries) + 1..Len(v.entries) /\ i \in 1..Len(v.entries)
      BY <1>2, <3>5, <3>6
    <3> QED
      BY <3>5, <3>6, <3>7
  <2>2. CASE u.content_idx_ # 0
    <3>1. v = u.chat_ /\ i = u.content_idx_
      BY <2>2
    <3> HIDE DEF v, i
    <3> QED
      BY <1>2, <3>1, KeepsItself
  <2> QED
    BY <2>1, <2>2
<1> HIDE DEF v, i
<1>4. x \in ViewKinds /\ Keeps(x, v) /\ Len(x.entries) = Len(v.entries)
  BY <1>3, AppendKeeps
<1> HIDE DEF x
<1>5. Keeps(x, u.chat_)
  BY <1>2, <1>3, <1>4, KeepsTransitive
<1>6. i \in 1..Len(v.entries) /\ IsAnswer(v.entries[i]) => IsAnswer(x.entries[i])
  BY <1>4, AnswerKept DEF Keeps
<1>7. /\ w \in UiKinds /\ w.busy_ = u.busy_ /\ w.chat_ = x /\ w.content_idx_ = i
      /\ w.thinking_idx_ = u.thinking_idx_
  BY <1>3, <1>4 DEF UiKinds
<1> HIDE DEF w
<1>8. Steps(w, u)
  BY <1>3, <1>4, <1>5, <1>6, <1>7 DEF Steps
<1> QED
  BY <1>1, <1>7, <1>8

LEMMA ShowToolStep ==
  ASSUME NEW u \in UiKinds, NEW event \in EventKinds
  PROVE  LET w == ShowTool(u, event)
         IN  w \in UiKinds /\ w.busy_ = u.busy_ /\ Steps(w, u)
<1> DEFINE x == IF event.type = "ToolInfo" THEN add(u.chat_, "", event.text)
                ELSE add_tool_output(u.chat_, event.text)
           w == [u EXCEPT !.chat_ = x, !.content_idx_ = 0]
<1>1. ShowTool(u, event) = w
  BY DEF ShowTool, UiKinds
<1>2. u.chat_ \in ViewKinds /\ event.text \in TextKinds
  BY DEF UiKinds, EventKinds
<1>3. "" \in Speakers
  BY Zenon DEF Speakers
<1>4. x \in ViewKinds /\ Keeps(x, u.chat_)
  BY <1>2, <1>3, AddKeeps, ToolKeeps
<1> HIDE DEF x
<1>5. /\ w \in UiKinds /\ w.busy_ = u.busy_ /\ w.chat_ = x /\ w.content_idx_ = 0
      /\ w.thinking_idx_ = u.thinking_idx_
  BY <1>4 DEF UiKinds
<1> HIDE DEF w
<1> QED
  BY <1>1, <1>4, <1>5 DEF Steps

LEMMA ShowEndStep ==
  ASSUME NEW u \in UiKinds, NEW event \in EventKinds, Joins(event)
  PROVE  LET w == ShowEnd(u, event)
         IN  w \in UiKinds /\ w.busy_ = FALSE /\ Steps(w, u)
<1>1. u.chat_ \in ViewKinds
  BY DEF UiKinds
<1>2. <<>> \in TextKinds
  BY DEF TextKinds
<1>3. "" \in Speakers /\ "error" \in Speakers
  BY Zenon DEF Speakers
<1>4. PICK f \in ViewKinds : f = Folded(u) /\ Keeps(f, u.chat_)
  BY FoldedKeeps
<1>5. PICK x \in ViewKinds :
        Keeps(x, u.chat_) /\ ShowEnd(u, event) = [u EXCEPT !.chat_ = x, !.busy_ = FALSE]
  <2>1. CASE event.type = "Done"
    BY <1>4, <2>1 DEF ShowEnd
  <2>2. CASE event.type = "Canceled"
    <3> DEFINE y == add(f, "", <<>>)
    <3>1. ShowEnd(u, event) = [u EXCEPT !.chat_ = y, !.busy_ = FALSE]
      BY <1>4, <2>2 DEF ShowEnd
    <3>2. y \in ViewKinds /\ Keeps(y, f)
      BY <1>2, <1>3, AddKeeps
    <3> HIDE DEF y
    <3>3. Keeps(y, u.chat_)
      BY <1>1, <1>4, <3>2, KeepsTransitive
    <3> QED
      BY <3>1, <3>2, <3>3
  <2>3. CASE event.type = "Error"
    <3> DEFINE y == add(u.chat_, "error", <<>>)
    <3>1. ShowEnd(u, event) = [u EXCEPT !.chat_ = y, !.busy_ = FALSE]
      BY <2>3 DEF ShowEnd, UiKinds
    <3>2. y \in ViewKinds /\ Keeps(y, u.chat_)
      BY <1>1, <1>2, <1>3, AddKeeps
    <3> HIDE DEF y
    <3> QED
      BY <3>1, <3>2
  <2> QED
    BY <2>1, <2>2, <2>3 DEF Joins
<1> DEFINE w == [u EXCEPT !.chat_ = x, !.busy_ = FALSE]
<1>6. /\ w \in UiKinds /\ w.busy_ = FALSE /\ w.chat_ = x
      /\ w.content_idx_ = u.content_idx_ /\ w.thinking_idx_ = u.thinking_idx_
  BY DEF UiKinds
<1> HIDE DEF w
<1> QED
  BY <1>5, <1>6 DEF w, Steps

\* One event: the view stays one, its indices keep pointing where they may, and only
\* a last event ends the turn.
LEMMA ShowStep ==
  ASSUME NEW u \in UiKinds, NEW event \in EventKinds
  PROVE  /\ Show(u, event) \in UiKinds
         /\ Steps(Show(u, event), u)
         /\ Joins(event) => Show(u, event).busy_ = FALSE
         /\ ~Joins(event) => Show(u, event).busy_ = u.busy_
<1>1. event.type \in EventTypes /\ event.text \in TextKinds
  BY DEF EventKinds
<1>2. CASE event.type = "Reasoning"
  <2>1. Show(u, event) = ShowReasoning(u, event.text) /\ ~Joins(event)
    BY <1>2 DEF Show, Joins
  <2> QED
    BY <1>1, <2>1, ShowReasoningStep
<1>3. CASE event.type = "Delta"
  <2>1. Show(u, event) = ShowDelta(u, event.text) /\ ~Joins(event)
    BY <1>3 DEF Show, Joins
  <2> QED
    BY <1>1, <2>1, ShowDeltaStep
<1>4. CASE event.type \in {"ToolInfo", "ToolResult"}
  <2>1. Show(u, event) = ShowTool(u, event) /\ ~Joins(event)
    BY <1>4 DEF Show, Joins
  <2> QED
    BY <2>1, ShowToolStep
<1>5. CASE event.type \in {"Done", "Canceled", "Error"}
  <2>1. Show(u, event) = ShowEnd(u, event) /\ Joins(event)
    BY <1>5 DEF Show, Joins
  <2> QED
    BY <2>1, ShowEndStep
<1> QED
  BY <1>1, <1>2, <1>3, <1>4, <1>5 DEF EventTypes

\* What DrainEvents shows, one event after the other.
LEMMA ShowRun ==
  ASSUME NEW u \in UiKinds, NEW q \in Seq(EventKinds)
  PROVE  \E run \in [0..Len(q) -> UiKinds] :
           /\ run[0] = u
           /\ \A i \in 1..Len(q) : run[i] = Show(run[i - 1], q[i])
           /\ FoldLeft(Show, u, q) = run[Len(q)]
<1>1. PICK n \in Nat : n = Len(q) /\ DOMAIN q = 1..n /\ \A i \in 1..n : q[i] \in EventKinds
  BY LenProperties, ElementOfSeq
<1> DEFINE F == [k \in 1..n |-> [v \in UiKinds |-> Show(v, q[k])]]
<1>2. F \in [1..n -> [UiKinds -> UiKinds]]
  BY <1>1, ShowStep
<1>0. PICK g \in [SUBSET (1..n) -> UiKinds] : Folds(g, u, n, F)
  <2> HIDE DEF F
  <2> QED
    BY <1>2, FoldExists
<1>3. PICK run \in [0..n -> UiKinds] : Runs(run, u, n, F)
  <2> HIDE DEF F
  <2> QED
    BY <1>2, FoldRun
<1>4. \A i \in 1..n : run[i] = Show(run[i - 1], q[i])
  <2>1. \A i \in 1..n : i - 1 \in 0..n
    OBVIOUS
  <2> QED
    BY <1>3, <2>1 DEF Runs
<1> DEFINE Eq(h) == h = [s \in SUBSET (1..n) |-> IF s = {} THEN u
                         ELSE Show(h[s \ {Max(s)}], q[Max(s)])]
<1>5. Eq(g)
  <2> SUFFICES ASSUME NEW s \in SUBSET (1..n), s # {}
               PROVE  F[Max(s)][g[s \ {Max(s)}]] = Show(g[s \ {Max(s)}], q[Max(s)])
    BY <1>0 DEF Folds
  <2>1. \E i \in s : \A j \in s : i >= j
    BY LastPlace
  <2>2. Max(s) \in 1..n
    BY <2>1 DEF Max
  <2>3. g[s \ {Max(s)}] \in UiKinds
    OBVIOUS
  <2> QED
    BY <2>2, <2>3
<1> DEFINE fold == CHOOSE h : Eq(h)
<1>6. Eq(fold)
  <2> HIDE DEF Eq
  <2> QED
    BY <1>5
<1>7. FoldLeft(Show, u, q) = fold[1..n]
  BY <1>1 DEF FoldLeft, MapThenFoldSet
<1> HIDE DEF fold, F
<1> DEFINE G == {i \in 0..n : fold[1..i] = run[i]}
<1>8. 0 \in G
  <2>1. 1..0 = {} /\ {} \in SUBSET (1..n)
    OBVIOUS
  <2>2. fold[{}] = u
    BY <1>6, <2>1
  <2> QED
    BY <1>3, <2>1, <2>2 DEF Runs
<1>9. ASSUME NEW i \in 1..n, i - 1 \in G PROVE i \in G
  <2>1. fold[1..i] = Show(fold[1..(i - 1)], q[i])
    <3>1. /\ 1..i \in SUBSET (1..n) /\ 1..i # {} /\ Max(1..i) = i
          /\ (1..i) \ {i} = 1..(i - 1)
      BY UpTo
    <3> QED
      BY <1>6, <3>1
  <2> QED
    BY <1>4, <1>9, <2>1
<1>10. n \in G
  <2> HIDE DEF G
  <2>1. 0..n \subseteq G
    BY <1>8, <1>9, Climb
  <2> QED
    BY <2>1
<1> QED
  BY <1>1, <1>3, <1>4, <1>7, <1>10 DEF Runs

\* A drained queue: the turn ends when its last event is one that joins the worker.
LEMMA ShowQueue ==
  ASSUME NEW u \in UiKinds, NEW q \in Seq(EventKinds), NEW from \in Nat,
         \A i \in 1..Len(q) : Joins(q[i]) => i = Len(q)
  PROVE  LET w == FoldLeft(Show, u, q)
         IN  /\ w \in UiKinds
             /\ PointsIn(u, from) => PointsIn(w, from)
             /\ (\E i \in DOMAIN q : Joins(q[i])) => w.busy_ = FALSE
             /\ ~(\E i \in DOMAIN q : Joins(q[i])) => w.busy_ = u.busy_
<1>1. PICK n \in Nat : n = Len(q) /\ DOMAIN q = 1..n /\ \A i \in 1..n : q[i] \in EventKinds
  BY LenProperties, ElementOfSeq
<1>2. PICK run \in [0..n -> UiKinds] :
        /\ run[0] = u
        /\ \A i \in 1..n : run[i] = Show(run[i - 1], q[i])
        /\ FoldLeft(Show, u, q) = run[n]
  BY <1>1, ShowRun
<1>3. ASSUME NEW i \in 1..n
      PROVE  /\ run[i - 1] \in UiKinds /\ run[i] \in UiKinds
             /\ Steps(run[i], run[i - 1])
             /\ Joins(q[i]) => run[i].busy_ = FALSE
             /\ ~Joins(q[i]) => run[i].busy_ = run[i - 1].busy_
  <2>1. i - 1 \in 0..n /\ i \in 0..n
    OBVIOUS
  <2>2. PICK v \in UiKinds : v = run[i - 1]
    BY <2>1
  <2>3. run[i] = Show(v, q[i]) /\ run[i] \in UiKinds
    BY <1>2, <2>1, <2>2
  <2>4. q[i] \in EventKinds
    BY <1>1
  <2>5. /\ Steps(run[i], v)
        /\ Joins(q[i]) => run[i].busy_ = FALSE
        /\ ~Joins(q[i]) => run[i].busy_ = v.busy_
    <3>1. /\ Steps(Show(v, q[i]), v)
          /\ Joins(q[i]) => Show(v, q[i]).busy_ = FALSE
          /\ ~Joins(q[i]) => Show(v, q[i]).busy_ = v.busy_
      BY <2>4, ShowStep
    <3> QED
      BY <2>3, <3>1, Zenon
  <2> QED
    BY <2>2, <2>3, <2>5, Zenon
<1>4. n \in 0..n
  OBVIOUS
<1>5. ASSUME PointsIn(u, from) PROVE PointsIn(run[n], from)
  <2> DEFINE G == {i \in 0..n : PointsIn(run[i], from)}
  <2>1. 0 \in G
    BY <1>2, <1>5
  <2>2. ASSUME NEW i \in 1..n, i - 1 \in G PROVE i \in G
    <3>1. PointsIn(run[i - 1], from)
      BY <2>2
    <3>2. PointsIn(run[i], from)
      BY <1>3, <3>1, PointsKept
    <3> QED
      BY <3>2
  <2> HIDE DEF G
  <2>3. 0..n \subseteq G
    BY <2>1, <2>2, Climb
  <2> QED
    BY <1>4, <2>3 DEF G
<1>6. ASSUME \E i \in 1..n : Joins(q[i]) PROVE run[n].busy_ = FALSE
  BY <1>1, <1>3, <1>6
<1>7. ASSUME ~\E i \in 1..n : Joins(q[i]) PROVE run[n].busy_ = u.busy_
  <2> DEFINE G == {i \in 0..n : run[i].busy_ = u.busy_}
  <2>1. 0 \in G
    BY <1>2
  <2>2. ASSUME NEW i \in 1..n, i - 1 \in G PROVE i \in G
    <3>1. run[i - 1].busy_ = u.busy_
      BY <2>2
    <3>2. run[i].busy_ = run[i - 1].busy_
      BY <1>3, <1>7, Zenon
    <3>3. i \in 0..n
      OBVIOUS
    <3>4. run[i].busy_ = u.busy_
      BY <3>1, <3>2, Zenon
    <3> QED
      BY <3>3, <3>4, Zenon
  <2> HIDE DEF G
  <2>3. 0..n \subseteq G
    BY <2>1, <2>2, Climb
  <2> QED
    BY <1>4, <2>3 DEF G
<1> QED
  BY <1>1, <1>2, <1>4, <1>5, <1>6, <1>7

-----------------------------------------------------------------------------
(* What the server sends.                                                   *)

\* The text of a line is of a round.
LineRounds(line, r) ==
  \A k \in DOMAIN line.content : \A j \in DOMAIN line.content[k] : line.content[k][j][1] = r

\* What may be written in a round are lines, of which what is no chunk says nothing,
\* and their text is of the round.
LEMMA WrittenSaid ==
  ASSUME NEW r \in Nat, NEW line \in Written(TextsOf(r), Names)
  PROVE  line \in SaidKinds /\ LineRounds(line, r)
<1> DEFINE fragments == [index : Int, id : Optional(Names), name : Optional(Names),
                         arguments : Optional(TextsOf(r))]
           chunks == [kind : {"chunk"}, content : Optional(TextsOf(r)),
                      reasoning : Optional(TextsOf(r)), calls : Seq(fragments),
                      finish : Optional(Names), usage : Optional(Nat)]
<1>1. ASSUME NEW S, NEW q \in Optional(S) PROVE q \in Seq(S) /\ Len(q) <= 1
  BY DEF Optional
<1>2. ASSUME NEW text \in TextsOf(r)
      PROVE  text \in TextKinds /\ \A j \in DOMAIN text : text[j][1] = r
  <2>1. PICK n \in Nat : n = Len(text) /\ DOMAIN text = 1..n /\ \A j \in 1..n : text[j] \in {r} \X Nat
    BY LenProperties, ElementOfSeq DEF TextsOf
  <2>2. \A w \in {r} \X Nat : w \in WordKinds /\ w[1] = r
    BY DEF WordKinds
  <2>3. text \in [1..n -> WordKinds]
    BY <2>1, <2>2, LenProperties DEF TextsOf
  <2> QED
    BY <2>1, <2>2, <2>3 DEF TextKinds
<1>3. ASSUME NEW texts \in Optional(TextsOf(r))
      PROVE  /\ texts \in Seq(TextKinds)
             /\ \A k \in DOMAIN texts : \A j \in DOMAIN texts[k] : texts[k][j][1] = r
  <2>1. texts \in Seq(TextsOf(r))
    BY <1>1
  <2>2. PICK n \in Nat : n = Len(texts) /\ DOMAIN texts = 1..n /\ \A k \in 1..n : texts[k] \in TextsOf(r)
    BY <2>1, LenProperties, ElementOfSeq
  <2>3. texts \in [1..n -> TextKinds]
    BY <1>2, <2>1, <2>2, LenProperties
  <2> QED
    BY <1>2, <2>2, <2>3
<1>4. ASSUME NEW f \in fragments PROVE f \in SaidFragments
  <2>1. /\ f = [index |-> f.index, id |-> f.id, name |-> f.name, arguments |-> f.arguments]
        /\ f.index \in Int /\ f.id \in Optional(Names) /\ f.name \in Optional(Names)
        /\ f.arguments \in Optional(TextsOf(r))
    OBVIOUS
  <2>2. f.id \in Seq(Names) /\ Len(f.id) <= 1
    BY <1>1, <2>1
  <2>3. f.name \in Seq(Names) /\ Len(f.name) <= 1
    BY <1>1, <2>1
  <2>4. f.arguments \in Seq(TextKinds)
    BY <1>3, <2>1
  <2>5. f \in FragmentKinds
    BY <2>1, <2>2, <2>3, <2>4, Zenon DEF FragmentKinds
  <2> QED
    BY <2>2, <2>3, <2>5 DEF SaidFragments
<1>5. CASE line \in chunks
  <2>1. /\ line = [kind |-> line.kind, content |-> line.content, reasoning |-> line.reasoning,
                   calls |-> line.calls, finish |-> line.finish, usage |-> line.usage]
        /\ line.kind = "chunk" /\ line.content \in Optional(TextsOf(r))
        /\ line.reasoning \in Optional(TextsOf(r)) /\ line.calls \in Seq(fragments)
        /\ line.finish \in Optional(Names) /\ line.usage \in Optional(Nat)
    BY <1>5
  <2> HIDE DEF fragments, chunks
  <2>2. line.content \in Seq(TextKinds) /\ LineRounds(line, r)
    BY <1>3, <2>1 DEF LineRounds
  <2>3. line.reasoning \in Seq(TextKinds)
    BY <1>3, <2>1
  <2>4. line.finish \in Seq(Names) /\ Len(line.finish) <= 1
    BY <1>1, <2>1
  <2>5. line.usage \in Seq(Nat) /\ Len(line.usage) <= 1
    BY <1>1, <2>1
  <2>6. PICK calls_ \in Seq(fragments) : calls_ = line.calls
    BY <2>1
  <2>7. PICK n \in Nat : n = Len(calls_) /\ \A k \in 1..n : calls_[k] \in fragments
    BY LenProperties, ElementOfSeq
  <2>8. calls_ \in [1..n -> SaidFragments]
    BY <1>4, <2>7, LenProperties
  <2>9. line.calls \in Seq(SaidFragments) /\ line.calls \in Seq(FragmentKinds)
    <3>1. calls_ \in [1..n -> FragmentKinds]
      BY <2>8 DEF SaidFragments
    <3> QED
      BY <2>6, <2>8, <3>1
  <2>10. line \in LineKinds
    BY <2>1, <2>2, <2>3, <2>4, <2>5, <2>9, Zenon DEF LineKinds
  <2> QED
    BY <2>1, <2>2, <2>4, <2>5, <2>9, <2>10 DEF SaidKinds
<1>6. CASE line \in {Silence, Done}
  <2>1. /\ line = [kind |-> line.kind, content |-> <<>>, reasoning |-> <<>>, calls |-> <<>>,
                   finish |-> <<>>, usage |-> <<>>]
        /\ line.kind \in {"skipped", "done"}
    BY <1>6 DEF Silence, Done
  <2>2. /\ <<>> \in Seq(TextKinds) /\ <<>> \in Seq(FragmentKinds) /\ <<>> \in Seq(SaidFragments)
        /\ <<>> \in Seq(Names) /\ <<>> \in Seq(Nat) /\ Len(<<>>) = 0
    OBVIOUS
  <2>3. PICK kind \in {"skipped", "chunk", "done"} : kind = line.kind
    BY <2>1
  <2> HIDE DEF fragments, chunks
  <2>4. line \in LineKinds
    <3>1. [kind |-> kind, content |-> <<>>, reasoning |-> <<>>, calls |-> <<>>,
           finish |-> <<>>, usage |-> <<>>] \in LineKinds
      BY <2>2, Zenon DEF LineKinds
    <3> QED
      BY <2>1, <2>3, <3>1
  <2>5. /\ line.content = <<>> /\ line.reasoning = <<>> /\ line.calls = <<>>
        /\ line.finish = <<>> /\ line.usage = <<>>
    BY <2>1
  <2>6. LineRounds(line, r)
    BY <2>5 DEF LineRounds
  <2>7. Len(line.finish) <= 1 /\ Len(line.usage) <= 1 /\ line.calls \in Seq(SaidFragments)
    BY <2>2, <2>5
  <2> QED
    BY <2>4, <2>5, <2>6, <2>7, Zenon DEF SaidKinds
<1> QED
  BY <1>5, <1>6 DEF Written

\* The one line of an error page is one that may be written.
LEMMA PageType ==
  ASSUME round \in Nat, sent \in Nat
  PROVE  Page \in SaidKinds /\ LineRounds(Page, round)
<1> DEFINE words == << << <<round, sent>> >> >>
<1>1. PICK r \in Nat : r = round /\ words \in Optional(TextsOf(r))
  <2>1. PICK r \in Nat, k \in Nat : r = round /\ k = sent
    OBVIOUS
  <2>2. << <<r, k>> >> \in Seq({r} \X Nat)
    OBVIOUS
  <2>3. PICK text \in TextsOf(r) : text = << <<r, k>> >>
    BY <2>2 DEF TextsOf
  <2>4. <<text>> \in Optional(TextsOf(r))
    BY DEF Optional
  <2> QED
    BY <2>1, <2>3, <2>4
<1>2. Page = [kind |-> "chunk", content |-> words, reasoning |-> <<>>, calls |-> <<>>,
              finish |-> <<>>, usage |-> <<>>]
  <2>1. ASSUME NEW q
        PROVE  Content(q) = [kind |-> "chunk", content |-> <<q>>, reasoning |-> <<>>,
                             calls |-> <<>>, finish |-> <<>>, usage |-> <<>>]
    <3>1. Chunk = [kind |-> "chunk", content |-> <<>>, reasoning |-> <<>>, calls |-> <<>>,
                   finish |-> <<>>, usage |-> <<>>]
      BY DEF Chunk, Silence
    <3>2. PICK given : given = <<q>>
      OBVIOUS
    <3>3. [Chunk EXCEPT !.content = given]
            = [kind |-> "chunk", content |-> given, reasoning |-> <<>>, calls |-> <<>>,
               finish |-> <<>>, usage |-> <<>>]
      BY <3>1
    <3> QED
      BY <3>2, <3>3, Zenon DEF Content
  <2> QED
    BY <2>1, Zenon DEF Page
<1> HIDE DEF words
<1>3. /\ <<>> \in Optional(TextsOf(r)) /\ <<>> \in Optional(Names) /\ <<>> \in Optional(Nat)
      /\ \A S : <<>> \in Seq(S)
  BY DEF Optional
<1>4. "chunk" \in {"chunk"}
  OBVIOUS
<1>5. Page \in Written(TextsOf(r), Names)
  BY <1>1, <1>2, <1>3, <1>4, Zenon DEF Written
<1> QED
  BY <1>1, <1>5, WrittenSaid

LEMMA SaysSaid ==
  ASSUME round \in 0..MaxRounds, sent \in 0..MaxTraffic, NEW line \in Says
  PROVE  line \in SaidKinds /\ LineRounds(line, round)
<1>0. MaxRounds \in Nat /\ MaxTraffic \in Nat
  BY StreamAssumption
<1>1. CASE status = 200
  <2>1. line \in Written(TextsOf(round), Names)
    BY <1>1, LinesAssumption DEF Says
  <2> QED
    BY <1>0, <2>1, WrittenSaid
<1>2. CASE status # 200
  BY <1>0, <1>2, PageType DEF Says
<1> QED
  BY <1>1, <1>2

LEMMA SaidType == ASSUME NEW line \in SaidKinds PROVE line \in LineKinds
BY DEF SaidKinds

LEMMA BytesType ==
  ASSUME Parts \in Nat, NEW line \in LineKinds
  PROVE  Bytes(line, Parts) \in Seq(ByteKinds) /\ Len(Bytes(line, Parts)) = Parts + 1
<1> DEFINE byte(i) == [line |-> line, of |-> Parts, part |-> IF i = Parts + 1 THEN 0 ELSE i]
<1>1. \A i \in 1..(Parts + 1) : byte(i) \in ByteKinds
  BY DEF ByteKinds
<1>2. Bytes(line, Parts) = [i \in 1..(Parts + 1) |-> byte(i)]
  BY DEF Bytes
<1>3. PICK n \in Nat : n = Parts + 1
  OBVIOUS
<1> HIDE DEF byte
<1> QED
  BY <1>1, <1>2, <1>3, IsASeq, LenProperties

-----------------------------------------------------------------------------
(* The inductive invariant.                                                 *)

NetTypes == /\ up \in {"none", "open", "ended", "broken"} /\ status \in Statuses
            /\ wire \in Seq(ByteKinds)

WorkTypes == /\ phase \in {"idle", "asking", "transfer", "calls", "posted"}
             /\ parser \in ParserKinds /\ round \in 0..MaxRounds /\ calls \in Nat

RestTypes == /\ queue \in Seq(EventKinds) /\ ui \in UiKinds
             /\ sent \in 0..MaxTraffic /\ turns \in Nat
             /\ reply \in Seq(LineKinds) /\ start \in Nat

\* The worker has calls left while it runs them, and a turn is open till its last
\* event is shown.
TurnOpen == /\ phase = "calls" <=> calls > 0
            /\ ui.busy_ <=> phase # "idle"

\* The worker's last event is the last of the queue, and nothing is left after it.
LastEvent ==
  /\ \A i \in 1..Len(queue) : Joins(queue[i]) => phase = "posted" /\ i = Len(queue)
  /\ phase = "posted" => queue # <<>> /\ Joins(queue[Len(queue)])
  /\ phase = "idle" => queue = <<>>

PointsHere == phase # "idle" => PointsIn(ui, start)

StreamInv == NetTypes /\ WorkTypes /\ RestTypes /\ TurnOpen /\ LastEvent /\ PointsHere

LEMMA NewParserType == NewParser \in ParserKinds
<1>1. /\ <<>> \in Seq(ByteKinds) /\ <<>> \in TextKinds /\ <<>> \in Seq(HeardKinds)
  BY DEF TextKinds
<1>2. <<>> \in ToolKinds
  <2>1. <<>> \in [{} -> CallKinds] /\ {} \in IndexSets
    BY FS_EmptySet DEF IndexSets
  <2> QED
    BY <2>1 DEF ToolKinds
<1>3. "" \in Names
  BY LinesAssumption
<1>4. 0 \in Nat /\ FALSE \in BOOLEAN
  OBVIOUS
<1> QED
  BY <1>1, <1>2, <1>3, <1>4, Zenon DEF NewParser, ParserKinds

LEMMA InitStream == Init => StreamInv
<1> SUFFICES ASSUME Init PROVE StreamInv
  OBVIOUS
<1>1. MaxRounds \in Nat /\ MaxTraffic \in Nat
  BY StreamAssumption
<1>3. ui \in UiKinds /\ ~ui.busy_
  <2> DEFINE entry == [kind |-> "Preformatted", speaker |-> "", text |-> <<"banner">>,
                       collapsed |-> FALSE]
             view == [entries |-> Append(<<>>, entry), scroll |-> 0]
  <2>1. <<"banner">> \in TextKinds
    BY DEF TextKinds, WordKinds
  <2>2. entry \in EntryKinds
    <3>1. "" \in Speakers
      BY Zenon DEF Speakers
    <3> QED
      BY <2>1, <3>1 DEF EntryKinds, Kinds
  <2>3. add_preformatted(EmptyView, <<"banner">>) = view
    BY DEF add_preformatted, Push, EmptyView
  <2> HIDE DEF entry
  <2>4. view \in ViewKinds
    BY <2>2 DEF ViewKinds
  <2> HIDE DEF view
  <2>5. ui = [chat_ |-> view, thinking_idx_ |-> 0, content_idx_ |-> 0, busy_ |-> FALSE]
    BY <2>3 DEF Init
  <2> QED
    BY <2>4, <2>5 DEF UiKinds
<1>4. NetTypes /\ WorkTypes
  BY <1>1, NewParserType DEF Init, NetTypes, WorkTypes, Statuses
<1>5. RestTypes
  BY <1>1, <1>3 DEF Init, RestTypes
<1>6. TurnOpen
  <2>1. phase = "idle" /\ calls = 0
    BY DEF Init
  <2> QED
    BY <1>3, <2>1 DEF TurnOpen
<1>7. LastEvent /\ PointsHere
  BY DEF Init, LastEvent, PointsHere
<1> QED
  BY <1>4, <1>5, <1>6, <1>7 DEF StreamInv

\* The worker's last event goes behind all others.
LEMMA PostLast ==
  ASSUME StreamInv, phase \notin {"idle", "posted"},
         NEW type \in {"Done", "Canceled", "Error"}, Post(Event(type, <<>>))
  PROVE  queue' \in Seq(EventKinds) /\ phase' = "posted" /\ LastEvent'
<1> DEFINE event == Event(type, <<>>)
<1>1. event \in EventKinds /\ Joins(event)
  BY DEF Event, EventKinds, EventTypes, TextKinds, Joins
<1>2. queue' = Append(queue, event) /\ phase' = "posted"
  BY DEF Post
<1> HIDE DEF event
<1>3. queue \in Seq(EventKinds)
  BY DEF StreamInv, RestTypes
<1>4. PICK n \in Nat : n = Len(queue)
  BY <1>3, LenProperties
<1>5. /\ queue' \in Seq(EventKinds) /\ Len(queue') = n + 1 /\ queue'[n + 1] = event
      /\ \A i \in 1..n : queue'[i] = queue[i]
  BY <1>1, <1>2, <1>3, <1>4, AppendProperties
<1>6. \A i \in 1..n : ~Joins(queue[i])
  BY <1>4 DEF StreamInv, LastEvent
<1>7. \A i \in 1..(n + 1) : i \in 1..n \/ i = n + 1
  OBVIOUS
<1>8. \A i \in 1..n : ~Joins(queue'[i])
  BY <1>5, <1>6
<1>9. \A i \in 1..(n + 1) : Joins(queue'[i]) => i = n + 1
  BY <1>7, <1>8
<1>10. queue' # <<>>
  BY <1>5, EmptySeq
<1> QED
  BY <1>1, <1>2, <1>5, <1>9, <1>10 DEF LastEvent

\* Other events, while the worker goes on.
LEMMA PostMore ==
  ASSUME StreamInv, phase \notin {"idle", "posted"}, phase' \notin {"idle", "posted"},
         NEW q \in Seq(EventKinds), \A i \in 1..Len(q) : ~Joins(q[i]), queue' = queue \o q
  PROVE  queue' \in Seq(EventKinds) /\ LastEvent'
<1>1. queue \in Seq(EventKinds)
  BY DEF StreamInv, RestTypes
<1>2. PICK n \in Nat : n = Len(queue)
  BY <1>1, LenProperties
<1>3. PICK m \in Nat : m = Len(q)
  BY LenProperties
<1>4. /\ queue' \in Seq(EventKinds) /\ Len(queue') = n + m
      /\ \A i \in 1..(n + m) : queue'[i] = IF i <= n THEN queue[i] ELSE q[i - n]
  BY <1>1, <1>2, <1>3, ConcatProperties
<1>5. \A i \in 1..n : ~Joins(queue[i])
  BY <1>2 DEF StreamInv, LastEvent
<1>6. \A i \in 1..(n + m) : i <= n => i \in 1..n
  OBVIOUS
<1>7. \A i \in 1..(n + m) : ~(i <= n) => i - n \in 1..m
  OBVIOUS
<1>8. \A i \in 1..(n + m) : ~Joins(queue'[i])
  BY <1>3, <1>4, <1>5, <1>6, <1>7
<1> QED
  BY <1>4, <1>8 DEF LastEvent

LEMMA ServerSendsStep == StreamInv /\ ServerSends => StreamInv'
<1> SUFFICES ASSUME StreamInv, ServerSends PROVE StreamInv'
  OBVIOUS
<1>1. PICK line \in Says : wire' = wire \o Bytes(line, Parts) /\ reply' = Append(reply, line)
  BY DEF ServerSends
<1>2. /\ round \in 0..MaxRounds /\ sent \in 0..MaxTraffic /\ reply \in Seq(LineKinds)
      /\ wire \in Seq(ByteKinds) /\ Parts \in Nat /\ MaxTraffic \in Nat /\ turns \in Nat
  BY StreamAssumption DEF StreamInv, WorkTypes, RestTypes, NetTypes
<1>3. line \in LineKinds
  BY <1>2, SaysSaid, SaidType
<1>4. wire' \in Seq(ByteKinds) /\ reply' \in Seq(LineKinds)
  BY <1>1, <1>2, <1>3, BytesType, ConcatProperties, AppendProperties
<1>5. /\ UNCHANGED <<up, status, workVars, queue, ui, cancel, turns, rounds, start, tabs>>
      /\ sent' = sent + 1 /\ sent + turns < MaxTraffic
  BY DEF ServerSends
<1>6. NetTypes' /\ WorkTypes' /\ RestTypes'
  BY <1>2, <1>4, <1>5 DEF StreamInv, NetTypes, WorkTypes, RestTypes, workVars
<1>7. TurnOpen' /\ LastEvent' /\ PointsHere'
  BY <1>5 DEF StreamInv, TurnOpen, LastEvent, PointsHere, workVars
<1> QED
  BY <1>6, <1>7 DEF StreamInv

LEMMA ServerEndsStep == StreamInv /\ ServerEnds => StreamInv'
<1> SUFFICES ASSUME StreamInv, ServerEnds PROVE StreamInv'
  OBVIOUS
<1>1. /\ round \in Nat /\ sent \in Nat /\ wire \in Seq(ByteKinds) /\ Parts \in Nat
      /\ MaxRounds \in Nat
  BY StreamAssumption DEF StreamInv, WorkTypes, RestTypes, NetTypes
<1>3. PICK line \in LineKinds : line = Page
  BY <1>1, PageType, SaidType
<1>4. wire' = wire \/ wire' = wire \o SubSeq(Bytes(line, Parts), 1, Parts)
  BY <1>3 DEF ServerEnds
<1>5. SubSeq(Bytes(line, Parts), 1, Parts) \in Seq(ByteKinds)
  <2>1. PICK b \in Seq(ByteKinds) : b = Bytes(line, Parts) /\ Len(b) = Parts + 1
    BY <1>1, <1>3, BytesType
  <2>2. \A i \in 1..Parts : i \in 1..Len(b)
    BY <1>1, <2>1
  <2> QED
    BY <1>1, <2>1, <2>2, SubSeqProperties
<1>6. wire' \in Seq(ByteKinds)
  BY <1>1, <1>4, <1>5, ConcatProperties
<1>7. /\ UNCHANGED <<status, workVars, queue, ui, cancel, turns, logVars>>
      /\ up' \in {"ended", "broken"}
  BY DEF ServerEnds
<1>8. NetTypes' /\ WorkTypes' /\ RestTypes'
  BY <1>6, <1>7 DEF StreamInv, NetTypes, WorkTypes, RestTypes, workVars, logVars
<1>9. TurnOpen' /\ LastEvent' /\ PointsHere'
  BY <1>7 DEF StreamInv, TurnOpen, LastEvent, PointsHere, workVars, logVars
<1> QED
  BY <1>8, <1>9 DEF StreamInv

LEMMA BeginRoundStep == StreamInv /\ BeginRound => StreamInv'
<1> SUFFICES ASSUME StreamInv, BeginRound PROVE StreamInv'
  OBVIOUS
<1>1. /\ phase = "asking" /\ ui.busy_
      /\ UNCHANGED <<calls, ui, cancel, turns, sent, rounds, start, tabs>>
  BY DEF BeginRound, StreamInv, TurnOpen
<1>2. MaxRounds \in Nat
  BY StreamAssumption
<1>3. CASE \E type \in {"Canceled", "Error"} :
             Post(Event(type, <<>>)) /\ UNCHANGED <<netVars, parser, round, reply>>
  <2>1. queue' \in Seq(EventKinds) /\ phase' = "posted" /\ LastEvent'
    BY <1>1, <1>3, PostLast
  <2>2. NetTypes' /\ WorkTypes' /\ RestTypes'
    BY <1>1, <1>3, <2>1 DEF StreamInv, NetTypes, WorkTypes, RestTypes, netVars
  <2>3. TurnOpen' /\ PointsHere'
    BY <1>1, <2>1 DEF StreamInv, TurnOpen, PointsHere
  <2> QED
    BY <2>1, <2>2, <2>3 DEF StreamInv
<1>4. CASE /\ round # MaxRounds /\ phase' = "transfer" /\ round' = round + 1
           /\ parser' = NewParser /\ reply' = <<>>
           /\ up' = "open" /\ status' \in Statuses /\ wire' = <<>>
           /\ UNCHANGED queue
  <2>1. NetTypes' /\ RestTypes'
    BY <1>1, <1>4 DEF StreamInv, NetTypes, RestTypes
  <2>2. WorkTypes'
    BY <1>1, <1>2, <1>4, NewParserType DEF StreamInv, WorkTypes
  <2>3. TurnOpen' /\ LastEvent' /\ PointsHere'
    BY <1>1, <1>4 DEF StreamInv, TurnOpen, LastEvent, PointsHere
  <2> QED
    BY <2>1, <2>2, <2>3 DEF StreamInv
<1> QED
  BY <1>3, <1>4 DEF BeginRound

LEMMA ReceiveStep == StreamInv /\ Receive => StreamInv'
<1> SUFFICES ASSUME StreamInv, Receive PROVE StreamInv'
  OBVIOUS
<1>1. PICK n \in 1..Len(wire) :
        /\ wire' = SubSeq(wire, n + 1, Len(wire))
        /\ IF status >= 400 THEN UNCHANGED <<parser, queue>>
           ELSE /\ parser' = [feed(parser, SubSeq(wire, 1, n)) EXCEPT !.heard = <<>>]
                /\ queue' = queue \o feed(parser, SubSeq(wire, 1, n)).heard
  BY DEF Receive
<1>2. /\ phase = "transfer"
      /\ UNCHANGED <<up, status, phase, round, calls, ui, cancel, turns, logVars>>
  BY DEF Receive
<1>3. wire \in Seq(ByteKinds) /\ parser \in ParserKinds
  BY DEF StreamInv, NetTypes, WorkTypes
<1>4. PICK m \in Nat : m = Len(wire)
  BY <1>3, LenProperties
<1>5. wire' \in Seq(ByteKinds) /\ SubSeq(wire, 1, n) \in Seq(ByteKinds)
  <2>1. n \in 1..m
    BY <1>4
  <2>2. (\A i \in (n + 1)..m : i \in 1..m) /\ (\A i \in 1..n : i \in 1..m)
    BY <2>1
  <2> QED
    BY <1>1, <1>3, <1>4, <2>1, <2>2, SubSeqProperties
<1>6. NetTypes'
  BY <1>2, <1>5 DEF StreamInv, NetTypes
<1>7. CASE status >= 400
  <2>1. UNCHANGED <<parser, queue>>
    BY <1>1, <1>7
  <2>2. WorkTypes' /\ RestTypes'
    BY <1>2, <2>1 DEF StreamInv, WorkTypes, RestTypes, logVars
  <2>3. TurnOpen' /\ LastEvent' /\ PointsHere'
    BY <1>2, <2>1 DEF StreamInv, TurnOpen, LastEvent, PointsHere, logVars
  <2> QED
    BY <1>6, <2>2, <2>3 DEF StreamInv
<1>8. CASE ~(status >= 400)
  <2>1. PICK fed \in ParserKinds : fed = feed(parser, SubSeq(wire, 1, n))
    BY <1>3, <1>5, FeedType
  <2>2. parser' = [fed EXCEPT !.heard = <<>>] /\ queue' = queue \o fed.heard
    BY <1>1, <1>8, <2>1
  <2>3. parser' \in ParserKinds
    <3>0. <<>> \in Seq(HeardKinds)
      OBVIOUS
    <3>1. PICK e \in Seq(HeardKinds) : e = <<>>
      BY <3>0
    <3> QED
      BY <2>2, <3>1 DEF ParserKinds
  <2>4. fed.heard \in Seq(HeardKinds)
    BY DEF ParserKinds
  <2>5. /\ fed.heard \in Seq(EventKinds)
        /\ \A i \in 1..Len(fed.heard) : ~Joins(fed.heard[i])
    <3>1. \A e \in HeardKinds : e \in EventKinds /\ ~Joins(e)
      BY DEF HeardKinds, EventKinds, EventTypes, Joins
    <3>2. \A i \in 1..Len(fed.heard) : fed.heard[i] \in HeardKinds
      BY <2>4, ElementOfSeq
    <3>3. PICK k \in Nat : k = Len(fed.heard) /\ fed.heard \in [1..k -> HeardKinds]
      BY <2>4, LenProperties
    <3>4. fed.heard \in [1..k -> EventKinds]
      BY <3>1, <3>3
    <3> QED
      BY <3>1, <3>2, <3>4
  <2>6. queue' \in Seq(EventKinds) /\ LastEvent'
    BY <1>2, <2>2, <2>5, PostMore
  <2>7. WorkTypes' /\ RestTypes'
    BY <1>2, <2>3, <2>6 DEF StreamInv, WorkTypes, RestTypes, logVars
  <2>8. TurnOpen' /\ PointsHere'
    BY <1>2 DEF StreamInv, TurnOpen, PointsHere, logVars
  <2> QED
    BY <1>6, <2>6, <2>7, <2>8 DEF StreamInv
<1> QED
  BY <1>7, <1>8

\* There is a call at least when there are tools.
LEMMA CallsBound ==
  ASSUME NEW p \in ParserKinds, p.tools # <<>>
  PROVE  Len(tool_calls(p)) \in Nat \ {0}
<1>1. PICK D \in IndexSets : p.tools \in [D -> CallKinds]
  BY DEF ParserKinds, ToolKinds
<1>2. D # {}
  <2> SUFFICES ASSUME D = {} PROVE FALSE
    OBVIOUS
  <2>1. p.tools \in [1..0 -> CallKinds]
    BY <1>1
  <2>2. p.tools \in Seq(CallKinds)
    BY <2>1
  <2>3. Len(p.tools) = 0
    BY <2>1, <2>2, LenProperties
  <2> QED
    BY <2>2, <2>3, EmptySeq
<1>3. IsFiniteSet(D)
  BY DEF IndexSets
<1>4. Cardinality(D) \in Nat /\ Cardinality(D) # 0
  BY <1>2, <1>3, FS_CardinalityType, FS_EmptySet
<1>5. PICK c \in Nat \ {0} : c = Cardinality(D)
  BY <1>4
<1> DEFINE Before(i) == {j \in DOMAIN p.tools : j < i}
           call(k) == p.tools[CHOOSE i \in DOMAIN p.tools : Cardinality(Before(i)) = k - 1]
           S == {call(k) : k \in 1..c}
<1>a. tool_calls(p) = [k \in 1..Cardinality(DOMAIN p.tools) |-> call(k)]
  BY Zenon DEF tool_calls
<1> HIDE DEF call
<1>6. tool_calls(p) = [k \in 1..c |-> call(k)]
  BY <1>1, <1>5, <1>a
<1>7. tool_calls(p) \in Seq(S) /\ DOMAIN tool_calls(p) = 1..c
  BY <1>6, IsASeq
<1>8. Len(tool_calls(p)) = c
  BY <1>7, LenProperties
<1> QED
  BY <1>8

LEMMA ClosedTypes ==
  ASSUME StreamInv, Closed
  PROVE  NetTypes' /\ parser' \in ParserKinds /\ reply' \in Seq(LineKinds)
<1> QED
  BY NewParserType DEF Closed, NetTypes, Statuses

LEMMA EndTransferStep == StreamInv /\ EndTransfer => StreamInv'
<1> SUFFICES ASSUME StreamInv, EndTransfer PROVE StreamInv'
  OBVIOUS
<1>1. /\ phase = "transfer" /\ Closed
      /\ UNCHANGED <<round, ui, cancel, turns, sent, start, tabs>>
  BY DEF EndTransfer
<1>2. NetTypes' /\ parser' \in ParserKinds /\ reply' \in Seq(LineKinds)
  BY <1>1, ClosedTypes
<1>3. CASE \E type \in {"Done", "Error"} : Post(Event(type, <<>>)) /\ UNCHANGED calls
  <2>1. queue' \in Seq(EventKinds) /\ phase' = "posted" /\ LastEvent'
    BY <1>1, <1>3, PostLast
  <2>2. WorkTypes' /\ RestTypes'
    BY <1>1, <1>2, <1>3, <2>1 DEF StreamInv, WorkTypes, RestTypes
  <2>3. TurnOpen' /\ PointsHere'
    BY <1>1, <1>3, <2>1 DEF StreamInv, TurnOpen, PointsHere
  <2> QED
    BY <1>2, <2>1, <2>2, <2>3 DEF StreamInv
<1>4. CASE /\ parser.tools # <<>> /\ phase' = "calls"
           /\ calls' = Len(tool_calls(parser)) /\ UNCHANGED queue
  <2>1. calls' \in Nat \ {0}
    BY <1>4, CallsBound DEF StreamInv, WorkTypes
  <2>2. WorkTypes' /\ RestTypes'
    BY <1>1, <1>2, <1>4, <2>1 DEF StreamInv, WorkTypes, RestTypes
  <2>3. TurnOpen'
    BY <1>1, <1>4, <2>1 DEF StreamInv, TurnOpen
  <2>4. LastEvent' /\ PointsHere'
    BY <1>1, <1>4 DEF StreamInv, LastEvent, PointsHere
  <2> QED
    BY <1>2, <2>2, <2>3, <2>4 DEF StreamInv
<1> QED
  BY <1>3, <1>4 DEF EndTransfer

LEMMA AbortStep == StreamInv /\ Abort => StreamInv'
<1> SUFFICES ASSUME StreamInv, Abort PROVE StreamInv'
  OBVIOUS
<1>1. /\ phase = "transfer" /\ Closed /\ Post(Event("Canceled", <<>>))
      /\ UNCHANGED <<round, calls, ui, cancel, turns, sent, start, tabs>>
  BY DEF Abort
<1>2. NetTypes' /\ parser' \in ParserKinds /\ reply' \in Seq(LineKinds)
  BY <1>1, ClosedTypes
<1>3. queue' \in Seq(EventKinds) /\ phase' = "posted" /\ LastEvent'
  BY <1>1, PostLast
<1>4. WorkTypes' /\ RestTypes'
  BY <1>1, <1>2, <1>3 DEF StreamInv, WorkTypes, RestTypes
<1>5. TurnOpen' /\ PointsHere'
  BY <1>1, <1>3 DEF StreamInv, TurnOpen, PointsHere
<1> QED
  BY <1>2, <1>3, <1>4, <1>5 DEF StreamInv

LEMMA RunCallStep == StreamInv /\ RunCall => StreamInv'
<1> SUFFICES ASSUME StreamInv, RunCall PROVE StreamInv'
  OBVIOUS
<1> DEFINE q == <<Event("ToolInfo", <<>>), Event("ToolResult", << <<round, 0>> >>)>>
<1>1. /\ phase = "calls" /\ queue' = queue \o q /\ calls' = calls - 1
      /\ phase' = IF calls = 1 THEN "asking" ELSE "calls"
      /\ UNCHANGED <<netVars, parser, round, ui, cancel, turns, logVars>>
  BY DEF RunCall
<1>2. calls \in Nat \ {0}
  BY <1>1 DEF StreamInv, WorkTypes, TurnOpen
<1>3. q \in Seq(EventKinds) /\ \A i \in 1..Len(q) : ~Joins(q[i])
  <2>1. round \in Nat
    BY StreamAssumption DEF StreamInv, WorkTypes
  <2>2. <<>> \in TextKinds /\ << <<round, 0>> >> \in TextKinds
    BY <2>1 DEF TextKinds, WordKinds
  <2> DEFINE a == Event("ToolInfo", <<>>)
             b == Event("ToolResult", << <<round, 0>> >>)
  <2>3. a \in EventKinds /\ b \in EventKinds /\ ~Joins(a) /\ ~Joins(b)
    BY <2>2 DEF Event, EventKinds, EventTypes, Joins
  <2>4. q = <<a, b>>
    OBVIOUS
  <2> HIDE DEF a, b, q
  <2> QED
    BY <2>3, <2>4
<1> HIDE DEF q
<1>4. queue' \in Seq(EventKinds) /\ LastEvent'
  BY <1>1, <1>3, PostMore
<1>5. NetTypes' /\ WorkTypes' /\ RestTypes'
  BY <1>1, <1>2, <1>4 DEF StreamInv, NetTypes, WorkTypes, RestTypes, netVars, logVars
<1>6. TurnOpen' /\ PointsHere'
  BY <1>1, <1>2 DEF StreamInv, TurnOpen, PointsHere, logVars
<1> QED
  BY <1>4, <1>5, <1>6 DEF StreamInv

LEMMA DrainEventsStep == StreamInv /\ DrainEvents => StreamInv'
<1> SUFFICES ASSUME StreamInv, DrainEvents PROVE StreamInv'
  OBVIOUS
<1>1. /\ queue # <<>> /\ queue' = <<>> /\ ui' = FoldLeft(Show, ui, queue)
      /\ phase' = IF \E i \in DOMAIN queue : Joins(queue[i]) THEN "idle" ELSE phase
      /\ UNCHANGED <<netVars, parser, round, calls, cancel, turns, logVars>>
  BY DEF DrainEvents
<1>2. ui \in UiKinds /\ queue \in Seq(EventKinds) /\ start \in Nat
  BY DEF StreamInv, RestTypes
<1>3. phase # "idle" /\ PointsIn(ui, start)
  BY <1>1 DEF StreamInv, LastEvent, PointsHere
<1>4. \A i \in 1..Len(queue) : Joins(queue[i]) => i = Len(queue) /\ phase = "posted"
  BY DEF StreamInv, LastEvent
<1>5. /\ ui' \in UiKinds /\ PointsIn(ui', start)
      /\ (\E i \in DOMAIN queue : Joins(queue[i])) => ui'.busy_ = FALSE
      /\ ~(\E i \in DOMAIN queue : Joins(queue[i])) => ui'.busy_ = ui.busy_
  BY <1>1, <1>2, <1>3, <1>4, ShowQueue
<1>6. DOMAIN queue = 1..Len(queue) /\ Len(queue) \in Nat
  BY <1>2, LenProperties
<1>7. (\E i \in DOMAIN queue : Joins(queue[i])) <=> phase = "posted"
  <2>1. ASSUME phase = "posted" PROVE \E i \in DOMAIN queue : Joins(queue[i])
    <3>1. Joins(queue[Len(queue)])
      BY <2>1 DEF StreamInv, LastEvent
    <3>2. Len(queue) \in 1..Len(queue)
      BY <1>1, <1>2, <1>6, EmptySeq
    <3> QED
      BY <1>6, <3>1, <3>2
  <2> QED
    BY <1>4, <1>6, <2>1
<1>8. NetTypes' /\ WorkTypes' /\ RestTypes'
  BY <1>1, <1>5 DEF StreamInv, NetTypes, WorkTypes, RestTypes, netVars, logVars
<1>9. TurnOpen'
  <2>1. phase' = "calls" <=> phase = "calls"
    BY <1>1, <1>7
  <2>2. ui.busy_
    BY <1>3 DEF StreamInv, TurnOpen
  <2>3. CASE phase = "posted"
    <3>1. ui'.busy_ = FALSE /\ phase' = "idle"
      BY <1>1, <1>5, <1>7, <2>3, Zenon
    <3> QED
      BY <1>1, <2>1, <3>1 DEF StreamInv, TurnOpen
  <2>4. CASE phase # "posted"
    <3>1. ui'.busy_ = ui.busy_ /\ phase' = phase
      BY <1>1, <1>5, <1>7, <2>4, Zenon
    <3> QED
      BY <1>1, <1>3, <2>1, <2>2, <3>1 DEF StreamInv, TurnOpen
  <2> QED
    BY <2>3, <2>4
<1>10. LastEvent' /\ PointsHere'
  <2>1. phase' # "posted"
    BY <1>1, <1>7
  <2>2. Len(queue') = 0
    BY <1>1
  <2> QED
    BY <1>1, <1>5, <2>1, <2>2 DEF LastEvent, PointsHere, logVars
<1> QED
  BY <1>8, <1>9, <1>10 DEF StreamInv

LEMMA submitStep == StreamInv /\ submit => StreamInv'
<1> SUFFICES ASSUME StreamInv, submit PROVE StreamInv'
  OBVIOUS
<1> DEFINE view == add(ui.chat_, "> ", <<>>)
<1>1. /\ ~ui.busy_ /\ phase = "idle" /\ queue = <<>>
      /\ ui' = [chat_ |-> view, thinking_idx_ |-> 0, content_idx_ |-> 0, busy_ |-> TRUE]
      /\ phase' = "asking" /\ round' = 0 /\ start' = Len(ui'.chat_.entries)
      /\ turns' = turns + 1
      /\ UNCHANGED <<netVars, parser, calls, queue, sent, reply, tabs>>
  BY Zenon DEF submit, StreamInv, TurnOpen, LastEvent
<1>2. view \in ViewKinds
  <2>1. ui.chat_ \in ViewKinds /\ <<>> \in TextKinds
    BY DEF StreamInv, RestTypes, UiKinds, TextKinds
  <2>2. "> " \in Speakers
    BY Zenon DEF Speakers
  <2> QED
    BY <2>1, <2>2, AddKeeps
<1> HIDE DEF view
<1>3. /\ ui' \in UiKinds /\ ui'.busy_ /\ ui'.chat_ = view
      /\ ui'.thinking_idx_ = 0 /\ ui'.content_idx_ = 0
  BY <1>1, <1>2 DEF UiKinds
<1>4. Len(view.entries) \in Nat
  BY <1>2, LenProperties DEF ViewKinds
<1>5. NetTypes' /\ WorkTypes' /\ RestTypes'
  <2>1. MaxRounds \in Nat
    BY StreamAssumption
  <2>2. NetTypes' /\ WorkTypes'
    BY <1>1, <2>1 DEF StreamInv, NetTypes, WorkTypes, netVars
  <2>3. RestTypes'
    BY <1>1, <1>3, <1>4 DEF StreamInv, RestTypes
  <2> QED
    BY <2>2, <2>3
<1>6. TurnOpen' /\ LastEvent'
  BY <1>1, <1>3 DEF StreamInv, TurnOpen, LastEvent
<1>7. PointsHere'
  BY <1>1, <1>3, <1>4 DEF PointsHere, PointsIn
<1> QED
  BY <1>5, <1>6, <1>7 DEF StreamInv

\* The user acts on the view alone: what it pointed at is kept.
LEMMA ViewStep ==
  ASSUME StreamInv, NEW view \in ViewKinds, Keeps(view, ui.chat_),
         ui' = [ui EXCEPT !.chat_ = view],
         UNCHANGED <<netVars, workVars, queue, turns, sent, reply, start>>
  PROVE  StreamInv'
<1>1. ui \in UiKinds /\ start \in Nat
  BY DEF StreamInv, RestTypes
<1>2. /\ ui' \in UiKinds /\ ui'.busy_ = ui.busy_ /\ ui'.chat_ = view
      /\ ui'.thinking_idx_ = ui.thinking_idx_ /\ ui'.content_idx_ = ui.content_idx_
  BY <1>1 DEF UiKinds
<1>3. Steps(ui', ui)
  BY <1>2 DEF Steps
<1>4. PointsHere'
  <2>1. phase # "idle" => PointsIn(ui', start)
    BY <1>1, <1>2, <1>3, PointsKept DEF StreamInv, PointsHere
  <2> QED
    BY <2>1 DEF PointsHere, workVars
<1>5. NetTypes' /\ WorkTypes' /\ RestTypes'
  BY <1>2 DEF StreamInv, NetTypes, WorkTypes, RestTypes, netVars, workVars
<1>6. TurnOpen' /\ LastEvent'
  BY <1>2 DEF StreamInv, TurnOpen, LastEvent, workVars
<1> QED
  BY <1>4, <1>5, <1>6 DEF StreamInv

LEMMA StutterStep ==
  StreamInv /\ UNCHANGED <<netVars, workVars, queue, ui, turns, sent, reply, start>> => StreamInv'
<1> QED
  BY DEF StreamInv, NetTypes, WorkTypes, RestTypes, TurnOpen, LastEvent, PointsHere, netVars, workVars

LEMMA EscStep == StreamInv /\ Esc => StreamInv'
<1> SUFFICES ASSUME StreamInv, Esc PROVE StreamInv'
  OBVIOUS
<1>1. UNCHANGED <<netVars, workVars, queue, turns, logVars>>
  BY DEF Esc
<1>2. CASE cancel
  <2>1. ui' = ui
    BY <1>2 DEF Esc
  <2> QED
    BY <1>1, <2>1, StutterStep DEF logVars
<1>3. CASE ~cancel
  <2>1. ui' = [ui EXCEPT !.chat_ = add(ui.chat_, "", <<>>)]
    BY <1>3 DEF Esc, StreamInv, RestTypes, UiKinds
  <2>2. ui.chat_ \in ViewKinds /\ <<>> \in TextKinds
    BY DEF StreamInv, RestTypes, UiKinds, TextKinds
  <2>3. "" \in Speakers
    BY Zenon DEF Speakers
  <2>4. add(ui.chat_, "", <<>>) \in ViewKinds /\ Keeps(add(ui.chat_, "", <<>>), ui.chat_)
    BY <2>2, <2>3, AddKeeps
  <2> QED
    BY <1>1, <2>1, <2>4, ViewStep DEF logVars
<1> QED
  BY <1>2, <1>3

LEMMA TabStep == StreamInv /\ Tab => StreamInv'
<1> SUFFICES ASSUME StreamInv, Tab PROVE StreamInv'
  OBVIOUS
<1>1. UNCHANGED <<netVars, workVars, queue, cancel, turns, sent, reply, rounds, start>>
  BY DEF Tab
<1>2. ui' = [ui EXCEPT !.chat_ = toggle_last_collapsible(ui.chat_)]
  BY DEF Tab, StreamInv, RestTypes, UiKinds
<1>3. ui.chat_ \in ViewKinds
  BY DEF StreamInv, RestTypes, UiKinds
<1>4. /\ toggle_last_collapsible(ui.chat_) \in ViewKinds
      /\ Keeps(toggle_last_collapsible(ui.chat_), ui.chat_)
  BY <1>3, ToggleKeeps
<1> QED
  BY <1>1, <1>2, <1>4, ViewStep

LEMMA ClearStep == StreamInv /\ Clear => StreamInv'
<1> SUFFICES ASSUME StreamInv, Clear PROVE StreamInv'
  OBVIOUS
<1>1. /\ ~ui.busy_ /\ phase = "idle" /\ start' = 0
      /\ ui' = [ui EXCEPT !.chat_ = EmptyView]
      /\ UNCHANGED <<netVars, workVars, queue, cancel, turns, sent, reply, rounds, tabs>>
  BY DEF Clear, clear, StreamInv, TurnOpen, RestTypes, UiKinds
<1>2. EmptyView \in ViewKinds
  BY DEF EmptyView, ViewKinds
<1>3. ui' \in UiKinds /\ ui'.busy_ = ui.busy_
  BY <1>1, <1>2 DEF StreamInv, RestTypes, UiKinds
<1>4. NetTypes' /\ WorkTypes' /\ RestTypes'
  BY <1>1, <1>3 DEF StreamInv, NetTypes, WorkTypes, RestTypes, netVars, workVars
<1>5. TurnOpen' /\ LastEvent' /\ PointsHere'
  BY <1>1, <1>3 DEF StreamInv, TurnOpen, LastEvent, PointsHere, workVars
<1> QED
  BY <1>4, <1>5 DEF StreamInv

\* StreamInv holds at every moment, for every size of the network's buffer, number of
\* rounds, messages and pieces of a line (ChatResponse.cpp:26-114, App.cpp:382-461).
THEOREM StreamInvariance == Spec => []StreamInv
<1>1. StreamInv /\ [Next]_vars => StreamInv'
  <2> SUFFICES ASSUME StreamInv, [Next]_vars PROVE StreamInv'
    OBVIOUS
  <2>1. CASE UNCHANGED vars
    BY <2>1, StutterStep DEF vars, logVars
  <2> QED
    BY <2>1, ServerSendsStep, ServerEndsStep, BeginRoundStep, ReceiveStep, EndTransferStep,
       AbortStep, RunCallStep, DrainEventsStep, submitStep, EscStep, TabStep, ClearStep
       DEF Next
<1> QED
  BY InitStream, <1>1, PTL DEF Spec

\* Each part of the pipeline keeps its type; the worker has calls left exactly while it
\* runs them, and a turn is open until its last event is shown (App.cpp:202-233, 382-461).
THEOREM StreamTypes == Spec => []TypeOK
<1>1. StreamInv => TypeOK
  <2> SUFFICES ASSUME StreamInv PROVE TypeOK
    OBVIOUS
  <2>1. ui.chat_.scroll = 0
    BY DEF StreamInv, RestTypes, UiKinds, ViewKinds
  <2>2. \A i \in DOMAIN queue : queue[i].type \in
          {"Delta", "Reasoning", "ToolInfo", "ToolResult", "Done", "Canceled", "Error"}
    <3>1. \A i \in DOMAIN queue : queue[i] \in EventKinds
      BY DEF StreamInv, RestTypes
    <3> QED
      BY <3>1 DEF EventKinds, EventTypes
  <2>3. (phase = "calls") = (calls > 0)
    BY DEF StreamInv, TurnOpen
  <2>4. ui.busy_ = (phase # "idle")
    <3>1. ui.busy_ \in BOOLEAN
      BY DEF StreamInv, RestTypes, UiKinds
    <3> QED
      BY <3>1, Zenon DEF StreamInv, TurnOpen
  <2> QED
    BY <2>1, <2>2, <2>3, <2>4, Zenon DEF StreamInv, NetTypes, WorkTypes, TypeOK
<1> QED
  BY StreamInvariance, <1>1, PTL

\* The view is never written through an index of an earlier turn or of another kind of
\* entry: whatever events are queued and however many are drained at once, after a
\* clear, a fold or a cancelled turn (App.cpp:207-208, 388-396).
THEOREM IndicesAlwaysOfTurn == Spec => []IndicesOfTurn
<1>1. StreamInv => IndicesOfTurn
  <2> SUFFICES ASSUME StreamInv, ui.busy_ PROVE IndicesOfTurn
    BY DEF IndicesOfTurn
  <2>1. PointsIn(ui, start)
    BY DEF StreamInv, TurnOpen, PointsHere
  <2>2. start \in Nat /\ Len(ui.chat_.entries) \in Nat
    BY LenProperties DEF StreamInv, RestTypes, UiKinds, ViewKinds
  <2>3. ui.thinking_idx_ # 0 =>
          ui.thinking_idx_ > start /\ IsThinking(ui.chat_.entries[ui.thinking_idx_])
    BY <2>1, <2>2 DEF PointsIn, IsThinking
  <2>4. ui.content_idx_ # 0 =>
          ui.content_idx_ > start /\ IsAnswer(ui.chat_.entries[ui.content_idx_])
    BY <2>1, <2>2 DEF PointsIn
  <2> QED
    BY <2>3, <2>4 DEF IndicesOfTurn
<1> QED
  BY StreamInvariance, <1>1, PTL

-----------------------------------------------------------------------------
(* The texts on the screen.                                                 *)

AnswersAfter(view, from) ==
  {i \in DOMAIN view.entries : i > from /\ IsAnswer(view.entries[i])}
ThoughtsAfter(view, from) ==
  {i \in DOMAIN view.entries : i > from /\ IsThinking(view.entries[i])}

\* The texts of the entries of a set, and nothing for the others.
Masked(entries, M) == [i \in DOMAIN entries |-> IF i \in M THEN entries[i].text ELSE <<>>]
TextAt(view, M) == FlattenSeq(Masked(view.entries, M))

LEMMA TextsJoin ==
  /\ \A s \in TextKinds : s \o <<>> = s /\ <<>> \o s = s
  /\ \A s, t \in TextKinds : s \o t \in TextKinds
BY Concats DEF TextKinds

IsMasked(s, entries, M, n) ==
  /\ s \in Seq(TextKinds) /\ Len(s) = n
  /\ \A i \in 1..n : s[i] = IF i \in M THEN entries[i].text ELSE <<>>

LEMMA MaskedType ==
  ASSUME NEW v \in ViewKinds, NEW M, NEW n \in Nat, n = Len(v.entries)
  PROVE  IsMasked(Masked(v.entries, M), v.entries, M, n)
<1>1. DOMAIN v.entries = 1..n /\ \A i \in 1..n : v.entries[i] \in EntryKinds
  BY LenProperties DEF ViewKinds
<1>2. \A i \in 1..n : v.entries[i].text \in TextKinds
  BY <1>1 DEF EntryKinds
<1> DEFINE e(i) == IF i \in M THEN v.entries[i].text ELSE <<>>
<1>3. \A i \in 1..n : e(i) \in TextKinds
  BY <1>2, NoText
<1>4. Masked(v.entries, M) = [i \in 1..n |-> e(i)]
  BY <1>1 DEF Masked
<1> HIDE DEF e
<1>5. [i \in 1..n |-> e(i)] \in Seq(TextKinds) /\ Len([i \in 1..n |-> e(i)]) = n
  BY <1>3
<1>6. \A i \in 1..n : Masked(v.entries, M)[i] = e(i)
  BY <1>4
<1> QED
  BY <1>1, <1>4, <1>5, <1>6 DEF e, IsMasked

LEMMA TextType ==
  ASSUME NEW v \in ViewKinds, NEW M
  PROVE  TextAt(v, M) \in TextKinds
<1>1. Len(v.entries) \in Nat
  BY LenProperties DEF ViewKinds
<1>2. Masked(v.entries, M) \in Seq(Seq(WordKinds))
  BY <1>1, MaskedType DEF IsMasked, TextKinds
<1> QED
  BY <1>2, FlattenType DEF TextAt, TextKinds

\* A new entry of the set says nothing yet.
PushesQuietly(entry, N, M, n) ==
  /\ \A i \in 1..n : i \in N <=> i \in M
  /\ n + 1 \in N => entry.text = <<>>

LEMMA TextPush ==
  ASSUME NEW v \in ViewKinds, NEW entry \in EntryKinds, NEW M, NEW N,
         NEW w \in ViewKinds, w.entries = Append(v.entries, entry),
         NEW n \in Nat, n = Len(v.entries), PushesQuietly(entry, N, M, n)
  PROVE  TextAt(w, N) = TextAt(v, M)
<1>0. (\A i \in 1..n : i \in N <=> i \in M) /\ (n + 1 \in N => entry.text = <<>>)
  BY DEF PushesQuietly
<1> DEFINE s == Masked(v.entries, M)
           t == Masked(w.entries, N)
<1>1. /\ s \in Seq(TextKinds) /\ Len(s) = n
      /\ \A i \in 1..n : s[i] = IF i \in M THEN v.entries[i].text ELSE <<>>
  <2>1. IsMasked(s, v.entries, M, n)
    BY MaskedType
  <2> QED
    BY <2>1 DEF IsMasked
<1>2. /\ Len(w.entries) = n + 1 /\ w.entries[n + 1] = entry
      /\ \A i \in 1..n : w.entries[i] = v.entries[i]
  BY AppendProperties DEF ViewKinds
<1>3. /\ t \in Seq(TextKinds) /\ Len(t) = n + 1
      /\ \A i \in 1..(n + 1) : t[i] = IF i \in N THEN w.entries[i].text ELSE <<>>
  <2>1. PICK m \in Nat : m = n + 1
    OBVIOUS
  <2>2. m = Len(w.entries)
    BY <1>2, <2>1
  <2>3. /\ t \in Seq(TextKinds) /\ Len(t) = m
        /\ \A i \in 1..m : t[i] = IF i \in N THEN w.entries[i].text ELSE <<>>
    <3>1. IsMasked(t, w.entries, N, m)
      BY <2>2, MaskedType
    <3> QED
      BY <3>1 DEF IsMasked
  <2> QED
    BY <2>1, <2>3
<1> HIDE DEF s, t
<1>4. \A i \in 1..n : t[i] = s[i]
  BY <1>0, <1>1, <1>2, <1>3
<1>5. t[n + 1] = <<>>
  BY <1>0, <1>2, <1>3
<1>6. t = Append(s, <<>>)
  <2>1. /\ Append(s, <<>>) \in Seq(TextKinds) /\ Len(Append(s, <<>>)) = n + 1
        /\ \A i \in 1..n : Append(s, <<>>)[i] = s[i]
        /\ Append(s, <<>>)[n + 1] = <<>>
    BY <1>1, NoText, AppendProperties
  <2> DEFINE r == Append(s, <<>>)
  <2>2. r \in Seq(TextKinds) /\ Len(r) = Len(t) /\ \A i \in 1..Len(t) : t[i] = r[i]
    BY <1>3, <1>4, <1>5, <2>1
  <2> HIDE DEF r
  <2>3. t = r
    BY <1>3, <2>2, SeqEqual
  <2> QED
    BY <2>3 DEF r
<1>7. FlattenSeq(t) = FlattenSeq(s) \o <<>>
  BY <1>1, <1>6, EmptySeq, FlattenAppend DEF TextKinds
<1>8. FlattenSeq(s) \in TextKinds
  BY TextType DEF TextAt, s
<1> QED
  BY <1>7, <1>8, TextsJoin DEF TextAt, s, t

\* Two views of n entries, those of M with the same texts.
SameTexts(w, v, n, M) ==
  /\ n = Len(v.entries) /\ n = Len(w.entries)
  /\ \A i \in 1..n : i \in M => w.entries[i].text = v.entries[i].text

LEMMA TextSame ==
  ASSUME NEW v \in ViewKinds, NEW w \in ViewKinds, NEW M, NEW n \in Nat,
         SameTexts(w, v, n, M)
  PROVE  TextAt(w, M) = TextAt(v, M)
<1>0. n = Len(v.entries) /\ n = Len(w.entries)
  BY DEF SameTexts
<1> DEFINE s == Masked(v.entries, M)
           t == Masked(w.entries, M)
<1>1. /\ s \in Seq(TextKinds) /\ Len(s) = n
      /\ \A i \in 1..n : s[i] = IF i \in M THEN v.entries[i].text ELSE <<>>
  <2>1. IsMasked(s, v.entries, M, n)
    BY <1>0, MaskedType
  <2> QED
    BY <2>1 DEF IsMasked
<1>2. /\ t \in Seq(TextKinds) /\ Len(t) = n
      /\ \A i \in 1..n : t[i] = IF i \in M THEN w.entries[i].text ELSE <<>>
  <2>1. IsMasked(t, w.entries, M, n)
    BY <1>0, MaskedType
  <2> QED
    BY <2>1 DEF IsMasked
<1> HIDE DEF s, t
<1>3. \A i \in 1..n : t[i] = s[i]
  BY <1>1, <1>2 DEF SameTexts
<1>4. t = s
  BY <1>1, <1>2, <1>3, SeqEqual
<1> QED
  BY <1>4 DEF TextAt, s, t

\* The last entry of the set grows.
TextGrows(w, v, n, k, M, text) ==
  /\ n = Len(v.entries) /\ n = Len(w.entries)
  /\ w.entries[k].text = v.entries[k].text \o text
  /\ k \in M /\ \A i \in 1..n : i \in M => i <= k
  /\ \A i \in 1..n : i # k => w.entries[i].text = v.entries[i].text

LEMMA TextGrow ==
  ASSUME NEW v \in ViewKinds, NEW w \in ViewKinds, NEW M, NEW text \in TextKinds,
         NEW n \in Nat, NEW k \in 1..n, TextGrows(w, v, n, k, M, text)
  PROVE  TextAt(w, M) = TextAt(v, M) \o text
<1>0. n = Len(v.entries) /\ n = Len(w.entries)
  BY DEF TextGrows
<1> DEFINE s == Masked(v.entries, M)
           t == Masked(w.entries, M)
<1>1. /\ s \in Seq(TextKinds) /\ Len(s) = n
      /\ \A i \in 1..n : s[i] = IF i \in M THEN v.entries[i].text ELSE <<>>
  <2>1. IsMasked(s, v.entries, M, n)
    BY <1>0, MaskedType
  <2> HIDE DEF s
  <2> QED
    BY <2>1 DEF IsMasked
<1>2. /\ t \in Seq(TextKinds) /\ Len(t) = n
      /\ \A i \in 1..n : t[i] = IF i \in M THEN w.entries[i].text ELSE <<>>
  <2>1. IsMasked(t, w.entries, M, n)
    BY <1>0, MaskedType
  <2> HIDE DEF t
  <2> QED
    BY <2>1 DEF IsMasked
<1> HIDE DEF s, t
<1>3. t[k] = s[k] \o text
  BY <1>1, <1>2 DEF TextGrows
<1>4. \A i \in 1..n : i # k => t[i] = s[i]
  BY <1>1, <1>2 DEF TextGrows
<1>5. \A i \in 1..n : i > k => s[i] = <<>>
  <2>1. \A i \in 1..n : i > k => i \notin M
    BY DEF TextGrows
  <2> QED
    BY <1>1, <2>1
<1>6. s \in Seq(Seq(WordKinds)) /\ t \in Seq(Seq(WordKinds)) /\ text \in Seq(WordKinds)
  BY <1>1, <1>2 DEF TextKinds
<1>7. n = Len(s) /\ n = Len(t)
  BY <1>1, <1>2
<1>8. GrowsAt(t, s, n, k, text)
  BY <1>3, <1>4, <1>5, <1>7 DEF GrowsAt
<1>9. FlattenSeq(t) = FlattenSeq(s) \o text
  BY ONLY n \in Nat, k \in 1..n, <1>6, <1>8, FlattenGrow
<1> QED
  BY <1>9 DEF TextAt, s, t

\* An index is that of the last entry of a set.
Final(i, S) == i # 0 => i \in S /\ \A j \in S : j <= i

\* After an entry the view has answers that say a and thoughts that say t; c and k are
\* the last ones, or 0.
Tells(v, from, c, k, a, t) ==
  LET A == AnswersAfter(v, from)
      T == ThoughtsAfter(v, from)
  IN  /\ from <= Len(v.entries)
      /\ A \cap T = {}
      /\ Final(c, A) /\ Final(k, T)
      /\ TextAt(v, A) = a /\ TextAt(v, T) = t

LEMMA BlankAnswers == \A e : e.speaker = "" => ~IsAnswer(e)
BY Zenon DEF IsAnswer

LEMMA ErrorAnswers == \A e : e.speaker = "error" => ~IsAnswer(e)
BY Zenon DEF IsAnswer

LEMMA TellsForget ==
  ASSUME NEW v, NEW from, NEW c, NEW k, NEW a, NEW t, Tells(v, from, c, k, a, t)
  PROVE  Tells(v, from, 0, k, a, t)
BY DEF Tells, Final

LEMMA AfterType ==
  ASSUME NEW v \in ViewKinds, NEW from \in Nat, NEW n \in Nat, n = Len(v.entries)
  PROVE  /\ \A i : i \in AnswersAfter(v, from) <=>
                     i \in 1..n /\ i > from /\ IsAnswer(v.entries[i])
         /\ \A i : i \in ThoughtsAfter(v, from) <=>
                     i \in 1..n /\ i > from /\ IsThinking(v.entries[i])
<1>1. DOMAIN v.entries = 1..n
  BY LenProperties DEF ViewKinds
<1> QED
  BY <1>1 DEF AnswersAfter, ThoughtsAfter

\* A new entry.
LEMMA AfterPush ==
  ASSUME NEW v \in ViewKinds, NEW w \in ViewKinds, NEW entry \in EntryKinds,
         w.entries = Append(v.entries, entry), NEW from \in Nat,
         NEW n \in Nat, n = Len(v.entries), from <= n
  PROVE  /\ AnswersAfter(w, from) =
              AnswersAfter(v, from) \cup IF IsAnswer(entry) THEN {n + 1} ELSE {}
         /\ ThoughtsAfter(w, from) =
              ThoughtsAfter(v, from) \cup IF IsThinking(entry) THEN {n + 1} ELSE {}
<1>1. /\ Len(w.entries) = n + 1 /\ w.entries[n + 1] = entry
      /\ \A i \in 1..n : w.entries[i] = v.entries[i]
  BY AppendProperties DEF ViewKinds
<1>2. PICK m \in Nat : m = n + 1
  OBVIOUS
<1>3. \A i : i \in 1..m <=> i \in 1..n \/ i = m
  BY ONLY <1>2, n \in Nat
<1>4. m > from /\ m \notin 1..n
  BY ONLY <1>2, n \in Nat, from \in Nat, from <= n
<1>5. m = Len(w.entries) /\ w.entries[m] = entry
  BY <1>1, <1>2
<1>6. AnswersAfter(w, from) = AnswersAfter(v, from) \cup IF IsAnswer(entry) THEN {m} ELSE {}
  <2> SUFFICES ASSUME NEW i
               PROVE  i \in AnswersAfter(w, from) <=>
                        i \in AnswersAfter(v, from) \/ (i = m /\ IsAnswer(entry))
    OBVIOUS
  <2>1. i \in AnswersAfter(w, from) <=> i \in 1..m /\ i > from /\ IsAnswer(w.entries[i])
    BY <1>5, AfterType
  <2>2. i \in AnswersAfter(v, from) <=> i \in 1..n /\ i > from /\ IsAnswer(v.entries[i])
    BY AfterType
  <2>3. CASE i = m
    BY <1>3, <1>4, <1>5, <2>1, <2>2, <2>3
  <2>4. CASE i # m
    <3>1. i \in 1..n => w.entries[i] = v.entries[i]
      BY <1>1
    <3> QED
      BY <1>3, <2>1, <2>2, <2>4, <3>1
  <2> QED
    BY <2>3, <2>4
<1>7. ThoughtsAfter(w, from) =
        ThoughtsAfter(v, from) \cup IF IsThinking(entry) THEN {m} ELSE {}
  <2> SUFFICES ASSUME NEW i
               PROVE  i \in ThoughtsAfter(w, from) <=>
                        i \in ThoughtsAfter(v, from) \/ (i = m /\ IsThinking(entry))
    OBVIOUS
  <2>1. i \in ThoughtsAfter(w, from) <=> i \in 1..m /\ i > from /\ IsThinking(w.entries[i])
    BY <1>5, AfterType
  <2>2. i \in ThoughtsAfter(v, from) <=> i \in 1..n /\ i > from /\ IsThinking(v.entries[i])
    BY AfterType
  <2>3. CASE i = m
    BY <1>3, <1>4, <1>5, <2>1, <2>2, <2>3
  <2>4. CASE i # m
    <3>1. i \in 1..n => w.entries[i] = v.entries[i]
      BY <1>1
    <3> QED
      BY <1>3, <2>1, <2>2, <2>4, <3>1
  <2> QED
    BY <2>3, <2>4
<1> QED
  BY <1>2, <1>6, <1>7

\* The entries stay as many and of their kind.
LEMMA AfterSame ==
  ASSUME NEW v \in ViewKinds, NEW w \in ViewKinds, Keeps(w, v),
         Len(w.entries) = Len(v.entries), NEW from \in Nat
  PROVE  /\ AnswersAfter(w, from) = AnswersAfter(v, from)
         /\ ThoughtsAfter(w, from) = ThoughtsAfter(v, from)
<1>1. PICK n \in Nat : n = Len(v.entries) /\ n = Len(w.entries)
  BY LenProperties DEF ViewKinds
<1>2. \A i \in 1..n : /\ w.entries[i].kind = v.entries[i].kind
                      /\ w.entries[i].speaker = v.entries[i].speaker
  BY <1>1 DEF Keeps
<1>3. \A i \in 1..n : IsAnswer(w.entries[i]) <=> IsAnswer(v.entries[i])
  BY <1>2, AnswerKept
<1>4. \A i \in 1..n : IsThinking(w.entries[i]) <=> IsThinking(v.entries[i])
  BY <1>2 DEF IsThinking
<1>5. \A i : i \in AnswersAfter(w, from) <=> i \in AnswersAfter(v, from)
  BY <1>1, <1>3, AfterType
<1>6. \A i : i \in ThoughtsAfter(w, from) <=> i \in ThoughtsAfter(v, from)
  BY <1>1, <1>4, AfterType
<1> QED
  BY <1>5, <1>6

LEMMA TellsPush ==
  ASSUME NEW v \in ViewKinds, NEW w \in ViewKinds, NEW entry \in EntryKinds,
         w.entries = Append(v.entries, entry), NEW from \in Nat,
         NEW c \in Nat, NEW k \in Nat, NEW a, NEW t, Tells(v, from, c, k, a, t),
         NEW n \in Nat, n = Len(v.entries),
         ~(IsAnswer(entry) /\ IsThinking(entry)),
         IsAnswer(entry) \/ IsThinking(entry) => entry.text = <<>>
  PROVE  /\ IsAnswer(entry) => Tells(w, from, n + 1, k, a, t)
         /\ IsThinking(entry) => Tells(w, from, c, n + 1, a, t)
         /\ ~IsAnswer(entry) /\ ~IsThinking(entry) => Tells(w, from, c, k, a, t)
<1> DEFINE A == AnswersAfter(v, from)
           T == ThoughtsAfter(v, from)
           B == AnswersAfter(w, from)
           R == ThoughtsAfter(w, from)
<1>1. /\ from <= n /\ A \cap T = {} /\ Final(c, A) /\ Final(k, T)
      /\ TextAt(v, A) = a /\ TextAt(v, T) = t
  BY DEF Tells
<1>2. PICK m \in Nat : m = n + 1
  OBVIOUS
<1>3. /\ B = A \cup IF IsAnswer(entry) THEN {m} ELSE {}
      /\ R = T \cup IF IsThinking(entry) THEN {m} ELSE {}
  BY <1>1, <1>2, AfterPush
<1>4. (\A i \in A : i \in 1..n) /\ (\A i \in T : i \in 1..n)
  BY AfterType
<1>5. m = Len(w.entries) /\ from <= m
  <2>1. m = Len(w.entries)
    BY <1>2, AppendProperties DEF ViewKinds
  <2> QED
    BY <1>1, <1>2, <2>1
<1> HIDE DEF A, T, B, R
<1>6. m \notin 1..n /\ m # 0 /\ \A i \in 1..n : i <= m
  BY ONLY <1>2, n \in Nat
<1>7. TextAt(w, B) = a
  <2>1. \A i \in 1..n : i \in B <=> i \in A
    BY <1>3, <1>6
  <2>2. n + 1 \in B => entry.text = <<>>
    BY <1>2, <1>3, <1>4, <1>6
  <2>3. PushesQuietly(entry, B, A, n)
    BY <2>1, <2>2 DEF PushesQuietly
  <2> QED
    BY <1>1, <2>3, TextPush
<1>8. TextAt(w, R) = t
  <2>1. \A i \in 1..n : i \in R <=> i \in T
    BY <1>3, <1>6
  <2>2. n + 1 \in R => entry.text = <<>>
    BY <1>2, <1>3, <1>4, <1>6
  <2>3. PushesQuietly(entry, R, T, n)
    BY <2>1, <2>2 DEF PushesQuietly
  <2> QED
    BY <1>1, <2>3, TextPush
<1>9. B \cap R = {}
  BY <1>1, <1>3, <1>4, <1>6
<1>10. IsAnswer(entry) => Final(m, B) /\ Final(k, R)
  BY <1>1, <1>3, <1>4, <1>6 DEF Final
<1>11. IsThinking(entry) => Final(c, B) /\ Final(m, R)
  BY <1>1, <1>3, <1>4, <1>6 DEF Final
<1>12. ~IsAnswer(entry) /\ ~IsThinking(entry) => Final(c, B) /\ Final(k, R)
  BY <1>1, <1>3
<1> QED
  BY <1>2, <1>5, <1>7, <1>8, <1>9, <1>10, <1>11, <1>12 DEF Tells, B, R

\* Folding changes no text.
LEMMA TellsFold ==
  ASSUME NEW v \in ViewKinds, NEW w \in ViewKinds, Keeps(w, v),
         NEW n \in Nat, n = Len(v.entries), n = Len(w.entries),
         \A i \in 1..n : w.entries[i].text = v.entries[i].text,
         NEW from \in Nat, NEW c, NEW k, NEW a, NEW t, Tells(v, from, c, k, a, t)
  PROVE  Tells(w, from, c, k, a, t)
<1>1. /\ AnswersAfter(w, from) = AnswersAfter(v, from)
      /\ ThoughtsAfter(w, from) = ThoughtsAfter(v, from)
  BY AfterSame
<1>2. \A M : TextAt(w, M) = TextAt(v, M)
  <2>1. \A M : SameTexts(w, v, n, M)
    BY DEF SameTexts
  <2> QED
    BY <2>1, TextSame
<1> QED
  BY <1>1, <1>2 DEF Tells

\* The last answer grows, or the last thought.
LEMMA TellsGrow ==
  ASSUME NEW v \in ViewKinds, NEW w \in ViewKinds, Keeps(w, v),
         NEW n \in Nat, n = Len(v.entries), n = Len(w.entries),
         NEW i \in 1..n, NEW text \in TextKinds,
         w.entries[i].text = v.entries[i].text \o text,
         \A j \in 1..n : j # i => w.entries[j].text = v.entries[j].text,
         NEW from \in Nat, NEW c \in Nat, NEW k \in Nat, NEW a, NEW t,
         Tells(v, from, c, k, a, t)
  PROVE  /\ i = c => Tells(w, from, c, k, a \o text, t)
         /\ i = k => Tells(w, from, c, k, a, t \o text)
<1> DEFINE A == AnswersAfter(v, from)
           T == ThoughtsAfter(v, from)
<1>1. /\ from <= n /\ A \cap T = {} /\ Final(c, A) /\ Final(k, T)
      /\ TextAt(v, A) = a /\ TextAt(v, T) = t
  BY DEF Tells
<1>2. AnswersAfter(w, from) = A /\ ThoughtsAfter(w, from) = T
  BY AfterSame
<1>3. (\A j \in A : j \in 1..n) /\ (\A j \in T : j \in 1..n)
  BY AfterType
<1> HIDE DEF A, T
<1>4. ASSUME NEW M, i \in M, \A j \in 1..n : j \in M => j <= i
      PROVE  TextAt(w, M) = TextAt(v, M) \o text
  <2>1. TextGrows(w, v, n, i, M, text)
    BY <1>4 DEF TextGrows
  <2> QED
    BY <2>1, TextGrow
<1>5. ASSUME NEW M, i \notin M PROVE TextAt(w, M) = TextAt(v, M)
  <2>1. SameTexts(w, v, n, M)
    BY <1>5 DEF SameTexts
  <2> QED
    BY <2>1, TextSame
<1>6. ASSUME i = c PROVE Tells(w, from, c, k, a \o text, t)
  <2>1. i \in A /\ i \notin T /\ \A j \in 1..n : j \in A => j <= i
    BY <1>1, <1>6 DEF Final
  <2>2. TextAt(w, A) = a \o text /\ TextAt(w, T) = t
    BY <1>1, <1>4, <1>5, <2>1
  <2> QED
    BY <1>1, <1>2, <2>2 DEF Tells
<1>7. ASSUME i = k PROVE Tells(w, from, c, k, a, t \o text)
  <2>1. i \in T /\ i \notin A /\ \A j \in 1..n : j \in T => j <= i
    BY <1>1, <1>7 DEF Final
  <2>2. TextAt(w, A) = a /\ TextAt(w, T) = t \o text
    BY <1>1, <1>4, <1>5, <2>1
  <2> QED
    BY <1>1, <1>2, <2>2 DEF Tells
<1> QED
  BY <1>6, <1>7

LEMMA AddTells ==
  ASSUME NEW v \in ViewKinds, NEW speaker \in Speakers, NEW text \in TextKinds,
         \A e : e.speaker = speaker => ~IsAnswer(e),
         NEW from \in Nat, NEW c \in Nat, NEW k \in Nat, NEW a, NEW t,
         Tells(v, from, c, k, a, t)
  PROVE  Tells(add(v, speaker, text), from, c, k, a, t)
<1> DEFINE entry == [kind |-> "Normal", speaker |-> speaker, text |-> text, collapsed |-> FALSE]
           w == [entries |-> Append(v.entries, entry), scroll |-> 0]
<1>1. entry \in EntryKinds /\ entry.speaker = speaker /\ ~IsThinking(entry)
  BY DEF EntryKinds, Kinds, IsThinking
<1>2. add(v, speaker, text) = w
  BY DEF add, Push
<1> HIDE DEF entry
<1>3. w \in ViewKinds
  BY <1>1, PushKeeps
<1>4. w.entries = Append(v.entries, entry)
  OBVIOUS
<1> HIDE DEF w
<1>5. ~IsAnswer(entry)
  BY <1>1
<1>6. Len(v.entries) \in Nat
  BY LenProperties DEF ViewKinds
<1> QED
  BY <1>1, <1>2, <1>3, <1>4, <1>5, <1>6, TellsPush

LEMMA AnswerTells ==
  ASSUME NEW v \in ViewKinds, NEW speaker \in Speakers,
         \A e : e.speaker = speaker => IsAnswer(e),
         NEW from \in Nat, NEW c \in Nat, NEW k \in Nat, NEW a, NEW t,
         Tells(v, from, c, k, a, t)
  PROVE  Tells(add(v, speaker, <<>>), from, Len(v.entries) + 1, k, a, t)
<1> DEFINE entry == [kind |-> "Normal", speaker |-> speaker, text |-> <<>>, collapsed |-> FALSE]
           w == [entries |-> Append(v.entries, entry), scroll |-> 0]
<1>1. /\ entry \in EntryKinds /\ entry.speaker = speaker /\ ~IsThinking(entry)
      /\ entry.text = <<>>
  BY NoText DEF EntryKinds, Kinds, IsThinking
<1>2. add(v, speaker, <<>>) = w
  BY DEF add, Push
<1> HIDE DEF entry
<1>3. w \in ViewKinds
  BY <1>1, PushKeeps
<1>4. w.entries = Append(v.entries, entry)
  OBVIOUS
<1> HIDE DEF w
<1>5. IsAnswer(entry)
  BY <1>1
<1>6. Len(v.entries) \in Nat
  BY LenProperties DEF ViewKinds
<1> QED
  BY <1>1, <1>2, <1>3, <1>4, <1>5, <1>6, TellsPush

LEMMA ThinkingTells ==
  ASSUME NEW v \in ViewKinds,
         NEW from \in Nat, NEW c \in Nat, NEW k \in Nat, NEW a, NEW t,
         Tells(v, from, c, k, a, t)
  PROVE  Tells(add_thinking(v), from, c, Len(v.entries) + 1, a, t)
<1> DEFINE entry == [kind |-> "Thinking", speaker |-> "", text |-> <<>>, collapsed |-> FALSE]
           w == [entries |-> Append(v.entries, entry), scroll |-> 0]
<1>1. entry \in EntryKinds
  <2>1. "" \in Speakers
    BY Zenon DEF Speakers
  <2> QED
    BY <2>1, NoText DEF EntryKinds, Kinds
<1>2. IsThinking(entry) /\ entry.text = <<>> /\ entry.speaker = ""
  BY DEF IsThinking
<1>3. add_thinking(v) = w
  BY DEF add_thinking, Push
<1> HIDE DEF entry
<1>4. w \in ViewKinds
  BY <1>1, PushKeeps
<1>5. w.entries = Append(v.entries, entry)
  OBVIOUS
<1> HIDE DEF w
<1>6. ~IsAnswer(entry)
  BY <1>2, BlankAnswers
<1>7. Len(v.entries) \in Nat
  BY LenProperties DEF ViewKinds
<1> QED
  BY <1>1, <1>2, <1>3, <1>4, <1>5, <1>6, <1>7, TellsPush

LEMMA ToolTells ==
  ASSUME NEW v \in ViewKinds, NEW text \in TextKinds,
         NEW from \in Nat, NEW c \in Nat, NEW k \in Nat, NEW a, NEW t,
         Tells(v, from, c, k, a, t)
  PROVE  Tells(add_tool_output(v, text), from, c, k, a, t)
<1> DEFINE entry == [kind |-> "Tool", speaker |-> "", text |-> text, collapsed |-> TRUE]
           w == [entries |-> Append(v.entries, entry), scroll |-> 0]
<1>1. entry \in EntryKinds
  <2>1. "" \in Speakers
    BY Zenon DEF Speakers
  <2> QED
    BY <2>1 DEF EntryKinds, Kinds
<1>2. ~IsThinking(entry) /\ entry.speaker = ""
  BY DEF IsThinking
<1>3. add_tool_output(v, text) = w
  BY DEF add_tool_output, Push
<1> HIDE DEF entry
<1>4. w \in ViewKinds
  BY <1>1, PushKeeps
<1>5. w.entries = Append(v.entries, entry)
  OBVIOUS
<1> HIDE DEF w
<1>6. ~IsAnswer(entry)
  BY <1>2, BlankAnswers
<1>7. Len(v.entries) \in Nat
  BY LenProperties DEF ViewKinds
<1> QED
  BY <1>1, <1>2, <1>3, <1>4, <1>5, <1>6, <1>7, TellsPush

LEMMA AppendTells ==
  ASSUME NEW v \in ViewKinds, NEW i \in Nat, NEW text \in TextKinds, i # 0,
         NEW from \in Nat, NEW c \in Nat, NEW k \in Nat, NEW a, NEW t,
         Tells(v, from, c, k, a, t)
  PROVE  LET w == append_to(v, i, text)
         IN  /\ i = c => Tells(w, from, c, k, a \o text, t)
             /\ i = k => Tells(w, from, c, k, a, t \o text)
<1>1. PICK n \in Nat : n = Len(v.entries) /\ DOMAIN v.entries = 1..n
  BY LenProperties DEF ViewKinds
<1> SUFFICES ASSUME i = c \/ i = k
             PROVE  LET w == append_to(v, i, text)
                    IN  /\ i = c => Tells(w, from, c, k, a \o text, t)
                        /\ i = k => Tells(w, from, c, k, a, t \o text)
  OBVIOUS
<1>2. i \in 1..n
  <2>1. Final(c, AnswersAfter(v, from)) /\ Final(k, ThoughtsAfter(v, from))
    BY DEF Tells
  <2>2. i \in AnswersAfter(v, from) \/ i \in ThoughtsAfter(v, from)
    BY <2>1 DEF Final
  <2> QED
    BY <1>1, <2>2, AfterType
<1> DEFINE w == append_to(v, i, text)
<1>3. w = [entries |-> [v.entries EXCEPT ![i].text = @ \o text], scroll |-> 0]
  BY <1>1, <1>2 DEF append_to
<1>4. w \in ViewKinds /\ Keeps(w, v) /\ n = Len(w.entries)
  BY <1>1, AppendKeeps
<1> HIDE DEF w
<1>5. \A j \in 1..n : v.entries[j] \in EntryKinds
  BY <1>1 DEF ViewKinds
<1>6. w.entries[i].text = v.entries[i].text \o text
  BY <1>1, <1>2, <1>3, <1>5 DEF EntryKinds
<1>7. \A j \in 1..n : j # i => w.entries[j].text = v.entries[j].text
  BY <1>1, <1>3
<1>8. /\ i = c => Tells(w, from, c, k, a \o text, t)
      /\ i = k => Tells(w, from, c, k, a, t \o text)
  BY <1>1, <1>2, <1>4, <1>6, <1>7, TellsGrow
<1> QED
  BY <1>8 DEF w

LEMMA FoldTells ==
  ASSUME NEW v \in ViewKinds, NEW i \in DOMAIN v.entries, NEW b \in BOOLEAN,
         NEW from \in Nat, NEW c, NEW k, NEW a, NEW t,
         Tells(v, from, c, k, a, t)
  PROVE  Tells([v EXCEPT !.entries[i].collapsed = b], from, c, k, a, t)
<1>1. PICK n \in Nat : n = Len(v.entries) /\ DOMAIN v.entries = 1..n
  BY LenProperties DEF ViewKinds
<1> DEFINE w == [v EXCEPT !.entries[i].collapsed = b]
<1>2. w \in ViewKinds /\ Keeps(w, v) /\ n = Len(w.entries)
  BY <1>1, FoldKeeps
<1>3. \A j \in 1..n : v.entries[j] \in EntryKinds
  BY <1>1 DEF ViewKinds
<1>4. \A j \in 1..n : w.entries[j].text = v.entries[j].text
  BY <1>1, <1>3 DEF ViewKinds, EntryKinds
<1> HIDE DEF w
<1>5. Tells(w, from, c, k, a, t)
  BY <1>1, <1>2, <1>4, TellsFold
<1> QED
  BY <1>5 DEF w

LEMMA FoldedTells ==
  ASSUME NEW u \in UiKinds,
         NEW from \in Nat, NEW c, NEW k, NEW a, NEW t,
         Tells(u.chat_, from, c, k, a, t)
  PROVE  Tells(Folded(u), from, c, k, a, t)
<1>1. u.chat_ \in ViewKinds
  BY DEF UiKinds
<1>2. CASE Folded(u) # u.chat_
  <2> DEFINE i == u.thinking_idx_
             v == u.chat_
  <2>1. i \in DOMAIN u.chat_.entries
    BY <1>2 DEF Folded, set_collapsed
  <2>2. Folded(u) = [u.chat_ EXCEPT !.entries[i].collapsed = TRUE]
    BY <1>2 DEF Folded, set_collapsed
  <2>3. v \in ViewKinds /\ i \in DOMAIN v.entries /\ Tells(v, from, c, k, a, t)
    BY <1>1, <2>1
  <2>4. TRUE \in BOOLEAN
    OBVIOUS
  <2> HIDE DEF i, v
  <2>5. Tells([v EXCEPT !.entries[i].collapsed = TRUE], from, c, k, a, t)
    BY <2>3, <2>4, FoldTells
  <2> QED
    BY <2>2, <2>5 DEF i, v
<1> QED
  BY <1>2

\* What the window tells of the turn whose message is the entry `from`.
UiTells(u, from, a, t) == Tells(u.chat_, from, u.content_idx_, u.thinking_idx_, a, t)

LEMMA ShowReasoningTells ==
  ASSUME NEW u \in UiKinds, NEW text \in TextKinds, NEW from \in Nat, NEW a, NEW t,
         UiTells(u, from, a, t)
  PROVE  UiTells(ShowReasoning(u, text), from, a, t \o text)
<1> DEFINE v == IF u.thinking_idx_ = 0 THEN add_thinking(u.chat_) ELSE u.chat_
           i == IF u.thinking_idx_ = 0 THEN Len(v.entries) ELSE u.thinking_idx_
           x == append_to(v, i, text)
           w == [u EXCEPT !.chat_ = x, !.thinking_idx_ = i]
<1>1. ShowReasoning(u, text) = w
  BY DEF ShowReasoning
<1>2. /\ u.chat_ \in ViewKinds /\ u.thinking_idx_ \in Nat /\ u.content_idx_ \in Nat
      /\ Len(u.chat_.entries) \in Nat
  BY LenProperties DEF UiKinds, ViewKinds
<1>3. PICK c \in Nat : c = u.content_idx_
  BY <1>2
<1>4. PICK k \in Nat : k = u.thinking_idx_
  BY <1>2
<1>5. Tells(u.chat_, from, c, k, a, t)
  BY <1>3, <1>4 DEF UiTells
<1>6. v \in ViewKinds /\ i \in Nat /\ i # 0 /\ Tells(v, from, c, i, a, t)
  <2>1. CASE k = 0
    <3>1. v = add_thinking(u.chat_)
      BY <1>4, <2>1
    <3>2. i = Len(v.entries)
      BY <1>4, <2>1
    <3> HIDE DEF v, i
    <3>3. v \in ViewKinds /\ Len(v.entries) = Len(u.chat_.entries) + 1
      BY <1>2, <3>1, ThinkingKeeps
    <3>4. Tells(v, from, c, Len(u.chat_.entries) + 1, a, t)
      BY <1>2, <1>5, <3>1, ThinkingTells
    <3> QED
      BY <1>2, <3>2, <3>3, <3>4
  <2>2. CASE k # 0
    <3>1. v = u.chat_ /\ i = k
      BY <1>4, <2>2
    <3> HIDE DEF v, i
    <3> QED
      BY <1>2, <1>5, <2>2, <3>1
  <2> QED
    BY <2>1, <2>2
<1> HIDE DEF v, i
<1>7. Tells(x, from, c, i, a, t \o text)
  BY <1>6, AppendTells
<1> HIDE DEF x
<1>8. w.chat_ = x /\ w.thinking_idx_ = i /\ w.content_idx_ = c
  BY <1>3 DEF UiKinds
<1> QED
  BY <1>1, <1>7, <1>8 DEF UiTells

LEMMA ShowDeltaTells ==
  ASSUME NEW u \in UiKinds, NEW text \in TextKinds, NEW from \in Nat, NEW a, NEW t,
         UiTells(u, from, a, t)
  PROVE  UiTells(ShowDelta(u, text), from, a \o text, t)
<1> DEFINE star == "* "
<1> DEFINE v == IF u.content_idx_ = 0 THEN add(Folded(u), star, <<>>) ELSE u.chat_
           i == IF u.content_idx_ = 0 THEN Len(v.entries) ELSE u.content_idx_
           x == append_to(v, i, text)
           w == [u EXCEPT !.chat_ = x, !.content_idx_ = i]
<1>1. ShowDelta(u, text) = w
  BY DEF ShowDelta
<1>0. star \in Speakers /\ \A e : e.speaker = star => IsAnswer(e)
  BY Zenon DEF Speakers, IsAnswer
<1> HIDE DEF star
<1>2. /\ u.chat_ \in ViewKinds /\ u.thinking_idx_ \in Nat /\ u.content_idx_ \in Nat
      /\ Len(u.chat_.entries) \in Nat
  BY LenProperties DEF UiKinds, ViewKinds
<1>3. PICK c \in Nat : c = u.content_idx_
  BY <1>2
<1>4. PICK k \in Nat : k = u.thinking_idx_
  BY <1>2
<1>5. Tells(u.chat_, from, c, k, a, t)
  BY <1>3, <1>4 DEF UiTells
<1>6. v \in ViewKinds /\ i \in Nat /\ i # 0 /\ Tells(v, from, i, k, a, t)
  <2>1. CASE c = 0
    <3>1. PICK f : f = Folded(u)
      OBVIOUS
    <3>2. v = add(f, star, <<>>)
      BY <1>3, <2>1, <3>1
    <3>3. i = Len(v.entries)
      BY <1>3, <2>1
    <3> HIDE DEF v, i
    <3>4. f \in ViewKinds /\ Len(f.entries) = Len(u.chat_.entries)
      BY <3>1, FoldedKeeps
    <3>5. Tells(f, from, c, k, a, t)
      BY <1>5, <3>1, FoldedTells
    <3>6. v \in ViewKinds /\ Len(v.entries) = Len(f.entries) + 1
      BY <1>0, <3>2, <3>4, NoText, AddKeeps
    <3>7. Tells(v, from, Len(f.entries) + 1, k, a, t)
      BY <1>0, <3>2, <3>4, <3>5, AnswerTells
    <3> QED
      BY <1>2, <3>3, <3>4, <3>6, <3>7
  <2>2. CASE c # 0
    <3>1. v = u.chat_ /\ i = c
      BY <1>3, <2>2
    <3> HIDE DEF v, i
    <3> QED
      BY <1>2, <1>5, <2>2, <3>1
  <2> QED
    BY <2>1, <2>2
<1> HIDE DEF v, i
<1>7. Tells(x, from, i, k, a \o text, t)
  BY <1>6, AppendTells
<1> HIDE DEF x
<1>8. w.chat_ = x /\ w.thinking_idx_ = k /\ w.content_idx_ = i
  BY <1>4 DEF UiKinds
<1> QED
  BY <1>1, <1>7, <1>8 DEF UiTells

LEMMA ShowToolTells ==
  ASSUME NEW u \in UiKinds, NEW event \in EventKinds, NEW from \in Nat, NEW a, NEW t,
         UiTells(u, from, a, t)
  PROVE  UiTells(ShowTool(u, event), from, a, t)
<1> DEFINE x == IF event.type = "ToolInfo" THEN add(u.chat_, "", event.text)
                ELSE add_tool_output(u.chat_, event.text)
           w == [u EXCEPT !.chat_ = x, !.content_idx_ = 0]
<1>1. ShowTool(u, event) = w
  BY DEF ShowTool
<1>2. PICK v \in ViewKinds : v = u.chat_
  BY DEF UiKinds
<1>3. PICK text \in TextKinds : text = event.text
  BY DEF EventKinds
<1>4. PICK c \in Nat : c = u.content_idx_
  BY DEF UiKinds
<1>5. PICK k \in Nat : k = u.thinking_idx_
  BY DEF UiKinds
<1>6. Tells(v, from, c, k, a, t)
  BY <1>2, <1>4, <1>5 DEF UiTells
<1>7. "" \in Speakers
  BY Zenon DEF Speakers
<1>8. Tells(add(v, "", text), from, c, k, a, t)
  BY <1>6, <1>7, BlankAnswers, AddTells
<1>9. Tells(add_tool_output(v, text), from, c, k, a, t)
  BY <1>6, ToolTells
<1>10. Tells(x, from, c, k, a, t)
  BY <1>2, <1>3, <1>8, <1>9
<1> HIDE DEF x
<1>11. w.chat_ = x /\ w.thinking_idx_ = k /\ w.content_idx_ = 0
  BY <1>5 DEF UiKinds
<1> QED
  BY <1>1, <1>10, <1>11, TellsForget DEF UiTells

LEMMA ShowEndTells ==
  ASSUME NEW u \in UiKinds, NEW event \in EventKinds, Joins(event), NEW from \in Nat,
         NEW a, NEW t, UiTells(u, from, a, t)
  PROVE  UiTells(ShowEnd(u, event), from, a, t)
<1>1. PICK v \in ViewKinds : v = u.chat_
  BY DEF UiKinds
<1>2. PICK f \in ViewKinds : f = Folded(u)
  BY FoldedKeeps
<1>3. PICK c \in Nat : c = u.content_idx_
  BY DEF UiKinds
<1>4. PICK k \in Nat : k = u.thinking_idx_
  BY DEF UiKinds
<1>5. Tells(v, from, c, k, a, t) /\ Tells(f, from, c, k, a, t)
  BY <1>1, <1>2, <1>3, <1>4, FoldedTells DEF UiTells
<1>6. "" \in Speakers /\ "error" \in Speakers
  BY Zenon DEF Speakers
<1>7. Tells(add(f, "", <<>>), from, c, k, a, t)
  BY <1>5, <1>6, BlankAnswers, NoText, AddTells
<1>8. Tells(add(v, "error", <<>>), from, c, k, a, t)
  BY <1>5, <1>6, ErrorAnswers, NoText, AddTells
<1>9. PICK x : ShowEnd(u, event) = [u EXCEPT !.chat_ = x, !.busy_ = FALSE]
                 /\ Tells(x, from, c, k, a, t)
  <2>1. CASE event.type = "Done"
    <3>1. ShowEnd(u, event) = [u EXCEPT !.chat_ = f, !.busy_ = FALSE]
      BY <1>2, <2>1 DEF ShowEnd
    <3> QED
      BY <1>5, <3>1
  <2>2. CASE event.type = "Canceled"
    <3>1. ShowEnd(u, event) = [u EXCEPT !.chat_ = add(f, "", <<>>), !.busy_ = FALSE]
      BY <1>2, <2>2 DEF ShowEnd
    <3> QED
      BY <1>7, <3>1
  <2>3. CASE event.type = "Error"
    <3>1. ShowEnd(u, event) = [u EXCEPT !.chat_ = add(v, "error", <<>>), !.busy_ = FALSE]
      BY <1>1, <2>3 DEF ShowEnd
    <3> QED
      BY <1>8, <3>1
  <2> QED
    BY <2>1, <2>2, <2>3 DEF Joins
<1>10. PICK w : w = [u EXCEPT !.chat_ = x, !.busy_ = FALSE]
  OBVIOUS
<1>11. w.chat_ = x /\ w.thinking_idx_ = k /\ w.content_idx_ = c
  BY <1>3, <1>4, <1>10 DEF UiKinds
<1> QED
  BY <1>9, <1>10, <1>11 DEF UiTells

\* What an event adds to the texts.
Added(event, type) == IF event.type = type THEN event.text ELSE <<>>

LEMMA ShowTells ==
  ASSUME NEW u \in UiKinds, NEW event \in EventKinds, NEW from \in Nat,
         NEW a \in TextKinds, NEW t \in TextKinds, UiTells(u, from, a, t)
  PROVE  UiTells(Show(u, event), from, a \o Added(event, "Delta"),
                 t \o Added(event, "Reasoning"))
<1>1. event.type \in EventTypes /\ event.text \in TextKinds
  BY DEF EventKinds
<1>2. a \o <<>> = a /\ t \o <<>> = t
  BY TextsJoin
<1>3. CASE event.type = "Reasoning"
  <2>1. Show(u, event) = ShowReasoning(u, event.text)
    BY <1>3 DEF Show
  <2>2. Added(event, "Delta") = <<>> /\ Added(event, "Reasoning") = event.text
    BY <1>3 DEF Added
  <2> QED
    BY <1>1, <1>2, <2>1, <2>2, ShowReasoningTells
<1>4. CASE event.type = "Delta"
  <2>1. Show(u, event) = ShowDelta(u, event.text)
    BY <1>4 DEF Show
  <2>2. Added(event, "Delta") = event.text /\ Added(event, "Reasoning") = <<>>
    BY <1>4 DEF Added
  <2> QED
    BY <1>1, <1>2, <2>1, <2>2, ShowDeltaTells
<1>5. CASE event.type \in {"ToolInfo", "ToolResult"}
  <2>1. Show(u, event) = ShowTool(u, event)
    BY <1>5 DEF Show
  <2>2. Added(event, "Delta") = <<>> /\ Added(event, "Reasoning") = <<>>
    BY <1>5 DEF Added
  <2> QED
    BY <1>2, <2>1, <2>2, ShowToolTells
<1>6. CASE Joins(event)
  <2>1. Show(u, event) = ShowEnd(u, event)
    BY <1>6 DEF Show, Joins
  <2>2. Added(event, "Delta") = <<>> /\ Added(event, "Reasoning") = <<>>
    BY <1>6 DEF Added, Joins
  <2> QED
    BY <1>2, <1>6, <2>1, <2>2, ShowEndTells
<1> QED
  BY <1>1, <1>3, <1>4, <1>5, <1>6 DEF EventTypes, Joins

\* The text that the events of a type have.
TextOf(type) == [event \in EventKinds |-> Added(event, type)]
EventText(q, type) == Joined(TextOf(type), q)

LEMMA TextOfType ==
  ASSUME NEW type
  PROVE  /\ TextOf(type) \in [EventKinds -> TextKinds]
         /\ \A event \in EventKinds : TextOf(type)[event] = Added(event, type)
<1>1. \A event \in EventKinds : Added(event, type) \in TextKinds
  BY NoText DEF EventKinds, Added
<1> QED
  BY <1>1 DEF TextOf

LEMMA EventTextType ==
  ASSUME NEW type, NEW q \in Seq(EventKinds)
  PROVE  EventText(q, type) \in TextKinds
<1>1. TextOf(type) \in [EventKinds -> TextKinds]
  BY TextOfType
<1> QED
  BY <1>1, JoinedType DEF EventText

LEMMA EventTextConcat ==
  ASSUME NEW type, NEW q \in Seq(EventKinds), NEW r \in Seq(EventKinds)
  PROVE  EventText(q \o r, type) = EventText(q, type) \o EventText(r, type)
<1>1. TextOf(type) \in [EventKinds -> TextKinds]
  BY TextOfType
<1> QED
  BY <1>1, JoinedConcat DEF EventText

\* Events of other types say nothing.
LEMMA EventTextNothing ==
  ASSUME NEW type, NEW q \in Seq(EventKinds), \A i \in 1..Len(q) : q[i].type # type
  PROVE  EventText(q, type) = <<>>
<1>1. PICK n \in Nat : n = Len(q) /\ \A i \in 1..n : q[i] \in EventKinds
  BY LenProperties, ElementOfSeq
<1>2. /\ TextOf(type) \in [EventKinds -> TextKinds]
      /\ \A event \in EventKinds : TextOf(type)[event] = Added(event, type)
  BY TextOfType
<1>3. \A i \in 1..Len(q) : TextOf(type)[q[i]] = <<>>
  BY <1>1, <1>2 DEF Added
<1> QED
  BY <1>2, <1>3, JoinedNothing DEF EventText

LEMMA EventTextEmpty ==
  ASSUME NEW type
  PROVE  EventText(<<>>, type) = <<>>
<1>1. <<>> \in Seq(EventKinds)
  OBVIOUS
<1>2. PICK q \in Seq(EventKinds) : q = <<>>
  BY <1>1
<1>3. \A i \in 1..Len(q) : q[i].type # type
  BY <1>2
<1> QED
  BY <1>2, <1>3, EventTextNothing

\* Texts that only grow at their end.
LEMMA JoinedTwice ==
  ASSUME NEW s \in TextKinds, NEW t \in TextKinds, NEW u \in TextKinds
  PROVE  (s \o t) \o u = s \o (t \o u)
BY Concats DEF TextKinds

LEMMA ShowOnTells ==
  ASSUME NEW u \in UiKinds, NEW event \in EventKinds, NEW from \in Nat,
         NEW a \in TextKinds, NEW t \in TextKinds, NEW x \in TextKinds, NEW y \in TextKinds,
         UiTells(u, from, a \o x, t \o y)
  PROVE  UiTells(Show(u, event), from, a \o (x \o Added(event, "Delta")),
                 t \o (y \o Added(event, "Reasoning")))
<1>1. Added(event, "Delta") \in TextKinds /\ Added(event, "Reasoning") \in TextKinds
  BY NoText DEF EventKinds, Added
<1>2. a \o x \in TextKinds /\ t \o y \in TextKinds
  BY TextsJoin
<1>3. UiTells(Show(u, event), from, (a \o x) \o Added(event, "Delta"),
              (t \o y) \o Added(event, "Reasoning"))
  BY <1>2, ShowTells
<1>4. (a \o x) \o Added(event, "Delta") = a \o (x \o Added(event, "Delta"))
  <2>1. PICK d \in TextKinds : d = Added(event, "Delta")
    BY <1>1
  <2>2. (a \o x) \o d = a \o (x \o d)
    BY ONLY a \in TextKinds, x \in TextKinds, d \in TextKinds, JoinedTwice
  <2> QED
    BY <2>1, <2>2
<1>5. (t \o y) \o Added(event, "Reasoning") = t \o (y \o Added(event, "Reasoning"))
  <2>1. PICK d \in TextKinds : d = Added(event, "Reasoning")
    BY <1>1
  <2>2. (t \o y) \o d = t \o (y \o d)
    BY ONLY t \in TextKinds, y \in TextKinds, d \in TextKinds, JoinedTwice
  <2> QED
    BY <2>1, <2>2
<1> QED
  BY <1>3, <1>4, <1>5

LEMMA EventTextRun ==
  ASSUME NEW type, NEW q \in Seq(EventKinds)
  PROVE  \E r \in [0..Len(q) -> TextKinds] :
           /\ r[0] = <<>>
           /\ \A i \in 1..Len(q) : r[i] = r[i - 1] \o Added(q[i], type)
           /\ EventText(q, type) = r[Len(q)]
<1>1. PICK n \in Nat : n = Len(q) /\ \A i \in 1..n : q[i] \in EventKinds
  BY LenProperties, ElementOfSeq
<1>2. PICK f \in [EventKinds -> TextKinds] :
        f = TextOf(type) /\ \A event \in EventKinds : f[event] = Added(event, type)
  BY TextOfType
<1>3. \E r \in [0..Len(q) -> TextKinds] :
        /\ r[0] = <<>>
        /\ \A i \in 1..Len(q) : r[i] = r[i - 1] \o f[q[i]]
        /\ Joined(f, q) = r[Len(q)]
  BY JoinedRun
<1> QED
  BY <1>1, <1>2, <1>3 DEF EventText

LEMMA ShowAllTells ==
  ASSUME NEW u \in UiKinds, NEW q \in Seq(EventKinds), NEW from \in Nat,
         NEW a \in TextKinds, NEW t \in TextKinds, UiTells(u, from, a, t)
  PROVE  UiTells(FoldLeft(Show, u, q), from, a \o EventText(q, "Delta"),
                 t \o EventText(q, "Reasoning"))
<1>1. PICK n \in Nat : n = Len(q) /\ \A i \in 1..n : q[i] \in EventKinds
  BY LenProperties, ElementOfSeq
<1>3. a \o <<>> = a /\ t \o <<>> = t
  BY TextsJoin
<1>2. PICK run \in [0..n -> UiKinds] :
        /\ run[0] = u
        /\ \A i \in 1..n : run[i] = Show(run[i - 1], q[i])
        /\ FoldLeft(Show, u, q) = run[n]
  BY <1>1, ShowRun
<1>4. PICK d \in [0..n -> TextKinds] :
        /\ d[0] = <<>>
        /\ \A i \in 1..n : d[i] = d[i - 1] \o Added(q[i], "Delta")
        /\ EventText(q, "Delta") = d[n]
  BY <1>1, EventTextRun
<1>5. PICK r \in [0..n -> TextKinds] :
        /\ r[0] = <<>>
        /\ \A i \in 1..n : r[i] = r[i - 1] \o Added(q[i], "Reasoning")
        /\ EventText(q, "Reasoning") = r[n]
  BY <1>1, EventTextRun
<1> DEFINE Good(i) == UiTells(run[i], from, a \o d[i], t \o r[i])
           G == {i \in 0..n : Good(i)}
<1>6. 0 \in G
  <2>1. run[0] = u /\ d[0] = <<>> /\ r[0] = <<>>
    BY <1>2, <1>4, <1>5
  <2>2. Good(0)
    BY <1>3, <2>1
  <2> HIDE DEF Good
  <2> QED
    BY <2>2
<1>7. ASSUME NEW i \in 1..n, i - 1 \in G PROVE i \in G
  <2>1. i - 1 \in 0..n /\ i \in 0..n
    OBVIOUS
  <2>2. PICK v \in UiKinds : v = run[i - 1]
    BY <2>1
  <2>3. PICK x \in TextKinds : x = d[i - 1]
    BY <2>1
  <2>4. PICK y \in TextKinds : y = r[i - 1]
    BY <2>1
  <2>5. PICK e \in EventKinds : e = q[i]
    BY <1>1
  <2>8. UiTells(v, from, a \o x, t \o y)
    BY <1>7, <2>2, <2>3, <2>4
  <2>9. UiTells(Show(v, e), from, a \o (x \o Added(e, "Delta")),
                t \o (y \o Added(e, "Reasoning")))
    BY <2>8, ShowOnTells
  <2>11. run[i] = Show(v, e) /\ d[i] = x \o Added(e, "Delta") /\ r[i] = y \o Added(e, "Reasoning")
    BY <1>2, <1>4, <1>5, <2>2, <2>3, <2>4, <2>5
  <2>12. Good(i)
    BY <2>9, <2>11
  <2> HIDE DEF Good
  <2> QED
    BY <2>1, <2>12
<1>8. Good(n)
  <2> HIDE DEF Good
  <2>1. 0..n \subseteq G
    <3> HIDE DEF G
    <3> QED
      BY <1>6, <1>7, Climb
  <2> QED
    BY <2>1
<1> QED
  BY <1>2, <1>4, <1>5, <1>8

-----------------------------------------------------------------------------
(* What the parser hears is what it makes.                                  *)

\* The parser has made c and r before, and what it has announced since.
Announces(p, c, r) ==
  /\ p.content = c \o EventText(p.heard, "Delta")
  /\ p.reasoning = r \o EventText(p.heard, "Reasoning")

LEMMA HeardEvents == Seq(HeardKinds) \subseteq Seq(EventKinds)
<1>1. HeardKinds \subseteq EventKinds
  BY Zenon DEF HeardKinds, EventKinds, EventTypes
<1> QED
  BY <1>1

\* The events for the texts of a line.
Announced(type, q) == [i \in DOMAIN q |-> [type |-> type, text |-> q[i]]]

LEMMA AnnouncedText ==
  ASSUME NEW type \in {"Delta", "Reasoning"}, NEW other \in {"Delta", "Reasoning"},
         NEW q \in Seq(TextKinds)
  PROVE  /\ Announced(type, q) \in Seq(EventKinds)
         /\ EventText(Announced(type, q), type) = FlattenSeq(q)
         /\ other # type => EventText(Announced(type, q), other) = <<>>
<1>1. PICK n \in Nat : n = Len(q) /\ DOMAIN q = 1..n /\ \A i \in 1..n : q[i] \in TextKinds
  BY LenProperties, ElementOfSeq
<1>2. Announced(type, q) \in Seq(EventKinds)
  BY HeardType, HeardEvents DEF Announced
<1>3. PICK e \in Seq(EventKinds) : e = Announced(type, q)
  BY <1>2
<1>4. /\ e = [i \in 1..n |-> [type |-> type, text |-> q[i]]]
      /\ Len(e) = n /\ \A i \in 1..n : e[i].type = type /\ e[i].text = q[i]
  <2>1. e = [i \in 1..n |-> [type |-> type, text |-> q[i]]]
    BY <1>1, <1>3 DEF Announced
  <2>2. DOMAIN e = 1..n
    BY <2>1
  <2>3. Len(e) = n
    BY <1>1, <2>2, LenProperties
  <2> QED
    BY <2>1, <2>3
<1>5. \A i \in 1..n : e[i] \in EventKinds
  BY <1>4, ElementOfSeq
<1>6. EventText(e, type) = FlattenSeq(q)
  <2>1. PICK f \in [EventKinds -> TextKinds] :
          f = TextOf(type) /\ \A event \in EventKinds : f[event] = Added(event, type)
    BY TextOfType
  <2>2. \A i \in 1..n : f[e[i]] = q[i]
    BY <1>4, <1>5, <2>1 DEF Added
  <2>3. Gathered(f, e) \in Seq(TextKinds) /\ Len(Gathered(f, e)) = n
        /\ \A i \in 1..n : Gathered(f, e)[i] = f[e[i]]
    <3>1. /\ Gathered(f, e) \in Seq(TextKinds) /\ Len(Gathered(f, e)) = Len(e)
          /\ \A i \in 1..Len(e) : Gathered(f, e)[i] = f[e[i]]
      BY TextsType
    <3> QED
      BY <1>4, <3>1
  <2>4. PICK x \in Seq(TextKinds) :
          x = Gathered(f, e) /\ Len(x) = n /\ \A i \in 1..n : x[i] = q[i]
    BY <2>2, <2>3
  <2>5. x = q
    BY <1>1, <2>4, SeqEqual
  <2> QED
    BY <2>1, <2>4, <2>5 DEF EventText, Joined
<1>7. ASSUME other # type PROVE EventText(e, other) = <<>>
  <2>1. \A i \in 1..Len(e) : e[i].type # other
    BY <1>4, <1>7
  <2> QED
    BY <2>1, EventTextNothing
<1> QED
  BY <1>2, <1>3, <1>6, <1>7

LEMMA ChunkAnnounces ==
  ASSUME NEW p \in ParserKinds, NEW line \in LineKinds, NEW c \in TextKinds, NEW r \in TextKinds,
         Announces(p, c, r)
  PROVE  Announces(process_chunk(p, line), c, r)
<1> DEFINE Cat(s, t) == s \o t
<1>0. \A s, t, u \in TextKinds : Cat(Cat(s, t), u) = Cat(s, Cat(t, u))
  BY JoinedTwice
<1> HIDE DEF Cat
<1>1. PICK h \in Seq(EventKinds) : h = p.heard
  BY HeardEvents DEF ParserKinds
<1>2. line.content \in Seq(TextKinds) /\ line.reasoning \in Seq(TextKinds)
  BY DEF LineKinds
<1>3. PICK d \in Seq(EventKinds) : d = Announced("Delta", line.content)
  BY <1>2, AnnouncedText
<1>4. PICK t \in Seq(EventKinds) : t = Announced("Reasoning", line.reasoning)
  BY <1>2, AnnouncedText
<1>5. PICK x \in TextKinds : x = FlattenSeq(line.content)
  BY <1>2, FlattenType DEF TextKinds
<1>6. PICK y \in TextKinds : y = FlattenSeq(line.reasoning)
  BY <1>2, FlattenType DEF TextKinds
<1>7. /\ EventText(d, "Delta") = x /\ EventText(d, "Reasoning") = <<>>
      /\ EventText(t, "Delta") = <<>> /\ EventText(t, "Reasoning") = y
  <2>1. EventText(d, "Delta") = x /\ EventText(d, "Reasoning") = <<>>
    BY <1>2, <1>3, <1>5, AnnouncedText
  <2>2. EventText(t, "Delta") = <<>> /\ EventText(t, "Reasoning") = y
    BY <1>2, <1>4, <1>6, AnnouncedText
  <2> QED
    BY <2>1, <2>2
<1>8. PICK hd \in TextKinds : hd = EventText(h, "Delta")
  BY EventTextType
<1>9. PICK hr \in TextKinds : hr = EventText(h, "Reasoning")
  BY EventTextType
<1>10. ASSUME NEW type PROVE EventText((h \o d) \o t, type)
                               = (EventText(h, type) \o EventText(d, type)) \o EventText(t, type)
  <2>1. h \o d \in Seq(EventKinds)
    BY ConcatProperties
  <2>2. EventText((h \o d) \o t, type) = EventText(h \o d, type) \o EventText(t, type)
    BY <2>1, EventTextConcat
  <2>3. EventText(h \o d, type) = EventText(h, type) \o EventText(d, type)
    BY EventTextConcat
  <2> QED
    BY <2>2, <2>3
<1>11. (hd \o x) \o <<>> = hd \o x /\ (hr \o <<>>) \o y = hr \o y
  BY TextsJoin
<1>12. /\ EventText((h \o d) \o t, "Delta") = hd \o x
       /\ EventText((h \o d) \o t, "Reasoning") = hr \o y
  <2>1. EventText((h \o d) \o t, "Delta") = (hd \o x) \o <<>>
    BY <1>7, <1>8, <1>10
  <2>2. EventText((h \o d) \o t, "Reasoning") = (hr \o <<>>) \o y
    BY <1>7, <1>9, <1>10
  <2> QED
    BY <1>11, <2>1, <2>2
<1>13. (c \o hd) \o x = c \o (hd \o x)
  <2>1. Cat(Cat(c, hd), x) = Cat(c, Cat(hd, x))
    BY <1>0
  <2> QED
    BY <2>1 DEF Cat
<1>14. (r \o hr) \o y = r \o (hr \o y)
  <2>1. Cat(Cat(r, hr), y) = Cat(r, Cat(hr, y))
    BY <1>0
  <2> QED
    BY <2>1 DEF Cat
<1> DEFINE w == process_chunk(p, line)
<1>15. /\ w.content = p.content \o FlattenSeq(line.content)
       /\ w.reasoning = p.reasoning \o FlattenSeq(line.reasoning)
       /\ w.heard = (p.heard \o Announced("Delta", line.content))
                      \o Announced("Reasoning", line.reasoning)
  BY DEF process_chunk, ParserKinds, Announced
<1> HIDE DEF w
<1>16. w.content = (c \o hd) \o x
  BY <1>1, <1>5, <1>8, <1>15 DEF Announces
<1>17. w.reasoning = (r \o hr) \o y
  BY <1>1, <1>6, <1>9, <1>15 DEF Announces
<1>18. w.heard = (h \o d) \o t
  BY <1>1, <1>3, <1>4, <1>15
<1>19. Announces(w, c, r)
  BY <1>12, <1>13, <1>14, <1>16, <1>17, <1>18 DEF Announces
<1> QED
  BY <1>19 DEF w

LEMMA LineAnnounces ==
  ASSUME NEW p \in ParserKinds, NEW bytes \in Seq(ByteKinds), NEW c \in TextKinds,
         NEW r \in TextKinds, Announces(p, c, r)
  PROVE  Announces(process_line(p, bytes), c, r)
<1>1. CASE ~Whole(bytes) \/ bytes[1].line.kind = "skipped"
  BY <1>1 DEF process_line
<1>2. CASE Whole(bytes) /\ bytes[1].line.kind = "done"
  <2>1. process_line(p, bytes) = [p EXCEPT !.done = TRUE]
    BY <1>2 DEF process_line
  <2> QED
    BY <2>1 DEF Announces, ParserKinds
<1>3. CASE Whole(bytes) /\ bytes[1].line.kind \notin {"skipped", "done"}
  <2>1. bytes # <<>>
    BY <1>3 DEF Whole
  <2>2. bytes[1] \in ByteKinds
    BY <2>1, EmptySeq, ElementOfSeq
  <2>3. bytes[1].line \in LineKinds
    BY <2>2 DEF ByteKinds
  <2>4. process_line(p, bytes) = process_chunk(p, bytes[1].line)
    BY <1>3 DEF process_line
  <2> QED
    BY <2>3, <2>4, ChunkAnnounces
<1> QED
  BY <1>1, <1>2, <1>3

LEMMA TakeAnnounces ==
  ASSUME NEW p \in ParserKinds, NEW c \in TextKinds, NEW r \in TextKinds,
         Announces(p, c, r)
  PROVE  Announces(TakeLine(p), c, r)
<1>1. CASE TakeLine(p) # p
  <2>1. PICK line \in Seq(ByteKinds), rest \in Seq(ByteKinds) :
          TakeLine(p) = [process_line(p, line) EXCEPT !.buffer = rest]
    BY <1>1, TakeIs
  <2>2. PICK w \in ParserKinds : w = process_line(p, line)
    BY LineType
  <2>3. Announces(w, c, r)
    BY <2>2, LineAnnounces
  <2>4. /\ TakeLine(p).content = w.content /\ TakeLine(p).reasoning = w.reasoning
        /\ TakeLine(p).heard = w.heard
    BY <2>1, <2>2 DEF ParserKinds
  <2> QED
    BY <2>3, <2>4 DEF Announces
<1> QED
  BY <1>1

LEMMA FeedAnnounces ==
  ASSUME NEW p \in ParserKinds, NEW bytes \in Seq(ByteKinds), NEW c \in TextKinds,
         NEW r \in TextKinds, Announces(p, c, r)
  PROVE  Announces(feed(p, bytes), c, r)
<1>1. PICK s \in ParserKinds : s = [p EXCEPT !.buffer = @ \o bytes]
  <2>1. p.buffer \o bytes \in Seq(ByteKinds)
    BY ConcatProperties DEF ParserKinds
  <2> QED
    BY <2>1 DEF ParserKinds
<1>2. Announces(s, c, r)
  BY <1>1 DEF Announces, ParserKinds
<1>3. PICK n \in Nat : n = Len(s.buffer)
  BY LenProperties DEF ParserKinds
<1>4. feed(p, bytes) = TakeLines(s)
  BY <1>1 DEF feed
<1>5. PICK run \in [0..n -> ParserKinds] :
        /\ run[0] = s
        /\ \A i \in 1..n : run[i] = TakeLine(run[i - 1])
        /\ TakeLines(s) = run[n]
  BY <1>3, TakeRun
<1> DEFINE G == {i \in 0..n : Announces(run[i], c, r)}
<1>6. 0 \in G
  BY <1>2, <1>5
<1>7. ASSUME NEW i \in 1..n, i - 1 \in G PROVE i \in G
  <2>1. i - 1 \in 0..n /\ i \in 0..n
    OBVIOUS
  <2>2. PICK w \in ParserKinds : w = run[i - 1]
    BY <2>1
  <2>3. Announces(w, c, r) /\ run[i] = TakeLine(w)
    BY <1>5, <1>7, <2>2
  <2>4. Announces(run[i], c, r)
    BY <2>3, TakeAnnounces
  <2> QED
    BY <2>1, <2>4
<1>8. n \in G
  <2> HIDE DEF G
  <2>1. 0..n \subseteq G
    BY <1>6, <1>7, Climb
  <2> QED
    BY <2>1
<1> QED
  BY <1>4, <1>5, <1>8

-----------------------------------------------------------------------------
(* The texts of a turn.                                                     *)

\* What a round leaves of its reply.
RoundKinds == [content : TextKinds, reasoning : TextKinds]
ContentOf == [made \in RoundKinds |-> made.content]
ReasoningOf == [made \in RoundKinds |-> made.reasoning]

AnswerMade ==
  Joined(ContentOf, rounds) \o (IF phase = "transfer" THEN parser.content ELSE <<>>)
ThoughtMade ==
  Joined(ReasoningOf, rounds) \o (IF phase = "transfer" THEN parser.reasoning ELSE <<>>)

\* What the chat tells and what is queued, together, is what has been made.
Balanced(a, t) ==
  /\ UiTells(ui, start, a, t)
  /\ a \o EventText(queue, "Delta") = AnswerMade
  /\ t \o EventText(queue, "Reasoning") = ThoughtMade

\* Between two writes of the network all that the parser has heard is queued.
TextInv ==
  /\ parser.heard = <<>>
  /\ rounds \in Seq(RoundKinds)
  /\ start # 0 => \E a, t \in TextKinds : Balanced(a, t)

LEMMA FieldTypes ==
  /\ ContentOf \in [RoundKinds -> TextKinds] /\ ReasoningOf \in [RoundKinds -> TextKinds]
  /\ \A made \in RoundKinds :
       ContentOf[made] = made.content /\ ReasoningOf[made] = made.reasoning
BY DEF ContentOf, ReasoningOf, RoundKinds

\* The chat is not touched, and neither what is queued nor what has been made says
\* anything else.
LEMMA BalancedStep ==
  ASSUME TextInv, UNCHANGED <<ui, start>>,
         EventText(queue', "Delta") = EventText(queue, "Delta"),
         EventText(queue', "Reasoning") = EventText(queue, "Reasoning"),
         AnswerMade' = AnswerMade, ThoughtMade' = ThoughtMade,
         parser'.heard = <<>>, rounds' \in Seq(RoundKinds)
  PROVE  TextInv'
<1>1. \A a, t : Balanced(a, t) => Balanced(a, t)'
  BY DEF Balanced
<1> QED
  BY <1>1 DEF TextInv

\* Events without a text of the reply are queued.
LEMMA QueueQuiet ==
  ASSUME queue \in Seq(EventKinds), NEW q \in Seq(EventKinds),
         \A i \in 1..Len(q) : q[i].type \notin {"Delta", "Reasoning"}, queue' = queue \o q
  PROVE  /\ EventText(queue', "Delta") = EventText(queue, "Delta")
         /\ EventText(queue', "Reasoning") = EventText(queue, "Reasoning")
<1>1. ASSUME NEW type \in {"Delta", "Reasoning"}
      PROVE  EventText(queue', type) = EventText(queue, type)
  <2>1. EventText(q, type) = <<>>
    <3>1. \A i \in 1..Len(q) : q[i].type # type
      OBVIOUS
    <3> QED
      BY <3>1, EventTextNothing
  <2>2. EventText(queue \o q, type) = EventText(queue, type) \o EventText(q, type)
    BY EventTextConcat
  <2>3. PICK x \in TextKinds : x = EventText(queue, type)
    BY EventTextType
  <2>4. x \o <<>> = x
    BY TextsJoin
  <2>5. EventText(queue \o q, type) = x \o <<>>
    BY <2>1, <2>2, <2>3
  <2> QED
    BY <2>3, <2>4, <2>5
<1> QED
  BY <1>1

LEMMA PostQuiet ==
  ASSUME queue \in Seq(EventKinds), NEW type \in {"Done", "Canceled", "Error"},
         Post(Event(type, <<>>))
  PROVE  /\ EventText(queue', "Delta") = EventText(queue, "Delta")
         /\ EventText(queue', "Reasoning") = EventText(queue, "Reasoning")
<1> DEFINE event == Event(type, <<>>)
<1>1. event \in EventKinds /\ event.type = type
  BY NoText DEF Event, EventKinds, EventTypes
<1>2. queue' = Append(queue, event)
  BY DEF Post
<1> HIDE DEF event
<1>3. <<event>> \in Seq(EventKinds) /\ Append(queue, event) = queue \o <<event>>
  BY <1>1, AppendIsConcat
<1>4. PICK q \in Seq(EventKinds) : q = <<event>>
  BY <1>3
<1>5. \A i \in 1..Len(q) : q[i].type \notin {"Delta", "Reasoning"}
  BY <1>1, <1>4
<1> QED
  BY <1>2, <1>3, <1>4, <1>5, QueueQuiet

\* A round's parser goes, and its texts are those of a round that was.
LEMMA ClosedTexts ==
  ASSUME StreamInv, TextInv, phase = "transfer", phase' # "transfer", Closed
  PROVE  /\ AnswerMade' = AnswerMade /\ ThoughtMade' = ThoughtMade
         /\ parser'.heard = <<>> /\ rounds' \in Seq(RoundKinds)
<1> DEFINE made == [content |-> parser.content, reasoning |-> parser.reasoning]
<1>1. parser.content \in TextKinds /\ parser.reasoning \in TextKinds
  BY DEF StreamInv, WorkTypes, ParserKinds
<1>2. /\ made \in RoundKinds /\ made.content = parser.content
      /\ made.reasoning = parser.reasoning
  BY <1>1 DEF RoundKinds
<1>3. rounds' = Append(rounds, made) /\ parser' = NewParser
  BY DEF Closed
<1> HIDE DEF made
<1>4. rounds \in Seq(RoundKinds)
  BY DEF TextInv
<1>5. /\ ContentOf \in [RoundKinds -> TextKinds] /\ ReasoningOf \in [RoundKinds -> TextKinds]
      /\ ContentOf[made] = parser.content /\ ReasoningOf[made] = parser.reasoning
  BY <1>2, FieldTypes
<1>6. Joined(ContentOf, rounds') = Joined(ContentOf, rounds) \o parser.content
  <2>1. Joined(ContentOf, Append(rounds, made)) = Joined(ContentOf, rounds) \o ContentOf[made]
    BY <1>2, <1>4, <1>5, JoinedAppend
  <2> QED
    BY <1>3, <1>5, <2>1
<1>7. Joined(ReasoningOf, rounds') = Joined(ReasoningOf, rounds) \o parser.reasoning
  <2>1. Joined(ReasoningOf, Append(rounds, made)) = Joined(ReasoningOf, rounds) \o ReasoningOf[made]
    BY <1>2, <1>4, <1>5, JoinedAppend
  <2> QED
    BY <1>3, <1>5, <2>1
<1>8. rounds' \in Seq(RoundKinds)
  BY <1>2, <1>3, <1>4, AppendProperties
<1>9. Joined(ContentOf, rounds') \in TextKinds /\ Joined(ReasoningOf, rounds') \in TextKinds
  BY <1>5, <1>8, JoinedType
<1>10. AnswerMade' = AnswerMade
  <2>1. AnswerMade' = Joined(ContentOf, rounds') \o <<>>
    BY DEF AnswerMade
  <2>2. AnswerMade = Joined(ContentOf, rounds')
    BY <1>6 DEF AnswerMade
  <2> QED
    BY <1>9, <2>1, <2>2, TextsJoin
<1>11. ThoughtMade' = ThoughtMade
  <2>1. ThoughtMade' = Joined(ReasoningOf, rounds') \o <<>>
    BY DEF ThoughtMade
  <2>2. ThoughtMade = Joined(ReasoningOf, rounds')
    BY <1>7 DEF ThoughtMade
  <2> QED
    BY <1>9, <2>1, <2>2, TextsJoin
<1>12. parser'.heard = <<>>
  BY <1>3 DEF NewParser
<1> QED
  BY <1>8, <1>10, <1>11, <1>12

LEMMA BeginRoundTexts == StreamInv /\ TextInv /\ BeginRound => TextInv'
<1> SUFFICES ASSUME StreamInv, TextInv, BeginRound PROVE TextInv'
  OBVIOUS
<1>1. phase = "asking" /\ UNCHANGED <<ui, start, rounds>> /\ queue \in Seq(EventKinds)
  BY DEF BeginRound, StreamInv, RestTypes
<1>2. AnswerMade = Joined(ContentOf, rounds) \o <<>>
  BY <1>1 DEF AnswerMade
<1>3. ThoughtMade = Joined(ReasoningOf, rounds) \o <<>>
  BY <1>1 DEF ThoughtMade
<1>4. CASE \E type \in {"Canceled", "Error"} : Post(Event(type, <<>>)) /\ UNCHANGED parser
  <2>1. PICK type \in {"Canceled", "Error"} : Post(Event(type, <<>>)) /\ UNCHANGED parser
    BY <1>4
  <2>2. phase' # "transfer"
    BY <2>1 DEF Post
  <2>3. AnswerMade' = AnswerMade /\ ThoughtMade' = ThoughtMade
    BY <1>1, <1>2, <1>3, <2>2 DEF AnswerMade, ThoughtMade
  <2>4. /\ EventText(queue', "Delta") = EventText(queue, "Delta")
        /\ EventText(queue', "Reasoning") = EventText(queue, "Reasoning")
    BY <1>1, <2>1, PostQuiet
  <2>5. parser'.heard = <<>> /\ rounds' \in Seq(RoundKinds)
    BY <1>1, <2>1 DEF TextInv
  <2> QED
    BY <1>1, <2>3, <2>4, <2>5, BalancedStep
<1>5. CASE phase' = "transfer" /\ parser' = NewParser /\ UNCHANGED queue
  <2>1. /\ parser'.content = <<>> /\ parser'.reasoning = <<>> /\ parser'.heard = <<>>
    BY <1>5 DEF NewParser
  <2>2. AnswerMade' = AnswerMade /\ ThoughtMade' = ThoughtMade
    BY <1>1, <1>2, <1>3, <1>5, <2>1 DEF AnswerMade, ThoughtMade
  <2>3. rounds' \in Seq(RoundKinds)
    BY <1>1 DEF TextInv
  <2> QED
    BY <1>1, <1>5, <2>1, <2>2, <2>3, BalancedStep
<1> QED
  BY <1>4, <1>5 DEF BeginRound

\* What is heard while a piece of the reply is fed is queued.
LEMMA ReceiveTexts == StreamInv /\ TextInv /\ Receive => TextInv'
<1> SUFFICES ASSUME StreamInv, TextInv, Receive PROVE TextInv'
  OBVIOUS
<1> DEFINE Cat(s, t) == s \o t
<1>0. \A s, t, u \in TextKinds : Cat(Cat(s, t), u) = Cat(s, Cat(t, u))
  BY JoinedTwice
<1> HIDE DEF Cat
<1>1. PICK n \in 1..Len(wire) :
        IF status >= 400 THEN UNCHANGED <<parser, queue>>
        ELSE /\ parser' = [feed(parser, SubSeq(wire, 1, n)) EXCEPT !.heard = <<>>]
             /\ queue' = queue \o feed(parser, SubSeq(wire, 1, n)).heard
  BY DEF Receive
<1>2. /\ phase = "transfer" /\ phase' = "transfer"
      /\ UNCHANGED <<ui, start, rounds>>
  BY DEF Receive, logVars
<1>3. wire \in Seq(ByteKinds) /\ parser \in ParserKinds /\ queue \in Seq(EventKinds)
  BY DEF StreamInv, NetTypes, WorkTypes, RestTypes
<1>4. parser.heard = <<>> /\ rounds' \in Seq(RoundKinds)
  BY <1>2 DEF TextInv
<1>5. CASE status >= 400
  <2>1. UNCHANGED <<parser, queue>>
    BY <1>1, <1>5
  <2>2. AnswerMade' = AnswerMade /\ ThoughtMade' = ThoughtMade
    BY <1>2, <2>1 DEF AnswerMade, ThoughtMade
  <2> QED
    BY <1>2, <1>4, <2>1, <2>2, BalancedStep
<1>6. CASE ~(status >= 400)
  <2> DEFINE bytes == SubSeq(wire, 1, n)
  <2>1. bytes \in Seq(ByteKinds)
    <3>1. PICK m \in Nat : m = Len(wire)
      BY <1>3, LenProperties
    <3>2. n \in 1..m /\ \A i \in 1..n : i \in 1..m
      BY <3>1
    <3> QED
      BY <1>3, <3>1, <3>2, SubSeqProperties
  <2>2. PICK fed \in ParserKinds : fed = feed(parser, bytes)
    BY <1>3, <2>1, FeedType
  <2>3. parser' = [fed EXCEPT !.heard = <<>>] /\ queue' = queue \o fed.heard
    BY <1>1, <1>6, <2>2
  <2>4. PICK c \in TextKinds : c = parser.content
    BY <1>3 DEF ParserKinds
  <2>5. PICK r \in TextKinds : r = parser.reasoning
    BY <1>3 DEF ParserKinds
  <2>6. Announces(parser, c, r)
    <3>1. EventText(<<>>, "Delta") = <<>> /\ EventText(<<>>, "Reasoning") = <<>>
      BY EventTextEmpty
    <3> QED
      BY <1>4, <2>4, <2>5, <3>1, TextsJoin DEF Announces
  <2>7. Announces(fed, c, r)
    BY <1>3, <2>1, <2>2, <2>6, FeedAnnounces
  <2>8. PICK h \in Seq(EventKinds) : h = fed.heard
    BY HeardEvents DEF ParserKinds
  <2>9. /\ parser'.content = c \o EventText(h, "Delta")
        /\ parser'.reasoning = r \o EventText(h, "Reasoning")
        /\ parser'.heard = <<>>
    BY <2>3, <2>7, <2>8 DEF Announces, ParserKinds
  <2>10. ASSUME NEW type
         PROVE  EventText(queue', type) = EventText(queue, type) \o EventText(h, type)
    BY <1>3, <2>3, <2>8, EventTextConcat
  <2>11. AnswerMade' = AnswerMade \o EventText(h, "Delta")
    <3>1. Joined(ContentOf, rounds) \in TextKinds /\ EventText(h, "Delta") \in TextKinds
      BY FieldTypes, JoinedType, EventTextType DEF TextInv
    <3>2. AnswerMade' = Joined(ContentOf, rounds) \o (c \o EventText(h, "Delta"))
      BY <1>2, <2>9 DEF AnswerMade
    <3>3. AnswerMade = Joined(ContentOf, rounds) \o c
      BY <1>2, <2>4 DEF AnswerMade
    <3>4. Cat(Cat(Joined(ContentOf, rounds), c), EventText(h, "Delta"))
            = Cat(Joined(ContentOf, rounds), Cat(c, EventText(h, "Delta")))
      BY <1>0, <3>1
    <3> QED
      BY <3>2, <3>3, <3>4 DEF Cat
  <2>12. ThoughtMade' = ThoughtMade \o EventText(h, "Reasoning")
    <3>1. Joined(ReasoningOf, rounds) \in TextKinds /\ EventText(h, "Reasoning") \in TextKinds
      BY FieldTypes, JoinedType, EventTextType DEF TextInv
    <3>2. ThoughtMade' = Joined(ReasoningOf, rounds) \o (r \o EventText(h, "Reasoning"))
      BY <1>2, <2>9 DEF ThoughtMade
    <3>3. ThoughtMade = Joined(ReasoningOf, rounds) \o r
      BY <1>2, <2>5 DEF ThoughtMade
    <3>4. Cat(Cat(Joined(ReasoningOf, rounds), r), EventText(h, "Reasoning"))
            = Cat(Joined(ReasoningOf, rounds), Cat(r, EventText(h, "Reasoning")))
      BY <1>0, <3>1
    <3> QED
      BY <3>2, <3>3, <3>4 DEF Cat
  <2>13. ASSUME NEW a \in TextKinds, NEW t \in TextKinds, Balanced(a, t)
         PROVE  Balanced(a, t)'
    <3>1. /\ a \o EventText(queue, "Delta") = AnswerMade
          /\ t \o EventText(queue, "Reasoning") = ThoughtMade
          /\ UiTells(ui, start, a, t)
      BY <2>13 DEF Balanced
    <3>2. /\ EventText(queue, "Delta") \in TextKinds /\ EventText(queue, "Reasoning") \in TextKinds
          /\ EventText(h, "Delta") \in TextKinds /\ EventText(h, "Reasoning") \in TextKinds
      BY <1>3, EventTextType
    <3>3. (a \o EventText(queue, "Delta")) \o EventText(h, "Delta")
            = a \o (EventText(queue, "Delta") \o EventText(h, "Delta"))
      <4>1. Cat(Cat(a, EventText(queue, "Delta")), EventText(h, "Delta"))
              = Cat(a, Cat(EventText(queue, "Delta"), EventText(h, "Delta")))
        BY <1>0, <3>2
      <4> QED
        BY <4>1 DEF Cat
    <3>4. (t \o EventText(queue, "Reasoning")) \o EventText(h, "Reasoning")
            = t \o (EventText(queue, "Reasoning") \o EventText(h, "Reasoning"))
      <4>1. Cat(Cat(t, EventText(queue, "Reasoning")), EventText(h, "Reasoning"))
              = Cat(t, Cat(EventText(queue, "Reasoning"), EventText(h, "Reasoning")))
        BY <1>0, <3>2
      <4> QED
        BY <4>1 DEF Cat
    <3>5. a \o EventText(queue', "Delta") = AnswerMade'
      BY <2>10, <2>11, <3>1, <3>3
    <3>6. t \o EventText(queue', "Reasoning") = ThoughtMade'
      BY <2>10, <2>12, <3>1, <3>4
    <3> QED
      BY <1>2, <3>1, <3>5, <3>6 DEF Balanced
  <2> QED
    BY <1>2, <1>4, <2>9, <2>13 DEF TextInv
<1> QED
  BY <1>5, <1>6

LEMMA EndTransferTexts == StreamInv /\ TextInv /\ EndTransfer => TextInv'
<1> SUFFICES ASSUME StreamInv, TextInv, EndTransfer PROVE TextInv'
  OBVIOUS
<1>1. phase = "transfer" /\ Closed /\ UNCHANGED <<ui, start>> /\ queue \in Seq(EventKinds)
  BY DEF EndTransfer, StreamInv, RestTypes
<1>2. \/ \E type \in {"Error", "Done"} : Post(Event(type, <<>>))
      \/ phase' = "calls" /\ UNCHANGED queue
  BY DEF EndTransfer
<1>3. phase' # "transfer"
  BY <1>2 DEF Post
<1>4. /\ EventText(queue', "Delta") = EventText(queue, "Delta")
      /\ EventText(queue', "Reasoning") = EventText(queue, "Reasoning")
  BY <1>1, <1>2, PostQuiet
<1> QED
  BY <1>1, <1>3, <1>4, ClosedTexts, BalancedStep

LEMMA AbortTexts == StreamInv /\ TextInv /\ Abort => TextInv'
<1> SUFFICES ASSUME StreamInv, TextInv, Abort PROVE TextInv'
  OBVIOUS
<1>1. /\ phase = "transfer" /\ Closed /\ UNCHANGED <<ui, start>> /\ queue \in Seq(EventKinds)
      /\ Post(Event("Canceled", <<>>))
  BY DEF Abort, StreamInv, RestTypes
<1>2. phase' # "transfer"
  BY <1>1 DEF Post
<1>3. /\ EventText(queue', "Delta") = EventText(queue, "Delta")
      /\ EventText(queue', "Reasoning") = EventText(queue, "Reasoning")
  BY <1>1, PostQuiet
<1> QED
  BY <1>1, <1>2, <1>3, ClosedTexts, BalancedStep

LEMMA RunCallTexts == StreamInv /\ TextInv /\ RunCall => TextInv'
<1> SUFFICES ASSUME StreamInv, TextInv, RunCall PROVE TextInv'
  OBVIOUS
<1> DEFINE a == Event("ToolInfo", <<>>)
           b == Event("ToolResult", << <<round, 0>> >>)
<1>1. /\ phase = "calls" /\ phase' # "transfer" /\ queue' = queue \o <<a, b>>
      /\ UNCHANGED <<parser, ui, start, rounds>> /\ queue \in Seq(EventKinds)
  BY DEF RunCall, logVars, StreamInv, RestTypes
<1>2. /\ a \in EventKinds /\ b \in EventKinds
      /\ a.type \notin {"Delta", "Reasoning"} /\ b.type \notin {"Delta", "Reasoning"}
  <2>1. round \in Nat
    BY StreamAssumption DEF StreamInv, WorkTypes
  <2>2. << <<round, 0>> >> \in TextKinds
    BY <2>1 DEF TextKinds, WordKinds
  <2> QED
    BY <2>2, NoText DEF Event, EventKinds, EventTypes
<1> HIDE DEF a, b
<1>3. <<a, b>> \in Seq(EventKinds)
  BY <1>2
<1>4. PICK q \in Seq(EventKinds) : q = <<a, b>>
  BY <1>3
<1>5. \A i \in 1..Len(q) : q[i].type \notin {"Delta", "Reasoning"}
  BY <1>2, <1>4
<1>6. /\ EventText(queue', "Delta") = EventText(queue, "Delta")
      /\ EventText(queue', "Reasoning") = EventText(queue, "Reasoning")
  BY <1>1, <1>4, <1>5, QueueQuiet
<1>7. AnswerMade' = AnswerMade /\ ThoughtMade' = ThoughtMade
  BY <1>1 DEF AnswerMade, ThoughtMade
<1>8. parser'.heard = <<>> /\ rounds' \in Seq(RoundKinds)
  BY <1>1 DEF TextInv
<1> QED
  BY <1>1, <1>6, <1>7, <1>8, BalancedStep

LEMMA ToggleTells ==
  ASSUME NEW v \in ViewKinds, NEW from \in Nat, NEW c, NEW k, NEW a, NEW t,
         Tells(v, from, c, k, a, t)
  PROVE  Tells(toggle_last_collapsible(v), from, c, k, a, t)
<1>1. CASE toggle_last_collapsible(v) # v
  <2>1. PICK i \in DOMAIN v.entries, b \in BOOLEAN :
          toggle_last_collapsible(v) = [v EXCEPT !.entries[i].collapsed = b]
    BY <1>1, ToggleIs
  <2> QED
    BY <2>1, FoldTells
<1> QED
  BY <1>1

\* Nothing is behind the last entry.
LEMMA FreshTells ==
  ASSUME NEW v \in ViewKinds, NEW n \in Nat, n = Len(v.entries)
  PROVE  Tells(v, n, 0, 0, <<>>, <<>>)
<1>1. AnswersAfter(v, n) = {} /\ ThoughtsAfter(v, n) = {}
  <2>1. \A i : i \in AnswersAfter(v, n) => i \in 1..n /\ i > n
    BY AfterType
  <2>2. \A i : i \in ThoughtsAfter(v, n) => i \in 1..n /\ i > n
    BY AfterType
  <2>3. \A i \in 1..n : ~(i > n)
    OBVIOUS
  <2> QED
    BY <2>1, <2>2, <2>3
<1>2. TextAt(v, {}) = <<>>
  <2>1. PICK s \in Seq(TextKinds) :
          s = Masked(v.entries, {}) /\ Len(s) = n /\ \A i \in 1..n : s[i] = <<>>
    <3>1. PICK M : M = {}
      OBVIOUS
    <3>2. IsMasked(Masked(v.entries, M), v.entries, M, n)
      BY MaskedType
    <3> QED
      BY <3>1, <3>2 DEF IsMasked
  <2>2. \A i \in 1..Len(s) : s[i] = <<>>
    BY <2>1
  <2>3. FlattenSeq(s) = <<>>
    BY <2>2, FlattenNothing DEF TextKinds
  <2> QED
    BY <2>1, <2>3 DEF TextAt
<1> QED
  BY <1>1, <1>2 DEF Tells, Final

\* The user changes the view, not what it tells.
LEMMA ViewTexts ==
  ASSUME StreamInv, TextInv, NEW view \in ViewKinds, ui' = [ui EXCEPT !.chat_ = view],
         \A a, t : UiTells(ui, start, a, t)
                     => Tells(view, start, ui.content_idx_, ui.thinking_idx_, a, t),
         UNCHANGED <<phase, parser, queue, rounds, start>>
  PROVE  TextInv'
<1>1. ui \in UiKinds
  BY DEF StreamInv, RestTypes
<1>2. /\ ui'.chat_ = view /\ ui'.content_idx_ = ui.content_idx_
      /\ ui'.thinking_idx_ = ui.thinking_idx_
  BY <1>1 DEF UiKinds
<1>3. \A a, t : UiTells(ui, start, a, t) => UiTells(ui', start, a, t)
  BY <1>2 DEF UiTells
<1>4. AnswerMade' = AnswerMade /\ ThoughtMade' = ThoughtMade
  BY DEF AnswerMade, ThoughtMade
<1>5. \A a, t : Balanced(a, t) => Balanced(a, t)'
  BY <1>3, <1>4 DEF Balanced
<1> QED
  BY <1>5 DEF TextInv

LEMMA QuietTexts ==
  ASSUME TextInv, UNCHANGED <<phase, parser, queue, ui, rounds, start>>
  PROVE  TextInv'
<1>1. AnswerMade' = AnswerMade /\ ThoughtMade' = ThoughtMade
  BY DEF AnswerMade, ThoughtMade
<1> QED
  BY <1>1, BalancedStep DEF TextInv

LEMMA DrainEventsTexts == StreamInv /\ TextInv /\ DrainEvents => TextInv'
<1> SUFFICES ASSUME StreamInv, TextInv, DrainEvents PROVE TextInv'
  OBVIOUS
<1>1. /\ queue' = <<>> /\ ui' = FoldLeft(Show, ui, queue)
      /\ phase' = IF \E i \in DOMAIN queue : Joins(queue[i]) THEN "idle" ELSE phase
      /\ UNCHANGED <<parser, rounds, start>>
  BY DEF DrainEvents, logVars
<1>2. ui \in UiKinds /\ queue \in Seq(EventKinds) /\ start \in Nat
  BY DEF StreamInv, RestTypes
<1>3. phase' = "transfer" <=> phase = "transfer"
  <2>1. DOMAIN queue = 1..Len(queue)
    BY <1>2, LenProperties
  <2>2. (\E i \in DOMAIN queue : Joins(queue[i])) => phase = "posted"
    BY <2>1 DEF StreamInv, LastEvent
  <2> QED
    BY <1>1, <2>2
<1>4. AnswerMade' = AnswerMade /\ ThoughtMade' = ThoughtMade
  BY <1>1, <1>3 DEF AnswerMade, ThoughtMade
<1>5. EventText(queue', "Delta") = <<>> /\ EventText(queue', "Reasoning") = <<>>
  BY <1>1, EventTextEmpty
<1>6. ASSUME NEW a \in TextKinds, NEW t \in TextKinds, Balanced(a, t)
      PROVE  \E b, s \in TextKinds : Balanced(b, s)'
  <2>1. PICK b \in TextKinds : b = a \o EventText(queue, "Delta")
    BY <1>2, EventTextType, TextsJoin
  <2>2. PICK s \in TextKinds : s = t \o EventText(queue, "Reasoning")
    BY <1>2, EventTextType, TextsJoin
  <2>3. UiTells(ui, start, a, t) /\ b = AnswerMade /\ s = ThoughtMade
    BY <1>6, <2>1, <2>2 DEF Balanced
  <2>4. UiTells(ui', start, b, s)
    BY <1>1, <1>2, <2>1, <2>2, <2>3, ShowAllTells
  <2>5. b \o <<>> = b /\ s \o <<>> = s
    BY TextsJoin
  <2>6. Balanced(b, s)'
    BY <1>1, <1>4, <1>5, <2>3, <2>4, <2>5 DEF Balanced
  <2> QED
    BY <2>6
<1> QED
  BY <1>1, <1>6 DEF TextInv

LEMMA submitTexts == StreamInv /\ TextInv /\ submit => TextInv'
<1> SUFFICES ASSUME StreamInv, TextInv, submit PROVE TextInv'
  OBVIOUS
<1> DEFINE view == add(ui.chat_, "> ", <<>>)
<1>1. /\ queue = <<>> /\ queue' = queue /\ phase' = "asking" /\ rounds' = <<>>
      /\ ui' = [chat_ |-> view, thinking_idx_ |-> 0, content_idx_ |-> 0, busy_ |-> TRUE]
      /\ start' = Len(ui'.chat_.entries) /\ UNCHANGED parser
  BY Zenon DEF submit, StreamInv, TurnOpen, LastEvent
<1>2. view \in ViewKinds
  <2>1. ui.chat_ \in ViewKinds
    BY DEF StreamInv, RestTypes, UiKinds
  <2>2. "> " \in Speakers
    BY Zenon DEF Speakers
  <2> QED
    BY <2>1, <2>2, NoText, AddKeeps
<1> HIDE DEF view
<1>3. ui'.chat_ = view /\ ui'.thinking_idx_ = 0 /\ ui'.content_idx_ = 0
  BY <1>1
<1>4. PICK n \in Nat : n = Len(view.entries)
  BY <1>2, LenProperties DEF ViewKinds
<1>5. start' = n
  BY <1>1, <1>3, <1>4
<1>6. UiTells(ui', start', <<>>, <<>>)
  BY <1>2, <1>3, <1>4, <1>5, FreshTells DEF UiTells
<1>7. EventText(queue', "Delta") = <<>> /\ EventText(queue', "Reasoning") = <<>>
  BY <1>1, EventTextEmpty
<1>8. <<>> \o <<>> = <<>>
  BY NoText, TextsJoin
<1>9. rounds' \in Seq(RoundKinds)
  <2>1. <<>> \in Seq(RoundKinds)
    OBVIOUS
  <2> QED
    BY <1>1, <2>1
<1>10. Joined(ContentOf, rounds') = <<>> /\ Joined(ReasoningOf, rounds') = <<>>
  <2>1. \A i \in 1..Len(rounds') : FALSE
    BY <1>1
  <2>2. ContentOf \in [RoundKinds -> TextKinds] /\ ReasoningOf \in [RoundKinds -> TextKinds]
    BY FieldTypes
  <2>3. PICK q \in Seq(RoundKinds) : q = rounds' /\ \A i \in 1..Len(q) : FALSE
    BY <1>9, <2>1
  <2>4. Joined(ContentOf, q) = <<>>
    BY <2>2, <2>3, JoinedNothing
  <2>5. Joined(ReasoningOf, q) = <<>>
    BY <2>2, <2>3, JoinedNothing
  <2> QED
    BY <2>3, <2>4, <2>5
<1>11. AnswerMade' = <<>> /\ ThoughtMade' = <<>>
  BY <1>1, <1>8, <1>10 DEF AnswerMade, ThoughtMade
<1>12. Balanced(<<>>, <<>>)'
  BY <1>6, <1>7, <1>8, <1>11 DEF Balanced
<1> QED
  BY <1>1, <1>9, <1>12, NoText DEF TextInv

LEMMA EscTexts == StreamInv /\ TextInv /\ Esc => TextInv'
<1> SUFFICES ASSUME StreamInv, TextInv, Esc PROVE TextInv'
  OBVIOUS
<1>1. UNCHANGED <<phase, parser, queue, rounds, start>>
  BY DEF Esc, workVars, logVars
<1>2. CASE cancel
  <2>1. ui' = ui
    BY <1>2 DEF Esc
  <2> QED
    BY <1>1, <2>1, QuietTexts
<1>3. CASE ~cancel
  <2> DEFINE view == add(ui.chat_, "", <<>>)
  <2>1. ui' = [ui EXCEPT !.chat_ = view]
    BY <1>3 DEF Esc, StreamInv, RestTypes, UiKinds
  <2>2. /\ ui.chat_ \in ViewKinds /\ start \in Nat
        /\ ui.content_idx_ \in Nat /\ ui.thinking_idx_ \in Nat
    BY DEF StreamInv, RestTypes, UiKinds
  <2>3. "" \in Speakers
    BY Zenon DEF Speakers
  <2>4. view \in ViewKinds
    BY <2>2, <2>3, NoText, AddKeeps
  <2>5. ASSUME NEW a, NEW t, UiTells(ui, start, a, t)
        PROVE  Tells(view, start, ui.content_idx_, ui.thinking_idx_, a, t)
    BY <2>2, <2>3, <2>5, NoText, BlankAnswers, AddTells DEF UiTells
  <2> HIDE DEF view
  <2> QED
    BY <1>1, <2>1, <2>4, <2>5, ViewTexts
<1> QED
  BY <1>2, <1>3

LEMMA TabTexts == StreamInv /\ TextInv /\ Tab => TextInv'
<1> SUFFICES ASSUME StreamInv, TextInv, Tab PROVE TextInv'
  OBVIOUS
<1> DEFINE view == toggle_last_collapsible(ui.chat_)
<1>1. UNCHANGED <<phase, parser, queue, rounds, start>>
  BY DEF Tab, workVars
<1>2. ui' = [ui EXCEPT !.chat_ = view]
  BY DEF Tab, StreamInv, RestTypes, UiKinds
<1>3. ui.chat_ \in ViewKinds /\ start \in Nat
  BY DEF StreamInv, RestTypes, UiKinds
<1>4. view \in ViewKinds
  BY <1>3, ToggleKeeps
<1>5. ASSUME NEW a, NEW t, UiTells(ui, start, a, t)
      PROVE  Tells(view, start, ui.content_idx_, ui.thinking_idx_, a, t)
  BY <1>3, <1>5, ToggleTells DEF UiTells
<1> HIDE DEF view
<1> QED
  BY <1>1, <1>2, <1>4, <1>5, ViewTexts

LEMMA ClearTexts == TextInv /\ Clear => TextInv'
BY DEF Clear, TextInv, workVars

LEMMA InitTexts == Init => TextInv
<1>1. <<>> \in Seq(RoundKinds)
  OBVIOUS
<1> SUFFICES ASSUME Init PROVE TextInv
  OBVIOUS
<1>2. parser = NewParser /\ rounds = <<>> /\ start = 0
  BY Zenon DEF Init
<1>3. parser.heard = <<>>
  BY <1>2 DEF NewParser
<1> QED
  BY <1>1, <1>2, <1>3 DEF TextInv

\* The sums of the invariant are those of the property.
LEMMA ShownIs ==
  ASSUME StreamInv
  PROVE  /\ Shown(IsAnswer) = TextAt(ui.chat_, AnswersAfter(ui.chat_, start))
         /\ Shown(IsThinking) = TextAt(ui.chat_, ThoughtsAfter(ui.chat_, start))
<1> DEFINE entries == ui.chat_.entries
           A == AnswersAfter(ui.chat_, start)
           T == ThoughtsAfter(ui.chat_, start)
<1>1. [i \in DOMAIN entries |->
         IF i > start /\ IsAnswer(entries[i]) THEN entries[i].text ELSE <<>>]
        = Masked(entries, A)
  BY DEF Masked, AnswersAfter
<1>2. [i \in DOMAIN entries |->
         IF i > start /\ IsThinking(entries[i]) THEN entries[i].text ELSE <<>>]
        = Masked(entries, T)
  BY DEF Masked, ThoughtsAfter
<1> QED
  BY <1>1, <1>2 DEF Shown, TextAt

LEMMA QueuedIs ==
  ASSUME StreamInv, NEW type
  PROVE  Queued(type) = EventText(queue, type)
<1>1. queue \in Seq(EventKinds)
  BY DEF StreamInv, RestTypes
<1>2. \A i \in DOMAIN queue : queue[i] \in EventKinds
  BY <1>1
<1>3. \A event \in EventKinds : TextOf(type)[event] = Added(event, type)
  BY TextOfType
<1>4. Gathered(TextOf(type), queue)
        = [i \in DOMAIN queue |-> IF queue[i].type = type THEN queue[i].text ELSE <<>>]
  BY <1>2, <1>3 DEF Gathered, Added
<1> QED
  BY <1>4 DEF Queued, EventText, Joined

LEMMA MadeIs ==
  ASSUME TextInv
  PROVE  /\ Made(LAMBDA p : p.content) = AnswerMade
         /\ Made(LAMBDA p : p.reasoning) = ThoughtMade
<1>1. \A i \in DOMAIN rounds : rounds[i] \in RoundKinds
  BY DEF TextInv
<1>2. [i \in DOMAIN rounds |-> rounds[i].content] = Gathered(ContentOf, rounds)
  BY <1>1, FieldTypes DEF Gathered
<1>3. [i \in DOMAIN rounds |-> rounds[i].reasoning] = Gathered(ReasoningOf, rounds)
  BY <1>1, FieldTypes DEF Gathered
<1>4. Made(LAMBDA p : p.content)
        = FlattenSeq([i \in DOMAIN rounds |-> rounds[i].content])
            \o (IF phase = "transfer" THEN parser.content ELSE <<>>)
  BY DEF Made
<1>5. Made(LAMBDA p : p.reasoning)
        = FlattenSeq([i \in DOMAIN rounds |-> rounds[i].reasoning])
            \o (IF phase = "transfer" THEN parser.reasoning ELSE <<>>)
  BY DEF Made
<1> QED
  BY <1>2, <1>3, <1>4, <1>5 DEF AnswerMade, ThoughtMade, Joined

\* What the chat tells and what is queued is what the parsers have made, at every
\* moment (App.cpp:212-234, 382-405).
THEOREM TextInvariance == Spec => []TextInv
<1>1. StreamInv /\ TextInv /\ [Next]_vars => TextInv'
  <2> SUFFICES ASSUME StreamInv, TextInv, [Next]_vars PROVE TextInv'
    OBVIOUS
  <2>1. CASE UNCHANGED vars
    BY <2>1, QuietTexts DEF vars, workVars, logVars
  <2>2. CASE ServerSends
    BY <2>2, QuietTexts DEF ServerSends, workVars
  <2>3. CASE ServerEnds
    BY <2>3, QuietTexts DEF ServerEnds, workVars, logVars
  <2> QED
    BY <2>1, <2>2, <2>3, BeginRoundTexts, ReceiveTexts, EndTransferTexts, AbortTexts, RunCallTexts,
       DrainEventsTexts, submitTexts, EscTexts, TabTexts, ClearTexts DEF Next
<1> QED
  BY InitTexts, StreamInvariance, <1>1, PTL DEF Spec

\* Nothing of a reply is lost, repeated or swapped between the server's bytes and the
\* chat, however the bytes are cut and the queue is drained, through folds, cancelled
\* and failed turns (ChatResponse.cpp:26-114, App.cpp:212-234, 382-405).
THEOREM TextAlwaysConserved == Spec => []TextConserved
<1>1. StreamInv /\ TextInv => TextConserved
  <2> SUFFICES ASSUME StreamInv, TextInv, start # 0
               PROVE  /\ Shown(IsAnswer) \o Queued("Delta") = Made(LAMBDA p : p.content)
                      /\ Shown(IsThinking) \o Queued("Reasoning") = Made(LAMBDA p : p.reasoning)
    BY DEF TextConserved
  <2>1. PICK a \in TextKinds, t \in TextKinds : Balanced(a, t)
    BY DEF TextInv
  <2>2. Shown(IsAnswer) = a /\ Shown(IsThinking) = t
    BY <2>1, ShownIs DEF Balanced, UiTells, Tells
  <2>3. Queued("Delta") = EventText(queue, "Delta")
    BY QueuedIs
  <2>4. Queued("Reasoning") = EventText(queue, "Reasoning")
    BY QueuedIs
  <2> QED
    BY <2>1, <2>2, <2>3, <2>4, MadeIs DEF Balanced
<1> QED
  BY StreamInvariance, TextInvariance, <1>1, PTL

-----------------------------------------------------------------------------
(* The rounds on the screen.                                                *)

\* The answers and the tool results.
Ranked(entry) == entry.kind # "Thinking" /\ (IsAnswer(entry) \/ entry.kind = "Tool")

\* The rounds that the entries after the one of the message hold text of.
Ranks(v, from) ==
  [i \in 1..Len(v.entries) |->
     IF i > from /\ Ranked(v.entries[i]) THEN RoundsOf(v.entries[i]) ELSE {}]

\* n sets of rounds follow one another up to r, and from c on, if there is one, there
\* is only r.
InOrder(R, n, c, r) ==
  /\ \A i \in 1..n : R[i] \subseteq 0..r
  /\ \A i, j \in 1..n : i <= j => \A a \in R[i], b \in R[j] : a <= b
  /\ c # 0 => \A j \in 1..n : j >= c => R[j] \subseteq {r}

LEMMA InOrderPush ==
  ASSUME NEW R, NEW Q, NEW n \in Nat, NEW c \in Nat, NEW d \in Nat, NEW r \in Nat, NEW s \in Nat,
         InOrder(R, n, c, r), r <= s, d \in {0, n + 1} \/ (d = c /\ r = s),
         \A i \in 1..n : Q[i] = R[i], Q[n + 1] \subseteq {s}
  PROVE  InOrder(Q, n + 1, d, s)
<1>1. PICK m \in Nat : m = n + 1
  OBVIOUS
<1>2. \A i \in 1..m : i \in 1..n \/ i = m
  BY <1>1
<1>3. \A i \in 1..n : Q[i] = R[i] /\ R[i] \subseteq 0..r
  BY DEF InOrder
<1>4. \A i \in 1..m : Q[i] \subseteq 0..s
  <2> SUFFICES ASSUME NEW i \in 1..m, NEW a \in Q[i] PROVE a \in 0..s
    OBVIOUS
  <2>1. CASE i \in 1..n
    <3>1. a \in 0..r
      BY <1>3, <2>1
    <3> QED
      BY <3>1
  <2>2. CASE i = m
    BY <1>1, <2>2
  <2> QED
    BY <1>2, <2>1, <2>2
<1>5. ASSUME NEW i \in 1..m, NEW j \in 1..m, i <= j, NEW a \in Q[i], NEW b \in Q[j]
      PROVE  a <= b
  <2>1. CASE j \in 1..n
    <3>1. i \in 1..n
      BY <1>1, <1>5, <2>1
    <3> QED
      BY <1>3, <1>5, <2>1, <3>1 DEF InOrder
  <2>2. CASE j = m
    <3>1. b = s
      BY <1>1, <2>2
    <3>2. a \in 0..s
      BY <1>4
    <3> QED
      BY <3>1, <3>2
  <2> QED
    BY <1>2, <2>1, <2>2
<1>6. ASSUME d # 0, NEW j \in 1..m, j >= d PROVE Q[j] \subseteq {s}
  <2>1. CASE j = m
    BY <1>1, <2>1
  <2>2. CASE j \in 1..n
    <3>1. d = c /\ r = s
      BY <1>6, <2>2
    <3> QED
      BY <1>3, <1>6, <2>2, <3>1 DEF InOrder
  <2> QED
    BY <1>2, <2>1, <2>2
<1> QED
  BY <1>1, <1>4, <1>5, <1>6 DEF InOrder

LEMMA InOrderGrow ==
  ASSUME NEW R, NEW Q, NEW n \in Nat, NEW c \in Nat, NEW r \in Nat,
         InOrder(R, n, c, r),
         \A i \in 1..n : Q[i] \subseteq R[i] \/ (i = c /\ Q[i] \subseteq R[i] \cup {r})
  PROVE  InOrder(Q, n, c, r)
<1>1. \A i \in 1..n : \A a \in Q[i] : a \in R[i] \/ (i = c /\ a = r)
  OBVIOUS
<1>2. \A i \in 1..n : \A a \in R[i] : a \in 0..r
  BY DEF InOrder
<1>3. \A i \in 1..n : \A a \in Q[i] : a \in 0..r
  BY <1>1, <1>2
<1>4. \A j \in 1..n : j >= c /\ c # 0 => \A a \in Q[j] : a = r
  BY <1>1 DEF InOrder
<1>5. ASSUME NEW i \in 1..n, NEW j \in 1..n, i <= j, NEW a \in Q[i], NEW b \in Q[j]
      PROVE  a <= b
  <2>1. CASE a \in R[i] /\ b \in R[j]
    BY <1>5, <2>1 DEF InOrder
  <2>2. CASE j = c /\ b = r
    <3>1. a \in 0..r
      BY <1>3
    <3> QED
      BY <2>2, <3>1
  <2>3. CASE i = c /\ a = r
    <3>1. j >= c /\ c # 0
      BY <1>5, <2>3
    <3> QED
      BY <1>4, <2>3, <3>1
  <2> QED
    BY <1>1, <2>1, <2>2, <2>3
<1> QED
  BY <1>3, <1>4, <1>5 DEF InOrder

ViewRounds(v, from, c, r) == InOrder(Ranks(v, from), Len(v.entries), c, r)

\* Another round begins, and no entry is current.
LEMMA RoundsRise ==
  ASSUME NEW v \in ViewKinds, NEW from, NEW r \in Nat, NEW s \in Nat, r <= s,
         ViewRounds(v, from, 0, r)
  PROVE  ViewRounds(v, from, 0, s)
<1>1. \A i \in 1..Len(v.entries) : \A a \in Ranks(v, from)[i] : a \in 0..r
  BY DEF ViewRounds, InOrder
<1>2. \A a \in 0..r : a \in 0..s
  OBVIOUS
<1> QED
  BY <1>1, <1>2 DEF ViewRounds, InOrder

LEMMA RoundsPush ==
  ASSUME NEW v \in ViewKinds, NEW w \in ViewKinds, NEW entry \in EntryKinds,
         w.entries = Append(v.entries, entry), NEW from,
         NEW n \in Nat, n = Len(v.entries), NEW c \in Nat, NEW d \in Nat,
         NEW r \in Nat, NEW s \in Nat, ViewRounds(v, from, c, r), r <= s,
         d \in {0, n + 1} \/ (d = c /\ r = s),
         Ranked(entry) => RoundsOf(entry) \subseteq {s}
  PROVE  ViewRounds(w, from, d, s)
<1>1. /\ Len(w.entries) = n + 1 /\ w.entries[n + 1] = entry
      /\ \A i \in 1..n : w.entries[i] = v.entries[i]
  BY AppendProperties DEF ViewKinds
<1>2. PICK R : R = Ranks(v, from)
  OBVIOUS
<1>3. PICK Q : Q = Ranks(w, from)
  OBVIOUS
<1>4. \A i \in 1..n : i \in 1..(n + 1)
  OBVIOUS
<1>5. \A i \in 1..n : Q[i] = R[i]
  BY <1>1, <1>2, <1>3, <1>4 DEF Ranks
<1>6. Q[n + 1] \subseteq {s}
  <2>1. n + 1 \in 1..(n + 1)
    OBVIOUS
  <2> QED
    BY <1>1, <1>3, <2>1 DEF Ranks
<1>7. InOrder(R, n, c, r)
  BY <1>2 DEF ViewRounds
<1>8. InOrder(Q, n + 1, d, s)
  BY <1>5, <1>6, <1>7, InOrderPush
<1> QED
  BY <1>1, <1>3, <1>8 DEF ViewRounds

\* The entries stay as many and of their kind, and only the current one may grow.
LEMMA RoundsGrow ==
  ASSUME NEW v \in ViewKinds, NEW w \in ViewKinds, Keeps(w, v),
         NEW n \in Nat, n = Len(v.entries), n = Len(w.entries),
         NEW from, NEW c \in Nat, NEW r \in Nat, ViewRounds(v, from, c, r),
         \A i \in 1..n : Ranked(v.entries[i]) =>
           \/ RoundsOf(w.entries[i]) \subseteq RoundsOf(v.entries[i])
           \/ i = c /\ RoundsOf(w.entries[i]) \subseteq RoundsOf(v.entries[i]) \cup {r}
  PROVE  ViewRounds(w, from, c, r)
<1>1. PICK R : R = Ranks(v, from)
  OBVIOUS
<1>2. PICK Q : Q = Ranks(w, from)
  OBVIOUS
<1>3. \A i \in 1..n : Ranked(w.entries[i]) => Ranked(v.entries[i])
  <2> SUFFICES ASSUME NEW i \in 1..n, Ranked(w.entries[i]) PROVE Ranked(v.entries[i])
    OBVIOUS
  <2>1. /\ w.entries[i].kind = v.entries[i].kind
        /\ w.entries[i].speaker = v.entries[i].speaker
    BY DEF Keeps
  <2>2. IsAnswer(w.entries[i]) => IsAnswer(v.entries[i])
    BY <2>1, AnswerKept
  <2> QED
    BY <2>1, <2>2 DEF Ranked
<1>4. ASSUME NEW i \in 1..n
      PROVE  Q[i] \subseteq R[i] \/ (i = c /\ Q[i] \subseteq R[i] \cup {r})
  <2>1. Q[i] = IF i > from /\ Ranked(w.entries[i]) THEN RoundsOf(w.entries[i]) ELSE {}
    BY <1>2 DEF Ranks
  <2>2. R[i] = IF i > from /\ Ranked(v.entries[i]) THEN RoundsOf(v.entries[i]) ELSE {}
    BY <1>1 DEF Ranks
  <2>3. CASE i > from /\ Ranked(w.entries[i])
    <3>1. Ranked(v.entries[i])
      BY <1>3, <2>3
    <3> QED
      BY <2>1, <2>2, <2>3, <3>1
  <2> QED
    BY <2>1, <2>3
<1>5. InOrder(R, n, c, r)
  BY <1>1 DEF ViewRounds
<1>6. InOrder(Q, n, c, r)
  BY <1>4, <1>5, InOrderGrow
<1> QED
  BY <1>2, <1>6 DEF ViewRounds

\* An entry that is neither an answer nor a tool's, or has no text.
LEMMA AddRounds ==
  ASSUME NEW v \in ViewKinds, NEW speaker \in Speakers, NEW text \in TextKinds,
         (\A e : e.speaker = speaker => ~IsAnswer(e)) \/ text = <<>>,
         NEW from, NEW n \in Nat, n = Len(v.entries), NEW c \in Nat, NEW d \in Nat,
         d \in {0, n + 1, c}, NEW r \in Nat, ViewRounds(v, from, c, r)
  PROVE  ViewRounds(add(v, speaker, text), from, d, r)
<1> DEFINE entry == [kind |-> "Normal", speaker |-> speaker, text |-> text, collapsed |-> FALSE]
           w == [entries |-> Append(v.entries, entry), scroll |-> 0]
<1>1. /\ entry \in EntryKinds /\ entry.speaker = speaker /\ entry.text = text
      /\ entry.kind = "Normal"
  BY DEF EntryKinds, Kinds
<1>2. add(v, speaker, text) = w
  BY DEF add, Push
<1> HIDE DEF entry
<1>3. w \in ViewKinds
  BY <1>1, PushKeeps
<1>4. w.entries = Append(v.entries, entry)
  OBVIOUS
<1> HIDE DEF w
<1>5. Ranked(entry) => RoundsOf(entry) \subseteq {r}
  <2>1. text = <<>> => RoundsOf(entry) = {}
    BY <1>1 DEF RoundsOf
  <2>2. Ranked(entry) => IsAnswer(entry)
    BY <1>1 DEF Ranked
  <2> QED
    BY <1>1, <2>1, <2>2
<1>6. r <= r
  OBVIOUS
<1>7. d \in {0, n + 1} \/ (d = c /\ r = r)
  OBVIOUS
<1>8. ViewRounds(w, from, d, r)
  BY <1>1, <1>3, <1>4, <1>5, <1>6, <1>7, RoundsPush
<1> QED
  BY <1>2, <1>8

LEMMA ThinkingRounds ==
  ASSUME NEW v \in ViewKinds, NEW from, NEW c \in Nat, NEW r \in Nat, ViewRounds(v, from, c, r)
  PROVE  ViewRounds(add_thinking(v), from, c, r)
<1> DEFINE entry == [kind |-> "Thinking", speaker |-> "", text |-> <<>>, collapsed |-> FALSE]
           w == [entries |-> Append(v.entries, entry), scroll |-> 0]
<1>1. entry \in EntryKinds
  <2>1. "" \in Speakers
    BY Zenon DEF Speakers
  <2> QED
    BY <2>1, NoText DEF EntryKinds, Kinds
<1>2. ~Ranked(entry)
  BY DEF Ranked
<1>3. add_thinking(v) = w
  BY DEF add_thinking, Push
<1> HIDE DEF entry
<1>4. w \in ViewKinds
  BY <1>1, PushKeeps
<1>5. w.entries = Append(v.entries, entry)
  OBVIOUS
<1> HIDE DEF w
<1>6. PICK n \in Nat : n = Len(v.entries)
  BY LenProperties DEF ViewKinds
<1>7. r <= r /\ (c \in {0, n + 1} \/ (c = c /\ r = r))
  OBVIOUS
<1>8. ViewRounds(w, from, c, r)
  BY <1>1, <1>2, <1>4, <1>5, <1>6, <1>7, RoundsPush
<1> QED
  BY <1>3, <1>8

\* A tool's result: no answer is current after it, and another round may begin.
LEMMA ToolRounds ==
  ASSUME NEW v \in ViewKinds, NEW text \in TextKinds, NEW from, NEW c \in Nat,
         NEW r \in Nat, NEW s \in Nat, r <= s, ViewRounds(v, from, c, r),
         \A k \in DOMAIN text : text[k][1] = r
  PROVE  ViewRounds(add_tool_output(v, text), from, 0, s)
<1> DEFINE entry == [kind |-> "Tool", speaker |-> "", text |-> text, collapsed |-> TRUE]
           w == [entries |-> Append(v.entries, entry), scroll |-> 0]
<1>1. entry \in EntryKinds
  <2>1. "" \in Speakers
    BY Zenon DEF Speakers
  <2> QED
    BY <2>1 DEF EntryKinds, Kinds
<1>2. RoundsOf(entry) \subseteq {r}
  BY DEF RoundsOf
<1>3. add_tool_output(v, text) = w
  BY DEF add_tool_output, Push
<1> HIDE DEF entry
<1>4. w \in ViewKinds
  BY <1>1, PushKeeps
<1>5. w.entries = Append(v.entries, entry)
  OBVIOUS
<1> HIDE DEF w
<1>6. PICK n \in Nat : n = Len(v.entries)
  BY LenProperties DEF ViewKinds
<1>7. r <= r /\ 0 \in Nat /\ 0 \in {0, n + 1}
  OBVIOUS
<1>8. ViewRounds(w, from, 0, r)
  BY <1>1, <1>2, <1>4, <1>5, <1>6, <1>7, RoundsPush
<1>9. ViewRounds(w, from, 0, s)
  BY <1>4, <1>8, RoundsRise
<1> QED
  BY <1>3, <1>9

\* The current answer grows, or an entry of the reasoning.
LEMMA AppendRounds ==
  ASSUME NEW v \in ViewKinds, NEW i \in Nat, NEW text \in TextKinds, NEW from,
         NEW c \in Nat, NEW r \in Nat, ViewRounds(v, from, c, r),
         \/ i = c /\ \A k \in DOMAIN text : text[k][1] = r
         \/ i \in DOMAIN v.entries => v.entries[i].kind = "Thinking"
  PROVE  ViewRounds(append_to(v, i, text), from, c, r)
<1>1. PICK n \in Nat : n = Len(v.entries) /\ DOMAIN v.entries = 1..n
  BY LenProperties DEF ViewKinds
<1>2. CASE i \notin 1..n
  BY <1>1, <1>2 DEF append_to
<1>3. CASE i \in 1..n
  <2> DEFINE w == append_to(v, i, text)
  <2>1. w = [entries |-> [v.entries EXCEPT ![i].text = @ \o text], scroll |-> 0]
    BY <1>1, <1>3 DEF append_to
  <2>2. w \in ViewKinds /\ Keeps(w, v) /\ n = Len(w.entries)
    BY <1>1, AppendKeeps
  <2> HIDE DEF w
  <2>3. \A j \in 1..n : v.entries[j] \in EntryKinds
    BY <1>1 DEF ViewKinds
  <2>4. PICK s \in TextKinds : s = v.entries[i].text
    BY <1>3, <2>3 DEF EntryKinds
  <2>5. w.entries[i].text = s \o text
    BY <1>1, <1>3, <2>1, <2>3, <2>4 DEF EntryKinds
  <2>6. \A j \in 1..n : j # i => w.entries[j] = v.entries[j]
    BY <1>1, <2>1
  <2>7. ASSUME \A k \in DOMAIN text : text[k][1] = r
        PROVE  RoundsOf(w.entries[i]) \subseteq RoundsOf(v.entries[i]) \cup {r}
    <3>1. PICK m \in Nat : m = Len(s) /\ DOMAIN s = 1..m
      BY LenProperties DEF TextKinds
    <3>2. PICK l \in Nat : l = Len(text) /\ DOMAIN text = 1..l
      BY LenProperties DEF TextKinds
    <3>3. PICK t \in TextKinds : t = s \o text
      BY TextsJoin
    <3>4. /\ DOMAIN t = 1..(m + l)
          /\ \A k \in 1..(m + l) : t[k] = IF k <= m THEN s[k] ELSE text[k - m]
      BY <3>1, <3>2, <3>3, ConcatProperties, LenProperties DEF TextKinds
    <3>5. ASSUME NEW k \in 1..(m + l)
          PROVE  t[k][1] = r \/ \E j \in 1..m : t[k][1] = s[j][1]
      <4>1. CASE k <= m
        BY <3>4, <4>1
      <4>2. CASE ~(k <= m)
        <5>1. k - m \in 1..l
          BY <4>2
        <5>2. t[k] = text[k - m]
          BY <3>4, <4>2
        <5> QED
          BY <2>7, <3>2, <5>1, <5>2
      <4> QED
        BY <4>1, <4>2
    <3>6. RoundsOf(w.entries[i]) = {t[k][1] : k \in 1..(m + l)}
      BY <2>5, <3>3, <3>4 DEF RoundsOf
    <3>7. RoundsOf(v.entries[i]) = {s[k][1] : k \in 1..m}
      BY <2>4, <3>1 DEF RoundsOf
    <3> QED
      BY <3>5, <3>6, <3>7
  <2>8. ASSUME NEW j \in 1..n, Ranked(v.entries[j])
        PROVE  \/ RoundsOf(w.entries[j]) \subseteq RoundsOf(v.entries[j])
               \/ j = c /\ RoundsOf(w.entries[j]) \subseteq RoundsOf(v.entries[j]) \cup {r}
    <3>1. CASE j # i
      BY <2>6, <3>1
    <3>2. CASE j = i
      <4>1. v.entries[i].kind # "Thinking"
        BY <2>8, <3>2 DEF Ranked
      <4>2. i = c /\ \A k \in DOMAIN text : text[k][1] = r
        BY <1>1, <1>3, <4>1
      <4> QED
        BY <2>7, <3>2, <4>2
    <3> QED
      BY <3>1, <3>2
  <2>9. ViewRounds(w, from, c, r)
    BY <1>1, <2>2, <2>8, RoundsGrow
  <2> QED
    BY <2>9 DEF w
<1> QED
  BY <1>2, <1>3

LEMMA FoldRounds ==
  ASSUME NEW v \in ViewKinds, NEW i \in DOMAIN v.entries, NEW b \in BOOLEAN,
         NEW from, NEW c \in Nat, NEW r \in Nat, ViewRounds(v, from, c, r)
  PROVE  ViewRounds([v EXCEPT !.entries[i].collapsed = b], from, c, r)
<1>1. PICK n \in Nat : n = Len(v.entries) /\ DOMAIN v.entries = 1..n
  BY LenProperties DEF ViewKinds
<1> DEFINE w == [v EXCEPT !.entries[i].collapsed = b]
<1>2. w \in ViewKinds /\ Keeps(w, v) /\ n = Len(w.entries)
  BY <1>1, FoldKeeps
<1>3. \A j \in 1..n : v.entries[j] \in EntryKinds
  BY <1>1 DEF ViewKinds
<1>4. \A j \in 1..n : w.entries[j].text = v.entries[j].text
  BY <1>1, <1>3 DEF ViewKinds, EntryKinds
<1> HIDE DEF w
<1>5. \A j \in 1..n : RoundsOf(w.entries[j]) = RoundsOf(v.entries[j])
  BY <1>4 DEF RoundsOf
<1>6. ViewRounds(w, from, c, r)
  BY <1>1, <1>2, <1>5, RoundsGrow
<1> QED
  BY <1>6 DEF w

LEMMA FoldedRounds ==
  ASSUME NEW u \in UiKinds, NEW from, NEW c \in Nat, NEW r \in Nat,
         ViewRounds(u.chat_, from, c, r)
  PROVE  ViewRounds(Folded(u), from, c, r)
<1>1. PICK v \in ViewKinds : v = u.chat_
  BY DEF UiKinds
<1>2. CASE Folded(u) # v
  <2>1. PICK i \in DOMAIN v.entries : i = u.thinking_idx_
    BY <1>1, <1>2 DEF Folded, set_collapsed
  <2>2. Folded(u) = [v EXCEPT !.entries[i].collapsed = TRUE]
    BY <1>1, <1>2, <2>1 DEF Folded, set_collapsed
  <2>3. TRUE \in BOOLEAN
    OBVIOUS
  <2>4. ViewRounds([v EXCEPT !.entries[i].collapsed = TRUE], from, c, r)
    BY <1>1, <2>3, FoldRounds
  <2> QED
    BY <2>2, <2>4
<1> QED
  BY <1>1, <1>2

UiRounds(u, from, r) == ViewRounds(u.chat_, from, u.content_idx_, r)

\* An event is of the round r, or of none; after it the round s is read.
Reads(event, r, s) ==
  /\ r <= s
  /\ event.type \in {"Delta", "ToolResult"} =>
       \A k \in DOMAIN event.text : event.text[k][1] = r
  /\ event.type # "ToolResult" => s = r

LEMMA ShowReasoningRounds ==
  ASSUME NEW u \in UiKinds, NEW text \in TextKinds, NEW from \in Nat, PointsIn(u, from),
         NEW r \in Nat, UiRounds(u, from, r)
  PROVE  UiRounds(ShowReasoning(u, text), from, r)
<1> DEFINE v == IF u.thinking_idx_ = 0 THEN add_thinking(u.chat_) ELSE u.chat_
           i == IF u.thinking_idx_ = 0 THEN Len(v.entries) ELSE u.thinking_idx_
           x == append_to(v, i, text)
           w == [u EXCEPT !.chat_ = x, !.thinking_idx_ = i]
<1>1. ShowReasoning(u, text) = w
  BY DEF ShowReasoning
<1>2. /\ u.chat_ \in ViewKinds /\ u.thinking_idx_ \in Nat /\ u.content_idx_ \in Nat
      /\ Len(u.chat_.entries) \in Nat
  BY LenProperties DEF UiKinds, ViewKinds
<1>3. PICK c \in Nat : c = u.content_idx_
  BY <1>2
<1>4. PICK k \in Nat : k = u.thinking_idx_
  BY <1>2
<1>5. ViewRounds(u.chat_, from, c, r)
  BY <1>3 DEF UiRounds
<1>6. v \in ViewKinds /\ i \in Nat /\ v.entries[i].kind = "Thinking" /\ ViewRounds(v, from, c, r)
  <2>1. CASE k = 0
    <3>1. v = add_thinking(u.chat_)
      BY <1>4, <2>1
    <3>2. i = Len(v.entries)
      BY <1>4, <2>1
    <3> HIDE DEF v, i
    <3>3. /\ v \in ViewKinds /\ Len(v.entries) = Len(u.chat_.entries) + 1
          /\ v.entries[Len(u.chat_.entries) + 1].kind = "Thinking"
      BY <1>2, <3>1, ThinkingKeeps
    <3>4. ViewRounds(v, from, c, r)
      BY <1>2, <1>5, <3>1, ThinkingRounds
    <3> QED
      BY <1>2, <3>2, <3>3, <3>4
  <2>2. CASE k # 0
    <3>1. v = u.chat_ /\ i = k
      BY <1>4, <2>2
    <3>2. u.chat_.entries[k].kind = "Thinking"
      BY <1>4, <2>2 DEF PointsIn
    <3> HIDE DEF v, i
    <3> QED
      BY <1>2, <1>5, <3>1, <3>2
  <2> QED
    BY <2>1, <2>2
<1> HIDE DEF v, i
<1>7. ViewRounds(x, from, c, r)
  BY <1>6, AppendRounds
<1> HIDE DEF x
<1>8. w.chat_ = x /\ w.content_idx_ = c
  BY <1>3 DEF UiKinds
<1> QED
  BY <1>1, <1>7, <1>8 DEF UiRounds

LEMMA ShowDeltaRounds ==
  ASSUME NEW u \in UiKinds, NEW text \in TextKinds, NEW from,
         NEW r \in Nat, UiRounds(u, from, r), \A k \in DOMAIN text : text[k][1] = r
  PROVE  UiRounds(ShowDelta(u, text), from, r)
<1> DEFINE star == "* "
<1> DEFINE v == IF u.content_idx_ = 0 THEN add(Folded(u), star, <<>>) ELSE u.chat_
           i == IF u.content_idx_ = 0 THEN Len(v.entries) ELSE u.content_idx_
           x == append_to(v, i, text)
           w == [u EXCEPT !.chat_ = x, !.content_idx_ = i]
<1>1. ShowDelta(u, text) = w
  BY DEF ShowDelta
<1>0. star \in Speakers
  BY Zenon DEF Speakers
<1> HIDE DEF star
<1>2. /\ u.chat_ \in ViewKinds /\ u.content_idx_ \in Nat
      /\ Len(u.chat_.entries) \in Nat
  BY LenProperties DEF UiKinds, ViewKinds
<1>3. PICK c \in Nat : c = u.content_idx_
  BY <1>2
<1>5. ViewRounds(u.chat_, from, c, r)
  BY <1>3 DEF UiRounds
<1>6. v \in ViewKinds /\ i \in Nat /\ ViewRounds(v, from, i, r)
  <2>1. CASE c = 0
    <3>1. PICK f : f = Folded(u)
      OBVIOUS
    <3>2. v = add(f, star, <<>>)
      BY <1>3, <2>1, <3>1
    <3>3. i = Len(v.entries)
      BY <1>3, <2>1
    <3> HIDE DEF v, i
    <3>4. f \in ViewKinds /\ Len(f.entries) = Len(u.chat_.entries)
      BY <3>1, FoldedKeeps
    <3>5. ViewRounds(f, from, c, r)
      BY <1>5, <3>1, FoldedRounds
    <3>6. v \in ViewKinds /\ Len(v.entries) = Len(f.entries) + 1
      BY <1>0, <3>2, <3>4, NoText, AddKeeps
    <3>7. PICK n \in Nat : n = Len(f.entries)
      BY <1>2, <3>4
    <3>8. PICK m \in Nat : m = n + 1
      OBVIOUS
    <3>9. m \in {0, n + 1, c}
      BY <3>8
    <3>10. ViewRounds(v, from, m, r)
      BY <1>0, <3>2, <3>4, <3>5, <3>7, <3>9, NoText, AddRounds
    <3> QED
      BY <3>3, <3>6, <3>7, <3>8, <3>10
  <2>2. CASE c # 0
    <3>1. v = u.chat_ /\ i = c
      BY <1>3, <2>2
    <3> HIDE DEF v, i
    <3> QED
      BY <1>2, <1>5, <3>1
  <2> QED
    BY <2>1, <2>2
<1> HIDE DEF v, i
<1>7. ViewRounds(x, from, i, r)
  BY <1>6, AppendRounds
<1> HIDE DEF x
<1>8. w.chat_ = x /\ w.content_idx_ = i
  BY DEF UiKinds
<1> QED
  BY <1>1, <1>7, <1>8 DEF UiRounds

LEMMA ShowToolRounds ==
  ASSUME NEW u \in UiKinds, NEW event \in EventKinds, event.type \in {"ToolInfo", "ToolResult"},
         NEW from, NEW r \in Nat, NEW s \in Nat, Reads(event, r, s), UiRounds(u, from, r)
  PROVE  UiRounds(ShowTool(u, event), from, s)
<1> DEFINE x == IF event.type = "ToolInfo" THEN add(u.chat_, "", event.text)
                ELSE add_tool_output(u.chat_, event.text)
           w == [u EXCEPT !.chat_ = x, !.content_idx_ = 0]
<1>1. ShowTool(u, event) = w
  BY DEF ShowTool
<1>2. PICK v \in ViewKinds : v = u.chat_
  BY DEF UiKinds
<1>3. PICK text \in TextKinds : text = event.text
  BY DEF EventKinds
<1>4. PICK c \in Nat : c = u.content_idx_
  BY DEF UiKinds
<1>5. ViewRounds(v, from, c, r)
  BY <1>2, <1>4 DEF UiRounds
<1>6. "" \in Speakers
  BY Zenon DEF Speakers
<1>7. PICK n \in Nat : n = Len(v.entries)
  BY LenProperties DEF ViewKinds
<1>8. ViewRounds(x, from, 0, s)
  <2>1. CASE event.type = "ToolInfo"
    <3>1. s = r
      BY <2>1 DEF Reads
    <3>2. 0 \in Nat /\ 0 \in {0, n + 1, c}
      OBVIOUS
    <3>3. ViewRounds(add(v, "", text), from, 0, r)
      BY <1>5, <1>6, <1>7, <3>2, BlankAnswers, AddRounds
    <3> QED
      BY <1>2, <1>3, <2>1, <3>1, <3>3
  <2>2. CASE event.type = "ToolResult"
    <3>1. r <= s /\ \A k \in DOMAIN text : text[k][1] = r
      BY <1>3, <2>2 DEF Reads
    <3>2. ViewRounds(add_tool_output(v, text), from, 0, s)
      BY <1>5, <3>1, ToolRounds
    <3> QED
      BY <1>2, <1>3, <2>2, <3>2
  <2> QED
    BY <2>1, <2>2
<1> HIDE DEF x
<1>9. w.chat_ = x /\ w.content_idx_ = 0
  BY DEF UiKinds
<1> QED
  BY <1>1, <1>8, <1>9 DEF UiRounds

LEMMA ShowEndRounds ==
  ASSUME NEW u \in UiKinds, NEW event \in EventKinds, Joins(event), NEW from,
         NEW r \in Nat, UiRounds(u, from, r)
  PROVE  UiRounds(ShowEnd(u, event), from, r)
<1>1. PICK v \in ViewKinds : v = u.chat_
  BY DEF UiKinds
<1>2. PICK f \in ViewKinds : f = Folded(u)
  BY FoldedKeeps
<1>3. PICK c \in Nat : c = u.content_idx_
  BY DEF UiKinds
<1>4. ViewRounds(v, from, c, r) /\ ViewRounds(f, from, c, r)
  BY <1>1, <1>2, <1>3, FoldedRounds DEF UiRounds
<1>5. "" \in Speakers /\ "error" \in Speakers
  BY Zenon DEF Speakers
<1>6. PICK n \in Nat : n = Len(f.entries)
  BY LenProperties DEF ViewKinds
<1>7. PICK m \in Nat : m = Len(v.entries)
  BY LenProperties DEF ViewKinds
<1>8. c \in {0, n + 1, c} /\ c \in {0, m + 1, c}
  OBVIOUS
<1>9. ViewRounds(add(f, "", <<>>), from, c, r)
  BY <1>4, <1>5, <1>6, <1>8, NoText, AddRounds
<1>10. ViewRounds(add(v, "error", <<>>), from, c, r)
  BY <1>4, <1>5, <1>7, <1>8, NoText, AddRounds
<1>11. PICK x : ShowEnd(u, event) = [u EXCEPT !.chat_ = x, !.busy_ = FALSE]
                  /\ ViewRounds(x, from, c, r)
  <2>1. CASE event.type = "Done"
    <3>1. ShowEnd(u, event) = [u EXCEPT !.chat_ = f, !.busy_ = FALSE]
      BY <1>2, <2>1 DEF ShowEnd
    <3> QED
      BY <1>4, <3>1
  <2>2. CASE event.type = "Canceled"
    <3>1. ShowEnd(u, event) = [u EXCEPT !.chat_ = add(f, "", <<>>), !.busy_ = FALSE]
      BY <1>2, <2>2 DEF ShowEnd
    <3> QED
      BY <1>9, <3>1
  <2>3. CASE event.type = "Error"
    <3>1. ShowEnd(u, event) = [u EXCEPT !.chat_ = add(v, "error", <<>>), !.busy_ = FALSE]
      BY <1>1, <2>3 DEF ShowEnd
    <3> QED
      BY <1>10, <3>1
  <2> QED
    BY <2>1, <2>2, <2>3 DEF Joins
<1>12. PICK w : w = [u EXCEPT !.chat_ = x, !.busy_ = FALSE]
  OBVIOUS
<1>13. w.chat_ = x /\ w.content_idx_ = c
  BY <1>3, <1>12 DEF UiKinds
<1> QED
  BY <1>11, <1>12, <1>13 DEF UiRounds

LEMMA ShowRounds ==
  ASSUME NEW u \in UiKinds, NEW event \in EventKinds, NEW from \in Nat, PointsIn(u, from),
         NEW r \in Nat, NEW s \in Nat, Reads(event, r, s), UiRounds(u, from, r)
  PROVE  UiRounds(Show(u, event), from, s)
<1>1. event.type \in EventTypes /\ event.text \in TextKinds
  BY DEF EventKinds
<1>2. event.type # "ToolResult" => s = r
  BY DEF Reads
<1>3. CASE event.type = "Reasoning"
  <2>1. Show(u, event) = ShowReasoning(u, event.text)
    BY <1>3 DEF Show
  <2> QED
    BY <1>1, <1>2, <1>3, <2>1, ShowReasoningRounds
<1>4. CASE event.type = "Delta"
  <2>1. Show(u, event) = ShowDelta(u, event.text)
    BY <1>4 DEF Show
  <2>2. PICK text \in TextKinds : text = event.text
    BY <1>1
  <2>3. \A k \in DOMAIN text : text[k][1] = r
    BY <1>4, <2>2 DEF Reads
  <2>4. UiRounds(ShowDelta(u, text), from, r)
    BY <2>3, ShowDeltaRounds
  <2> QED
    BY <1>2, <1>4, <2>1, <2>2, <2>4
<1>5. CASE event.type \in {"ToolInfo", "ToolResult"}
  <2>1. Show(u, event) = ShowTool(u, event)
    BY <1>5 DEF Show
  <2> QED
    BY <1>5, <2>1, ShowToolRounds
<1>6. CASE Joins(event)
  <2>1. Show(u, event) = ShowEnd(u, event) /\ event.type # "ToolResult"
    BY <1>6 DEF Show, Joins
  <2> QED
    BY <1>2, <1>6, <2>1, ShowEndRounds
<1> QED
  BY <1>1, <1>3, <1>4, <1>5, <1>6 DEF EventTypes, Joins

\* The queue is of the rounds from r to s.
QueueRounds(q, r, s) ==
  \E read \in [0..Len(q) -> Nat] :
    /\ read[0] = r /\ read[Len(q)] = s
    /\ \A i \in 1..Len(q) : Reads(q[i], read[i - 1], read[i])

LEMMA ShowAllRounds ==
  ASSUME NEW u \in UiKinds, NEW q \in Seq(EventKinds), NEW from \in Nat, PointsIn(u, from),
         NEW r \in Nat, NEW s \in Nat, QueueRounds(q, r, s), UiRounds(u, from, r)
  PROVE  UiRounds(FoldLeft(Show, u, q), from, s)
<1>1. PICK n \in Nat : n = Len(q) /\ \A i \in 1..n : q[i] \in EventKinds
  BY LenProperties, ElementOfSeq
<1>2. PICK run \in [0..n -> UiKinds] :
        /\ run[0] = u
        /\ \A i \in 1..n : run[i] = Show(run[i - 1], q[i])
        /\ FoldLeft(Show, u, q) = run[n]
  BY <1>1, ShowRun
<1>3. PICK read \in [0..n -> Nat] :
        /\ read[0] = r /\ read[n] = s
        /\ \A i \in 1..n : Reads(q[i], read[i - 1], read[i])
  BY <1>1 DEF QueueRounds
<1> DEFINE Good(i) == PointsIn(run[i], from) /\ UiRounds(run[i], from, read[i])
           G == {i \in 0..n : Good(i)}
<1>4. 0 \in G
  <2>1. run[0] = u /\ read[0] = r
    BY <1>2, <1>3
  <2>2. Good(0)
    BY <2>1
  <2> HIDE DEF Good
  <2> QED
    BY <2>2
<1>5. ASSUME NEW i \in 1..n, i - 1 \in G PROVE i \in G
  <2>1. i - 1 \in 0..n /\ i \in 0..n
    OBVIOUS
  <2>2. PICK v \in UiKinds : v = run[i - 1]
    BY <2>1
  <2>3. PICK e \in EventKinds : e = q[i]
    BY <1>1
  <2>4. PICK a \in Nat : a = read[i - 1]
    BY <2>1
  <2>5. PICK b \in Nat : b = read[i]
    BY <2>1
  <2>6. run[i] = Show(v, e) /\ Reads(e, a, b)
    BY <1>2, <1>3, <2>2, <2>3, <2>4, <2>5
  <2>7. PointsIn(v, from) /\ UiRounds(v, from, a)
    BY <1>5, <2>2, <2>4
  <2>8. UiRounds(Show(v, e), from, b)
    BY <2>6, <2>7, ShowRounds
  <2>9. Show(v, e) \in UiKinds /\ Steps(Show(v, e), v)
    BY ShowStep
  <2>10. PointsIn(Show(v, e), from)
    BY <2>7, <2>9, PointsKept
  <2>11. Good(i)
    BY <2>5, <2>6, <2>8, <2>10
  <2> HIDE DEF Good
  <2> QED
    BY <2>1, <2>11
<1>6. Good(n)
  <2> HIDE DEF Good
  <2>1. 0..n \subseteq G
    <3> HIDE DEF G
    <3> QED
      BY <1>4, <1>5, Climb
  <2> QED
    BY <2>1
<1> QED
  BY <1>2, <1>3, <1>6

-----------------------------------------------------------------------------
(* The rounds of what is on its way.                                        *)

ByteOf(r) == {byte \in ByteKinds : LineRounds(byte.line, r)}
EventOf(r) == {event \in EventKinds : Reads(event, r, r)}

LEMMA AnnouncedRounds ==
  ASSUME NEW r \in Nat, NEW type \in {"Delta", "Reasoning"}, NEW q \in Seq(TextKinds),
         type = "Delta" => \A k \in DOMAIN q : \A j \in DOMAIN q[k] : q[k][j][1] = r
  PROVE  Announced(type, q) \in Seq(EventOf(r))
<1>1. PICK n \in Nat : n = Len(q) /\ DOMAIN q = 1..n /\ \A i \in 1..n : q[i] \in TextKinds
  BY LenProperties, ElementOfSeq
<1>2. ASSUME NEW i \in 1..n PROVE [type |-> type, text |-> q[i]] \in EventOf(r)
  <2> DEFINE event == [type |-> type, text |-> q[i]]
  <2>1. event.type = type /\ event.text = q[i] /\ event \in EventKinds
    BY <1>1 DEF EventKinds, EventTypes
  <2> HIDE DEF event
  <2>2. type # "ToolResult"
    OBVIOUS
  <2>3. \A j \in DOMAIN q[i] : type = "Delta" => q[i][j][1] = r
    BY <1>1
  <2>4. Reads(event, r, r)
    BY <2>1, <2>2, <2>3 DEF Reads
  <2> QED
    BY <2>1, <2>4 DEF EventOf, event
<1> QED
  BY <1>1, <1>2, IsASeq DEF Announced

ParserRounds(p, r) == p.buffer \in Seq(ByteOf(r)) /\ p.heard \in Seq(EventOf(r))

LEMMA ChunkRounds ==
  ASSUME NEW p \in ParserKinds, NEW r \in Nat, ParserRounds(p, r),
         NEW line \in LineKinds, LineRounds(line, r)
  PROVE  ParserRounds(process_chunk(p, line), r)
<1>1. line.content \in Seq(TextKinds) /\ line.reasoning \in Seq(TextKinds)
  BY DEF LineKinds
<1>2. PICK c \in Seq(TextKinds) :
        c = line.content /\ \A k \in DOMAIN c : \A j \in DOMAIN c[k] : c[k][j][1] = r
  BY <1>1 DEF LineRounds
<1>3. Announced("Delta", c) \in Seq(EventOf(r))
  BY <1>2, AnnouncedRounds
<1>4. Announced("Reasoning", line.reasoning) \in Seq(EventOf(r))
  BY <1>1, AnnouncedRounds
<1> DEFINE w == process_chunk(p, line)
<1>5. /\ w.heard = (p.heard \o Announced("Delta", line.content))
                      \o Announced("Reasoning", line.reasoning)
      /\ w.buffer = p.buffer
  BY DEF process_chunk, ParserKinds, Announced
<1> HIDE DEF w
<1>6. w.heard \in Seq(EventOf(r))
  BY <1>2, <1>3, <1>4, <1>5, ConcatProperties DEF ParserRounds
<1>7. ParserRounds(w, r)
  BY <1>5, <1>6 DEF ParserRounds
<1> QED
  BY <1>7 DEF w

LEMMA LineOfRound ==
  ASSUME NEW p \in ParserKinds, NEW r \in Nat, ParserRounds(p, r), NEW bytes \in Seq(ByteOf(r))
  PROVE  ParserRounds(process_line(p, bytes), r)
<1>1. CASE ~Whole(bytes) \/ bytes[1].line.kind = "skipped"
  BY <1>1 DEF process_line
<1>2. CASE Whole(bytes) /\ bytes[1].line.kind = "done"
  <2>1. process_line(p, bytes) = [p EXCEPT !.done = TRUE]
    BY <1>2 DEF process_line
  <2> QED
    BY <2>1 DEF ParserRounds, ParserKinds
<1>3. CASE Whole(bytes) /\ bytes[1].line.kind \notin {"skipped", "done"}
  <2>1. bytes # <<>>
    BY <1>3 DEF Whole
  <2>2. bytes[1] \in ByteOf(r)
    BY <2>1, EmptySeq, ElementOfSeq
  <2>3. bytes[1].line \in LineKinds /\ LineRounds(bytes[1].line, r)
    BY <2>2 DEF ByteKinds, ByteOf
  <2>4. process_line(p, bytes) = process_chunk(p, bytes[1].line)
    BY <1>3 DEF process_line
  <2> QED
    BY <2>3, <2>4, ChunkRounds
<1> QED
  BY <1>1, <1>2, <1>3

LEMMA TakeOfRound ==
  ASSUME NEW p \in ParserKinds, NEW r \in Nat, ParserRounds(p, r)
  PROVE  ParserRounds(TakeLine(p), r)
<1>1. PICK n \in Nat : n = Len(p.buffer)
  BY LenProperties DEF ParserKinds
<1>2. CASE TakeLine(p) # p
  <2>1. PICK pos \in 1..n :
          TakeLine(p) = [process_line(p, SubSeq(p.buffer, 1, pos - 1))
                           EXCEPT !.buffer = SubSeq(p.buffer, pos + 1, n)]
    BY <1>1, <1>2, TakeFirst DEF TakesAt
  <2>2. p.buffer \in Seq(ByteOf(r)) /\ p.buffer \in Seq(ByteKinds)
    BY DEF ParserRounds, ParserKinds
  <2>3. pos - 1 \in Nat /\ pos - 1 <= n /\ pos + 1 \in Nat /\ pos + 1 >= 1 /\ n <= n
    OBVIOUS
  <2>4. 1 \in Nat /\ 1 >= 1
    OBVIOUS
  <2>5. PICK line \in Seq(ByteOf(r)) : line = SubSeq(p.buffer, 1, pos - 1)
    BY <1>1, <2>2, <2>3, <2>4, SliceType
  <2>6. PICK rest \in Seq(ByteOf(r)) : rest = SubSeq(p.buffer, pos + 1, n)
    BY <1>1, <2>2, <2>3, SliceType
  <2>7. line \in Seq(ByteKinds)
    BY DEF ByteOf
  <2>8. PICK w \in ParserKinds : w = process_line(p, line) /\ ParserRounds(w, r)
    BY <2>7, LineType, LineOfRound
  <2>9. TakeLine(p).buffer = rest /\ TakeLine(p).heard = w.heard
    BY <2>1, <2>5, <2>6, <2>8 DEF ParserKinds
  <2> QED
    BY <2>8, <2>9 DEF ParserRounds
<1> QED
  BY <1>2

LEMMA FeedOfRound ==
  ASSUME NEW p \in ParserKinds, NEW r \in Nat, ParserRounds(p, r), NEW bytes \in Seq(ByteOf(r))
  PROVE  ParserRounds(feed(p, bytes), r)
<1>0. bytes \in Seq(ByteKinds)
  BY DEF ByteOf
<1>1. PICK s \in ParserKinds : s = [p EXCEPT !.buffer = @ \o bytes]
  <2>1. p.buffer \o bytes \in Seq(ByteKinds)
    BY <1>0, ConcatProperties DEF ParserKinds
  <2> QED
    BY <2>1 DEF ParserKinds
<1>2. ParserRounds(s, r)
  <2>1. p.buffer \o bytes \in Seq(ByteOf(r))
    BY ConcatProperties DEF ParserRounds
  <2>2. s.buffer = p.buffer \o bytes /\ s.heard = p.heard
    BY <1>1 DEF ParserKinds
  <2> QED
    BY <2>1, <2>2 DEF ParserRounds
<1>3. PICK n \in Nat : n = Len(s.buffer)
  BY LenProperties DEF ParserKinds
<1>4. feed(p, bytes) = TakeLines(s)
  BY <1>1 DEF feed
<1>5. PICK run \in [0..n -> ParserKinds] :
        /\ run[0] = s
        /\ \A i \in 1..n : run[i] = TakeLine(run[i - 1])
        /\ TakeLines(s) = run[n]
  BY <1>3, TakeRun
<1> DEFINE G == {i \in 0..n : ParserRounds(run[i], r)}
<1>6. 0 \in G
  BY <1>2, <1>5
<1>7. ASSUME NEW i \in 1..n, i - 1 \in G PROVE i \in G
  <2>1. i - 1 \in 0..n /\ i \in 0..n
    OBVIOUS
  <2>2. PICK w \in ParserKinds : w = run[i - 1]
    BY <2>1
  <2>3. ParserRounds(w, r) /\ run[i] = TakeLine(w)
    BY <1>5, <1>7, <2>2
  <2>4. ParserRounds(run[i], r)
    BY <2>3, TakeOfRound
  <2> QED
    BY <2>1, <2>4
<1>8. n \in G
  <2> HIDE DEF G
  <2>1. 0..n \subseteq G
    BY <1>6, <1>7, Climb
  <2> QED
    BY <2>1
<1> QED
  BY <1>4, <1>5, <1>8

\* Queues that follow one another.
LEMMA QueueJoins ==
  ASSUME NEW q \in Seq(EventKinds), NEW h \in Seq(EventKinds),
         NEW r, NEW s, NEW t, QueueRounds(q, r, s), QueueRounds(h, s, t)
  PROVE  QueueRounds(q \o h, r, t)
<1>1. PICK n \in Nat : n = Len(q)
  BY LenProperties
<1>2. PICK m \in Nat : m = Len(h)
  BY LenProperties
<1>3. PICK a \in [0..n -> Nat] :
        /\ a[0] = r /\ a[n] = s
        /\ \A i \in 1..n : Reads(q[i], a[i - 1], a[i])
  BY <1>1 DEF QueueRounds
<1>4. PICK b \in [0..m -> Nat] :
        /\ b[0] = s /\ b[m] = t
        /\ \A i \in 1..m : Reads(h[i], b[i - 1], b[i])
  BY <1>2 DEF QueueRounds
<1>5. PICK x \in Seq(EventKinds) :
        /\ x = q \o h /\ Len(x) = n + m
        /\ \A i \in 1..(n + m) : x[i] = IF i <= n THEN q[i] ELSE h[i - n]
  BY <1>1, <1>2, ConcatProperties
<1>6. PICK read : read = [i \in 0..(n + m) |-> IF i <= n THEN a[i] ELSE b[i - n]]
  OBVIOUS
<1>7. read \in [0..(n + m) -> Nat]
  <2>1. \A i \in 0..(n + m) : (i <= n => i \in 0..n) /\ (~(i <= n) => i - n \in 0..m)
    OBVIOUS
  <2> QED
    BY <1>6, <2>1
<1>8. read[0] = r
  BY <1>3, <1>6
<1>9. read[n + m] = t
  <2>1. n + m \in 0..(n + m)
    OBVIOUS
  <2>2. CASE m = 0
    BY <1>3, <1>4, <1>6, <2>1, <2>2
  <2>3. CASE m # 0
    <3>1. ~(n + m <= n) /\ (n + m) - n = m
      BY <2>3
    <3> QED
      BY <1>4, <1>6, <2>1, <3>1
  <2> QED
    BY <2>2, <2>3
<1>10. ASSUME NEW i \in 1..(n + m) PROVE Reads(x[i], read[i - 1], read[i])
  <2>1. i \in 0..(n + m) /\ i - 1 \in 0..(n + m)
    OBVIOUS
  <2>2. CASE i <= n
    <3>1. i \in 1..n /\ i - 1 <= n
      BY <2>2
    <3>2. x[i] = q[i] /\ read[i] = a[i] /\ read[i - 1] = a[i - 1]
      BY <1>5, <1>6, <2>1, <2>2, <3>1
    <3> QED
      BY <1>3, <3>1, <3>2
  <2>3. CASE ~(i <= n)
    <3>1. PICK j \in 1..m : j = i - n
      BY <2>3
    <3>2. x[i] = h[j] /\ read[i] = b[j]
      BY <1>5, <1>6, <2>1, <2>3, <3>1
    <3>3. read[i - 1] = b[j - 1]
      <4>1. CASE i - 1 <= n
        <5>1. i - 1 = n /\ j - 1 = 0
          BY <2>3, <3>1, <4>1
        <5>2. read[i - 1] = a[n]
          BY <1>6, <2>1, <5>1
        <5> QED
          BY <1>3, <1>4, <5>1, <5>2
      <4>2. CASE ~(i - 1 <= n)
        <5>1. (i - 1) - n = j - 1
          BY <3>1
        <5> QED
          BY <1>6, <2>1, <4>2, <5>1
      <4> QED
        BY <4>1, <4>2
    <3> QED
      BY <1>4, <3>1, <3>2, <3>3
  <2> QED
    BY <2>2, <2>3
<1>11. \E f \in [0..Len(x) -> Nat] :
         /\ f[0] = r /\ f[Len(x)] = t
         /\ \A i \in 1..Len(x) : Reads(x[i], f[i - 1], f[i])
  BY <1>5, <1>7, <1>8, <1>9, <1>10
<1> QED
  BY <1>5, <1>11 DEF QueueRounds

\* Events of one round.
LEMMA QueueOfRound ==
  ASSUME NEW r \in Nat, NEW h \in Seq(EventOf(r))
  PROVE  QueueRounds(h, r, r)
<1>1. PICK n \in Nat : n = Len(h) /\ \A i \in 1..n : h[i] \in EventOf(r)
  BY LenProperties, ElementOfSeq
<1>2. PICK read : read = [i \in 0..n |-> r]
  OBVIOUS
<1>3. read \in [0..n -> Nat] /\ read[0] = r /\ read[n] = r
  BY <1>2
<1>4. ASSUME NEW i \in 1..n PROVE Reads(h[i], read[i - 1], read[i])
  <2>1. i \in 0..n /\ i - 1 \in 0..n
    OBVIOUS
  <2>2. read[i] = r /\ read[i - 1] = r
    BY <1>2, <2>1
  <2> QED
    BY <1>1, <2>2 DEF EventOf
<1> QED
  BY <1>1, <1>3, <1>4 DEF QueueRounds

\* A tool's result, after which the round may be over.
LEMMA QueueOfResult ==
  ASSUME NEW event \in EventKinds, NEW r \in Nat, NEW s \in Nat, Reads(event, r, s)
  PROVE  QueueRounds(<<event>>, r, s)
<1>0. <<event>> \in Seq(EventKinds)
  OBVIOUS
<1>1. PICK h \in Seq(EventKinds) : h = <<event>>
  BY <1>0
<1>a. Len(h) = 1 /\ h[1] = event
  BY <1>1
<1>2. PICK read : read = [i \in 0..1 |-> IF i = 0 THEN r ELSE s]
  OBVIOUS
<1>3. read \in [0..1 -> Nat] /\ read[0] = r /\ read[1] = s
  BY <1>2
<1>4. ASSUME NEW i \in 1..1 PROVE Reads(h[i], read[i - 1], read[i])
  <2>1. i = 1 /\ i - 1 = 0
    OBVIOUS
  <2> QED
    BY <1>a, <1>3, <2>1
<1>5. QueueRounds(h, r, s)
  <2> HIDE DEF Reads
  <2> QED
    BY <1>a, <1>3, <1>4 DEF QueueRounds
<1> QED
  BY <1>1, <1>5

LEMMA NoEvents ==
  ASSUME NEW r \in Nat
  PROVE  QueueRounds(<<>>, r, r)
<1>1. <<>> \in Seq(EventOf(r))
  OBVIOUS
<1>2. PICK h \in Seq(EventOf(r)) : h = <<>>
  BY <1>1
<1> QED
  BY <1>2, QueueOfRound

LEMMA BytesRounds ==
  ASSUME Parts \in Nat, NEW r \in Nat, NEW line \in LineKinds, LineRounds(line, r)
  PROVE  Bytes(line, Parts) \in Seq(ByteOf(r))
<1> DEFINE byte(i) == [line |-> line, of |-> Parts, part |-> IF i = Parts + 1 THEN 0 ELSE i]
<1>1. \A i \in 1..(Parts + 1) : byte(i) \in ByteOf(r)
  <2> SUFFICES ASSUME NEW i \in 1..(Parts + 1) PROVE byte(i) \in ByteOf(r)
    OBVIOUS
  <2>1. byte(i) \in ByteKinds /\ byte(i).line = line
    BY DEF ByteKinds
  <2> HIDE DEF byte
  <2> QED
    BY <2>1 DEF ByteOf
<1>2. Bytes(line, Parts) = [i \in 1..(Parts + 1) |-> byte(i)]
  BY DEF Bytes
<1>3. PICK n \in Nat : n = Parts + 1
  OBVIOUS
<1> HIDE DEF byte
<1> QED
  BY <1>1, <1>2, <1>3, IsASeq

-----------------------------------------------------------------------------
(* The invariant of the rounds.                                             *)

\* The round that the worker's next event is of.
Reached == IF phase = "asking" THEN round + 1 ELSE round

\* The chat is of rounds up to r, and the queue from there to s, which the worker is at.
Following(r, s) ==
  /\ UiRounds(ui, start, r) /\ QueueRounds(queue, r, s)
  /\ phase \in {"asking", "transfer", "calls"} => s = Reached

\* What is on the network and in the parser is of the round that is being read.
BytesInRound ==
  phase = "transfer" => wire \in Seq(ByteOf(round)) /\ parser.buffer \in Seq(ByteOf(round))

RoundsInv == (\E r, s \in Nat : Following(r, s)) /\ BytesInRound

LEMMA InitRounds == Init => RoundsInv
<1> SUFFICES ASSUME Init PROVE RoundsInv
  OBVIOUS
<1> DEFINE entry == [kind |-> "Preformatted", speaker |-> "", text |-> <<"banner">>,
                     collapsed |-> FALSE]
           view == [entries |-> Append(EmptyView.entries, entry), scroll |-> 0]
<1>1. <<"banner">> \in TextKinds
  BY DEF TextKinds, WordKinds
<1>2. entry \in EntryKinds
  <2>1. "" \in Speakers
    BY Zenon DEF Speakers
  <2> QED
    BY <1>1, <2>1 DEF EntryKinds, Kinds
<1>3. ~Ranked(entry)
  <2>1. ~IsAnswer(entry)
    BY BlankAnswers
  <2> QED
    BY <2>1 DEF Ranked
<1>4. add_preformatted(EmptyView, <<"banner">>) = view
  BY DEF add_preformatted, Push
<1> HIDE DEF entry
<1>a. EmptyView \in ViewKinds
  BY DEF EmptyView, ViewKinds
<1>b. PICK v \in ViewKinds : v = EmptyView
  BY <1>a
<1>5. v = EmptyView /\ v.entries = <<>> /\ Len(v.entries) = 0
  BY <1>b DEF EmptyView
<1>6. ViewRounds(v, 0, 0, 0)
  BY <1>5 DEF ViewRounds, InOrder
<1>7. view \in ViewKinds /\ view.entries = Append(v.entries, entry)
  BY <1>2, <1>5, PushKeeps
<1> HIDE DEF view
<1>8. ViewRounds(view, 0, 0, 0)
  <2>1. PICK z \in Nat : z = 0
    OBVIOUS
  <2>2. z = Len(v.entries) /\ ViewRounds(v, z, z, z) /\ z <= z /\ z \in {0, z + 1}
    BY <1>5, <1>6, <2>1
  <2>3. ViewRounds(view, z, z, z)
    BY <1>2, <1>3, <1>7, <2>2, RoundsPush
  <2> QED
    BY <2>1, <2>3
<1>9. /\ ui = [chat_ |-> view, thinking_idx_ |-> 0, content_idx_ |-> 0, busy_ |-> FALSE]
      /\ start = 0 /\ queue = <<>> /\ phase = "idle"
  BY <1>4 DEF Init
<1>10. UiRounds(ui, start, 0)
  BY <1>8, <1>9 DEF UiRounds
<1>11. Following(0, 0)
  BY <1>9, <1>10, NoEvents DEF Following
<1>12. BytesInRound
  BY <1>9 DEF BytesInRound
<1> QED
  BY <1>11, <1>12 DEF RoundsInv

LEMMA QuietRounds ==
  ASSUME RoundsInv, UNCHANGED <<ui, start, queue, phase, round>>, BytesInRound'
  PROVE  RoundsInv'
<1>1. \A r, s : Following(r, s) => Following(r, s)'
  BY DEF Following, Reached
<1> QED
  BY <1>1 DEF RoundsInv

\* Bytes of the round reach the client.
LEMMA WireRounds ==
  ASSUME RoundsInv, UNCHANGED <<ui, start, queue, phase, round, parser>>,
         phase = "transfer" => wire' \in Seq(ByteOf(round))
  PROVE  RoundsInv'
<1>1. BytesInRound'
  BY DEF RoundsInv, BytesInRound
<1> QED
  BY <1>1, QuietRounds

LEMMA ServerSendsRounds == StreamInv /\ RoundsInv /\ ServerSends => RoundsInv'
<1> SUFFICES ASSUME StreamInv, RoundsInv, ServerSends PROVE RoundsInv'
  OBVIOUS
<1>1. PICK line \in Says : wire' = wire \o Bytes(line, Parts)
  BY DEF ServerSends
<1>2. /\ round \in 0..MaxRounds /\ round \in Nat /\ sent \in 0..MaxTraffic /\ Parts \in Nat
      /\ phase = "transfer"
  BY StreamAssumption DEF StreamInv, WorkTypes, RestTypes, ServerSends
<1>3. line \in LineKinds /\ LineRounds(line, round)
  BY <1>2, SaysSaid, SaidType
<1>4. Bytes(line, Parts) \in Seq(ByteOf(round)) /\ wire \in Seq(ByteOf(round))
  BY <1>2, <1>3, BytesRounds DEF RoundsInv, BytesInRound
<1>5. wire' \in Seq(ByteOf(round))
  BY <1>1, <1>4, ConcatProperties
<1>6. UNCHANGED <<ui, start, queue, phase, round, parser>>
  BY DEF ServerSends, workVars
<1> QED
  BY <1>5, <1>6, WireRounds

LEMMA ServerEndsRounds == StreamInv /\ RoundsInv /\ ServerEnds => RoundsInv'
<1> SUFFICES ASSUME StreamInv, RoundsInv, ServerEnds PROVE RoundsInv'
  OBVIOUS
<1>1. /\ round \in Nat /\ sent \in Nat /\ reply \in Seq(LineKinds) /\ Parts \in Nat
      /\ phase = "transfer"
  BY StreamAssumption DEF StreamInv, WorkTypes, RestTypes, ServerEnds
<1>2. PICK line \in LineKinds : line = Page /\ LineRounds(line, round)
  BY <1>1, PageType, SaidType
<1>3. wire' = wire \/ wire' = wire \o SubSeq(Bytes(line, Parts), 1, Parts)
  BY <1>2 DEF ServerEnds
<1>5. PICK b \in Seq(ByteOf(round)) : b = Bytes(line, Parts) /\ Len(b) = Parts + 1
  BY <1>1, <1>2, BytesRounds, BytesType
<1>6. SubSeq(b, 1, Parts) \in Seq(ByteOf(round))
  <2>1. 1 \in Nat /\ 1 >= 1 /\ Parts <= Len(b)
    BY <1>1, <1>5
  <2> QED
    BY <1>1, <2>1, SliceType
<1>7. wire \in Seq(ByteOf(round))
  BY <1>1 DEF RoundsInv, BytesInRound
<1>8. wire' \in Seq(ByteOf(round))
  BY <1>3, <1>5, <1>6, <1>7, ConcatProperties
<1>9. UNCHANGED <<ui, start, queue, phase, round, parser>>
  BY DEF ServerEnds, workVars, logVars
<1> QED
  BY <1>8, <1>9, WireRounds

\* The worker's last event is of no round.
LEMMA PostRounds ==
  ASSUME StreamInv, RoundsInv, NEW type \in {"Done", "Canceled", "Error"},
         Post(Event(type, <<>>)), UNCHANGED <<ui, start>>
  PROVE  RoundsInv'
<1> DEFINE event == Event(type, <<>>)
<1>1. event \in EventKinds /\ event.type = type
  BY NoText DEF Event, EventKinds, EventTypes
<1>2. queue' = Append(queue, event) /\ phase' = "posted"
  BY DEF Post
<1> HIDE DEF event
<1>3. PICK r \in Nat, s \in Nat : Following(r, s)
  BY DEF RoundsInv
<1>4. queue \in Seq(EventKinds)
  BY DEF StreamInv, RestTypes
<1>5. <<event>> \in Seq(EventKinds) /\ Append(queue, event) = queue \o <<event>>
  BY <1>1, <1>4, AppendIsConcat
<1>6. Reads(event, s, s)
  BY <1>1 DEF Reads
<1>7. QueueRounds(<<event>>, s, s)
  BY <1>1, <1>6, QueueOfResult
<1>8. PICK h \in Seq(EventKinds) : h = <<event>>
  BY <1>5
<1>9. QueueRounds(queue \o h, r, s)
  <2>1. QueueRounds(queue, r, s) /\ QueueRounds(h, s, s)
    BY <1>3, <1>7, <1>8 DEF Following
  <2> QED
    BY <1>4, <2>1, QueueJoins
<1>10. Following(r, s)'
  <2>1. queue' = queue \o h
    BY <1>2, <1>5, <1>8
  <2> QED
    BY <1>2, <1>3, <1>9, <2>1 DEF Following
<1>11. BytesInRound'
  BY <1>2 DEF BytesInRound
<1> QED
  BY <1>10, <1>11 DEF RoundsInv

LEMMA BeginRoundRounds == StreamInv /\ RoundsInv /\ BeginRound => RoundsInv'
<1> SUFFICES ASSUME StreamInv, RoundsInv, BeginRound PROVE RoundsInv'
  OBVIOUS
<1>1. phase = "asking" /\ UNCHANGED <<ui, start>>
  BY DEF BeginRound
<1>2. CASE \E type \in {"Canceled", "Error"} : Post(Event(type, <<>>))
  BY <1>1, <1>2, PostRounds
<1>3. CASE /\ phase' = "transfer" /\ round' = round + 1 /\ parser' = NewParser
           /\ wire' = <<>> /\ UNCHANGED queue
  <2>1. \A r, s : Following(r, s) => Following(r, s)'
    BY <1>1, <1>3 DEF Following, Reached
  <2>2. BytesInRound'
    <3>1. parser'.buffer = <<>>
      BY <1>3 DEF NewParser
    <3> QED
      BY <1>3, <3>1 DEF BytesInRound
  <2> QED
    BY <2>1, <2>2 DEF RoundsInv
<1> QED
  BY <1>2, <1>3 DEF BeginRound

LEMMA ReceiveRounds == StreamInv /\ TextInv /\ RoundsInv /\ Receive => RoundsInv'
<1> SUFFICES ASSUME StreamInv, TextInv, RoundsInv, Receive PROVE RoundsInv'
  OBVIOUS
<1>1. PICK n \in 1..Len(wire) :
        /\ wire' = SubSeq(wire, n + 1, Len(wire))
        /\ IF status >= 400 THEN UNCHANGED <<parser, queue>>
           ELSE /\ parser' = [feed(parser, SubSeq(wire, 1, n)) EXCEPT !.heard = <<>>]
                /\ queue' = queue \o feed(parser, SubSeq(wire, 1, n)).heard
  BY DEF Receive
<1>2. phase = "transfer" /\ UNCHANGED <<ui, start, phase, round>>
  BY DEF Receive, logVars
<1>3. /\ wire \in Seq(ByteOf(round)) /\ parser \in ParserKinds /\ round \in Nat
      /\ parser.buffer \in Seq(ByteOf(round)) /\ parser.heard = <<>>
      /\ queue \in Seq(EventKinds)
  BY <1>2, StreamAssumption DEF StreamInv, WorkTypes, RestTypes, TextInv, RoundsInv, BytesInRound
<1>4. PICK m \in Nat : m = Len(wire)
  BY <1>3, LenProperties
<1>5. n \in 1..m /\ 1 \in Nat /\ 1 >= 1 /\ n \in Nat /\ n + 1 \in Nat /\ n + 1 >= 1 /\ n <= m /\ m <= m
  BY <1>4
<1>6. wire' \in Seq(ByteOf(round))
  BY <1>1, <1>3, <1>4, <1>5, SliceType
<1>7. PICK bytes \in Seq(ByteOf(round)) : bytes = SubSeq(wire, 1, n)
  BY <1>3, <1>4, <1>5, SliceType
<1>8. CASE status >= 400
  <2>1. UNCHANGED <<parser, queue>>
    BY <1>1, <1>8
  <2> QED
    BY <1>2, <1>6, <2>1, WireRounds
<1>9. CASE ~(status >= 400)
  <2>1. bytes \in Seq(ByteKinds)
    BY DEF ByteOf
  <2>2. ParserRounds(parser, round)
    BY <1>3 DEF ParserRounds
  <2>3. PICK fed \in ParserKinds : fed = feed(parser, bytes) /\ ParserRounds(fed, round)
    BY <1>3, <2>1, <2>2, FeedType, FeedOfRound
  <2>4. parser' = [fed EXCEPT !.heard = <<>>] /\ queue' = queue \o fed.heard
    BY <1>1, <1>7, <1>9, <2>3
  <2>5. parser'.buffer \in Seq(ByteOf(round))
    BY <2>3, <2>4 DEF ParserKinds, ParserRounds
  <2>6. PICK h \in Seq(EventOf(round)) : h = fed.heard
    BY <2>3 DEF ParserRounds
  <2>7. h \in Seq(EventKinds)
    BY DEF EventOf
  <2>8. QueueRounds(h, round, round)
    BY <1>3, QueueOfRound
  <2>9. PICK r \in Nat, s \in Nat : Following(r, s)
    BY DEF RoundsInv
  <2>10. QueueRounds(queue, r, round)
    BY <1>2, <2>9 DEF Following, Reached
  <2>11. QueueRounds(queue \o h, r, round)
    BY <1>3, <2>7, <2>8, <2>10, QueueJoins
  <2>12. Following(r, round)'
    BY <1>2, <2>4, <2>6, <2>9, <2>11 DEF Following, Reached
  <2>13. BytesInRound'
    BY <1>2, <1>6, <2>5 DEF BytesInRound
  <2> QED
    BY <1>2, <1>3, <2>12, <2>13 DEF RoundsInv
<1> QED
  BY <1>8, <1>9

LEMMA EndTransferRounds == StreamInv /\ RoundsInv /\ EndTransfer => RoundsInv'
<1> SUFFICES ASSUME StreamInv, RoundsInv, EndTransfer PROVE RoundsInv'
  OBVIOUS
<1>1. phase = "transfer" /\ UNCHANGED <<round, ui, start>>
  BY DEF EndTransfer
<1>2. CASE \E type \in {"Done", "Error"} : Post(Event(type, <<>>))
  BY <1>1, <1>2, PostRounds
<1>3. CASE phase' = "calls" /\ UNCHANGED queue
  <2>1. \A r, s : Following(r, s) => Following(r, s)'
    BY <1>1, <1>3 DEF Following, Reached
  <2>2. BytesInRound'
    BY <1>3 DEF BytesInRound
  <2> QED
    BY <2>1, <2>2 DEF RoundsInv
<1> QED
  BY <1>2, <1>3 DEF EndTransfer

LEMMA AbortRounds == StreamInv /\ RoundsInv /\ Abort => RoundsInv'
<1> SUFFICES ASSUME StreamInv, RoundsInv, Abort PROVE RoundsInv'
  OBVIOUS
<1>1. Post(Event("Canceled", <<>>)) /\ UNCHANGED <<ui, start>>
  BY DEF Abort
<1> QED
  BY <1>1, PostRounds

LEMMA RunCallRounds == StreamInv /\ RoundsInv /\ RunCall => RoundsInv'
<1> SUFFICES ASSUME StreamInv, RoundsInv, RunCall PROVE RoundsInv'
  OBVIOUS
<1> DEFINE a == Event("ToolInfo", <<>>)
           b == Event("ToolResult", << <<round, 0>> >>)
<1>1. /\ phase = "calls" /\ queue' = queue \o <<a, b>>
      /\ phase' \in {"asking", "calls"} /\ UNCHANGED <<round, ui, start>>
  BY DEF RunCall, logVars
<1>2. round \in Nat /\ queue \in Seq(EventKinds)
  BY StreamAssumption DEF StreamInv, WorkTypes, RestTypes
<1>3. PICK s \in Nat : s = Reached' /\ round <= s
  BY <1>1, <1>2 DEF Reached
<1>4. << <<round, 0>> >> \in TextKinds
  BY <1>2 DEF TextKinds, WordKinds
<1>5. a \in EventKinds /\ a.type = "ToolInfo"
  BY NoText DEF Event, EventKinds, EventTypes
<1>6. b \in EventKinds /\ b.type = "ToolResult" /\ b.text = << <<round, 0>> >>
  BY <1>4 DEF Event, EventKinds, EventTypes
<1> HIDE DEF a, b
<1>7. Reads(a, round, round)
  BY <1>2, <1>5 DEF Reads
<1>8. Reads(b, round, s)
  <2>1. PICK t \in TextKinds : t = << <<round, 0>> >>
    BY <1>4
  <2>2. \A k \in DOMAIN t : t[k][1] = round
    BY <2>1
  <2>3. \A k \in DOMAIN b.text : b.text[k][1] = round
    BY <1>6, <2>1, <2>2
  <2> QED
    BY <1>3, <1>6, <2>3 DEF Reads
<1>9. QueueRounds(<<a>>, round, round) /\ QueueRounds(<<b>>, round, s)
  <2>1. QueueRounds(<<a>>, round, round)
    BY <1>2, <1>5, <1>7, QueueOfResult
  <2>2. QueueRounds(<<b>>, round, s)
    BY <1>2, <1>6, <1>8, QueueOfResult
  <2> QED
    BY <2>1, <2>2
<1>10. <<a>> \in Seq(EventKinds) /\ <<b>> \in Seq(EventKinds) /\ <<a, b>> = <<a>> \o <<b>>
  <2>1. <<a>> \in Seq(EventKinds) /\ <<b>> \in Seq(EventKinds)
    BY <1>5, <1>6
  <2>2. Append(<<a>>, b) = <<a>> \o <<b>>
    BY <1>6, <2>1, AppendIsConcat
  <2>3. Append(<<a>>, b) = <<a, b>>
    <3>0. <<a, b>> \in Seq(EventKinds)
      BY <1>5, <1>6
    <3>1. PICK p \in Seq(EventKinds) : p = <<a, b>>
      BY <3>0
    <3>2. PICK g \in Seq(EventKinds) : g = <<a>>
      BY <2>1
    <3>3. Len(p) = 2 /\ p[1] = a /\ p[2] = b /\ Len(g) = 1 /\ g[1] = a
      BY <3>1, <3>2
    <3>a. PICK e \in EventKinds : e = b
      BY <1>6
    <3>b. PICK q \in Seq(EventKinds) : q = Append(g, e)
      BY AppendProperties
    <3>c. Len(q) = Len(g) + 1 /\ q[Len(g) + 1] = e /\ \A i \in 1..Len(g) : q[i] = g[i]
      BY <3>b, AppendProperties
    <3>4. q = Append(g, b) /\ Len(q) = 2 /\ q[1] = a /\ q[2] = b
      BY <3>3, <3>a, <3>b, <3>c
    <3>5. p = q
      <4>1. \A i \in 1..Len(p) : p[i] = q[i]
        BY <3>3, <3>4
      <4> QED
        BY <3>3, <3>4, <4>1, SeqEqual
    <3> QED
      BY <3>1, <3>2, <3>4, <3>5
  <2> QED
    BY <2>1, <2>2, <2>3
<1>11. PICK g \in Seq(EventKinds) : g = <<a>>
  BY <1>10
<1>12. PICK h \in Seq(EventKinds) : h = <<b>>
  BY <1>10
<1>13. PICK q \in Seq(EventKinds) : q = g \o h
  BY ConcatProperties
<1>14. QueueRounds(q, round, s)
  <2>1. QueueRounds(g, round, round) /\ QueueRounds(h, round, s)
    BY <1>9, <1>11, <1>12
  <2> QED
    BY <1>13, <2>1, QueueJoins
<1>15. PICK r \in Nat : UiRounds(ui, start, r) /\ QueueRounds(queue, r, round)
  BY <1>1 DEF RoundsInv, Following, Reached
<1>16. QueueRounds(queue \o q, r, s)
  BY <1>2, <1>14, <1>15, QueueJoins
<1>17. queue' = queue \o q
  BY <1>1, <1>10, <1>11, <1>12, <1>13
<1>18. Following(r, s)'
  BY <1>1, <1>3, <1>15, <1>16, <1>17 DEF Following
<1>19. BytesInRound'
  BY <1>1 DEF BytesInRound
<1> QED
  BY <1>18, <1>19 DEF RoundsInv

LEMMA DrainEventsRounds == StreamInv /\ RoundsInv /\ DrainEvents => RoundsInv'
<1> SUFFICES ASSUME StreamInv, RoundsInv, DrainEvents PROVE RoundsInv'
  OBVIOUS
<1>1. /\ queue # <<>> /\ queue' = <<>> /\ ui' = FoldLeft(Show, ui, queue)
      /\ phase' \in {"idle", phase} /\ UNCHANGED <<wire, parser, round, start>>
  BY DEF DrainEvents, netVars, logVars
<1>2. ui \in UiKinds /\ queue \in Seq(EventKinds) /\ start \in Nat
  BY DEF StreamInv, RestTypes
<1>3. PointsIn(ui, start)
  BY <1>1 DEF StreamInv, LastEvent, PointsHere
<1>4. PICK r \in Nat, s \in Nat : Following(r, s)
  BY DEF RoundsInv
<1>5. UiRounds(ui', start, s)
  <2>1. QueueRounds(queue, r, s) /\ UiRounds(ui, start, r)
    BY <1>4 DEF Following
  <2> QED
    BY <1>1, <1>2, <1>3, <2>1, ShowAllRounds
<1>6. QueueRounds(queue', s, s)
  BY <1>1, NoEvents
<1>7. phase' \in {"asking", "transfer", "calls"} => phase' = phase
  BY <1>1
<1>8. Following(s, s)'
  BY <1>1, <1>4, <1>5, <1>6, <1>7 DEF Following, Reached
<1>9. BytesInRound'
  BY <1>1, <1>7 DEF RoundsInv, BytesInRound
<1> QED
  BY <1>8, <1>9 DEF RoundsInv

LEMMA submitRounds == StreamInv /\ submit => RoundsInv'
<1> SUFFICES ASSUME StreamInv, submit PROVE RoundsInv'
  OBVIOUS
<1> DEFINE view == add(ui.chat_, "> ", <<>>)
<1>1. /\ queue' = <<>> /\ phase' = "asking" /\ round' = 0
      /\ ui' = [chat_ |-> view, thinking_idx_ |-> 0, content_idx_ |-> 0, busy_ |-> TRUE]
      /\ start' = Len(ui'.chat_.entries)
  BY Zenon DEF submit, StreamInv, TurnOpen, LastEvent
<1>2. view \in ViewKinds
  <2>1. ui.chat_ \in ViewKinds
    BY DEF StreamInv, RestTypes, UiKinds
  <2>2. "> " \in Speakers
    BY Zenon DEF Speakers
  <2> QED
    BY <2>1, <2>2, NoText, AddKeeps
<1> HIDE DEF view
<1>3. ui'.chat_ = view /\ ui'.content_idx_ = 0
  BY <1>1
<1>4. PICK n \in Nat : n = Len(view.entries) /\ start' = n
  BY <1>1, <1>2, <1>3, LenProperties DEF ViewKinds
<1>5. \A i \in 1..n : Ranks(view, n)[i] = {}
  BY <1>4 DEF Ranks
<1>6. ViewRounds(view, n, 0, 1)
  <2> HIDE DEF Ranks
  <2> QED
    BY <1>4, <1>5 DEF ViewRounds, InOrder
<1>7. UiRounds(ui', start', 1)
  BY <1>3, <1>4, <1>6 DEF UiRounds
<1>8. Following(1, 1)'
  <2>1. QueueRounds(queue', 1, 1)
    BY <1>1, NoEvents
  <2>2. Reached' = 1
    BY <1>1 DEF Reached
  <2> QED
    BY <1>7, <2>1, <2>2 DEF Following
<1>9. BytesInRound'
  BY <1>1 DEF BytesInRound
<1> QED
  BY <1>8, <1>9 DEF RoundsInv

\* The user acts on the view alone.
LEMMA SeenRounds ==
  ASSUME StreamInv, RoundsInv, NEW view, ui' = [ui EXCEPT !.chat_ = view],
         \A r \in Nat : UiRounds(ui, start, r) => ViewRounds(view, start, ui.content_idx_, r),
         UNCHANGED <<wire, parser, queue, phase, round, start>>
  PROVE  RoundsInv'
<1>1. ui'.chat_ = view /\ ui'.content_idx_ = ui.content_idx_
  BY DEF StreamInv, RestTypes, UiKinds
<1>2. \A r \in Nat, s \in Nat : Following(r, s) => Following(r, s)'
  BY <1>1 DEF Following, Reached, UiRounds
<1>3. BytesInRound'
  BY DEF RoundsInv, BytesInRound
<1> QED
  BY <1>2, <1>3 DEF RoundsInv

LEMMA StillRounds ==
  ASSUME RoundsInv, UNCHANGED <<wire, parser, queue, phase, round, start, ui>>
  PROVE  RoundsInv'
<1>1. BytesInRound'
  BY DEF RoundsInv, BytesInRound
<1> QED
  BY <1>1, QuietRounds

LEMMA EscRounds == StreamInv /\ RoundsInv /\ Esc => RoundsInv'
<1> SUFFICES ASSUME StreamInv, RoundsInv, Esc PROVE RoundsInv'
  OBVIOUS
<1>1. UNCHANGED <<wire, parser, queue, phase, round, start>>
  BY DEF Esc, netVars, workVars, logVars
<1>2. CASE cancel
  <2>1. ui' = ui
    BY <1>2 DEF Esc
  <2> QED
    BY <1>1, <2>1, StillRounds
<1>3. CASE ~cancel
  <2> DEFINE view == add(ui.chat_, "", <<>>)
  <2>1. ui' = [ui EXCEPT !.chat_ = view]
    BY <1>3 DEF Esc, StreamInv, RestTypes, UiKinds
  <2>2. PICK v \in ViewKinds, c \in Nat : v = ui.chat_ /\ c = ui.content_idx_
    BY DEF StreamInv, RestTypes, UiKinds
  <2>3. "" \in Speakers
    BY Zenon DEF Speakers
  <2>4. PICK n \in Nat : n = Len(v.entries)
    BY LenProperties DEF ViewKinds
  <2>5. ASSUME NEW r \in Nat, UiRounds(ui, start, r)
        PROVE  ViewRounds(view, start, ui.content_idx_, r)
    <3>1. ViewRounds(v, start, c, r)
      BY <2>2, <2>5 DEF UiRounds
    <3>2. ViewRounds(add(v, "", <<>>), start, c, r)
      BY <2>3, <2>4, <3>1, NoText, AddRounds
    <3> QED
      BY <2>2, <3>2
  <2> HIDE DEF view
  <2> QED
    BY <1>1, <2>1, <2>5, SeenRounds
<1> QED
  BY <1>2, <1>3

LEMMA TabRounds == StreamInv /\ RoundsInv /\ Tab => RoundsInv'
<1> SUFFICES ASSUME StreamInv, RoundsInv, Tab PROVE RoundsInv'
  OBVIOUS
<1> DEFINE view == toggle_last_collapsible(ui.chat_)
<1>1. UNCHANGED <<wire, parser, queue, phase, round, start>>
  BY DEF Tab, netVars, workVars
<1>2. ui' = [ui EXCEPT !.chat_ = view]
  BY DEF Tab, StreamInv, RestTypes, UiKinds
<1>3. PICK v \in ViewKinds, c \in Nat : v = ui.chat_ /\ c = ui.content_idx_
  BY DEF StreamInv, RestTypes, UiKinds
<1>4. \/ view = v
      \/ \E i \in DOMAIN v.entries, b \in BOOLEAN : view = [v EXCEPT !.entries[i].collapsed = b]
  <2>1. view = toggle_last_collapsible(v)
    BY <1>3
  <2> HIDE DEF view
  <2> QED
    BY <2>1, ToggleIs, Zenon
<1> HIDE DEF view
<1>5. ASSUME NEW r \in Nat, UiRounds(ui, start, r)
      PROVE  ViewRounds(view, start, ui.content_idx_, r)
  <2>1. ViewRounds(v, start, c, r)
    BY <1>3, <1>5 DEF UiRounds
  <2>2. ViewRounds(view, start, c, r)
    BY <1>4, <2>1, FoldRounds
  <2> QED
    BY <1>3, <2>2
<1> QED
  BY <1>1, <1>2, <1>5, SeenRounds

LEMMA ClearRounds == StreamInv /\ RoundsInv /\ Clear => RoundsInv'
<1> SUFFICES ASSUME StreamInv, RoundsInv, Clear PROVE RoundsInv'
  OBVIOUS
<1>1. /\ phase = "idle" /\ phase' = phase /\ queue' = queue /\ start' = 0
      /\ ui' = [ui EXCEPT !.chat_ = EmptyView]
  BY DEF Clear, clear, workVars, StreamInv, TurnOpen, RestTypes, UiKinds
<1>2. PICK n \in Nat : n = 0
  OBVIOUS
<1>3. Len(EmptyView.entries) = n
  BY <1>2 DEF EmptyView
<1>4. \A c \in Nat, r \in Nat : ViewRounds(EmptyView, 0, c, r)
  <2> HIDE DEF EmptyView
  <2> QED
    BY <1>2, <1>3 DEF ViewRounds, InOrder
<1>5. ui'.chat_ = EmptyView /\ ui'.content_idx_ \in Nat
  BY <1>1 DEF StreamInv, RestTypes, UiKinds
<1>6. PICK r \in Nat, s \in Nat : Following(r, s)
  BY DEF RoundsInv
<1>7. UiRounds(ui', start', r)
  BY <1>1, <1>4, <1>5 DEF UiRounds
<1>8. Following(r, s)'
  BY <1>1, <1>6, <1>7 DEF Following
<1>9. BytesInRound'
  BY <1>1 DEF BytesInRound
<1> QED
  BY <1>8, <1>9 DEF RoundsInv

\* The rounds of the screen, of the queue and of the network follow one another at
\* every moment (App.cpp:202-234, 382-461).
THEOREM RoundsInvariance == Spec => []RoundsInv
<1>1. StreamInv /\ TextInv /\ RoundsInv /\ [Next]_vars => RoundsInv'
  <2> SUFFICES ASSUME StreamInv, TextInv, RoundsInv, [Next]_vars PROVE RoundsInv'
    OBVIOUS
  <2>1. CASE UNCHANGED vars
    BY <2>1, StillRounds DEF vars, netVars, workVars, logVars
  <2> QED
    BY <2>1, ServerSendsRounds, ServerEndsRounds, BeginRoundRounds, ReceiveRounds,
       EndTransferRounds, AbortRounds, RunCallRounds, DrainEventsRounds, submitRounds,
       EscRounds, TabRounds, ClearRounds DEF Next
<1> QED
  BY InitRounds, StreamInvariance, TextInvariance, <1>1, PTL DEF Spec

\* No answer's entry holds the text of two rounds, and a later round's answer or tool
\* result never stands above an earlier one's: for any number of rounds and calls,
\* however the bytes are cut and the queue is drained (App.cpp:393-405).
THEOREM RoundsAlwaysInOrder == Spec => []RoundsInOrder
<1>1. StreamInv /\ TextInv /\ RoundsInv => RoundsInOrder
  <2> SUFFICES ASSUME StreamInv, TextInv, RoundsInv, start # 0 PROVE RoundsInOrder
    BY DEF RoundsInOrder
  <2>1. PICK v \in ViewKinds : v = ui.chat_
    BY DEF StreamInv, RestTypes, UiKinds
  <2>2. PICK n \in Nat : n = Len(v.entries) /\ DOMAIN v.entries = 1..n
    BY LenProperties DEF ViewKinds
  <2>3. PICK r \in Nat : \E c : InOrder(Ranks(v, start), n, c, r)
    BY <2>1, <2>2 DEF RoundsInv, Following, UiRounds, ViewRounds
  <2>4. AnswersAfter(v, start) \cap ThoughtsAfter(v, start) = {}
    BY <2>1 DEF TextInv, Balanced, UiTells, Tells
  <2> DEFINE shown == {i \in DOMAIN v.entries :
                         i > start /\ (IsAnswer(v.entries[i]) \/ v.entries[i].kind = "Tool")}
  <2>5. ASSUME NEW i \in shown
        PROVE  i \in 1..n /\ Ranks(v, start)[i] = RoundsOf(v.entries[i])
    <3>1. i \in 1..n /\ i > start /\ (IsAnswer(v.entries[i]) \/ v.entries[i].kind = "Tool")
      BY <2>2
    <3>2. IsAnswer(v.entries[i]) => v.entries[i].kind # "Thinking"
      BY <2>2, <2>4, <3>1 DEF AnswersAfter, ThoughtsAfter, IsThinking
    <3>3. Ranked(v.entries[i])
      BY <3>1, <3>2 DEF Ranked
    <3> QED
      BY <2>2, <3>1, <3>3 DEF Ranks
  <2>6. ASSUME NEW i \in shown, NEW j \in shown, i <= j,
               NEW a \in RoundsOf(v.entries[i]), NEW b \in RoundsOf(v.entries[j])
        PROVE  a \in Nat /\ b \in Nat /\ a <= b
    <3>1. /\ i \in 1..n /\ j \in 1..n
          /\ a \in Ranks(v, start)[i] /\ b \in Ranks(v, start)[j]
      BY <2>5
    <3>2. a \in 0..r /\ b \in 0..r
      BY <2>3, <3>1 DEF InOrder
    <3> QED
      BY <2>3, <2>6, <3>1, <3>2 DEF InOrder
  <2>7. \A i \in shown : i \in Nat
    BY <2>2
  <2> HIDE DEF shown
  <2>8. ASSUME NEW i \in shown, NEW j \in shown,
               NEW a \in RoundsOf(v.entries[i]), NEW b \in RoundsOf(v.entries[j])
        PROVE  (i = j => a = b) /\ (i < j => a <= b)
    <3>1. i < j => a <= b
      BY <2>6, <2>7
    <3>2. i = j => a = b
      <4>1. i = j => a \in Nat /\ b \in Nat /\ a <= b /\ b <= a
        BY <2>6, <2>7
      <4> QED
        BY <4>1
    <3> QED
      BY <3>1, <3>2
  <2> QED
    BY <2>1, <2>8, Zenon DEF RoundsInOrder, shown
<1> QED
  BY StreamInvariance, TextInvariance, RoundsInvariance, <1>1, PTL

-----------------------------------------------------------------------------
(* Whole lines are taken, and nothing else.                                 *)

\* What the server has sent of the round, and the parser has not taken, are whole
\* lines, the first of which the parser may have begun to keep; a line without a
\* newline is only at the end of what the server sends.
Taken(tail) ==
  /\ Quiet(tail)
  /\ up = "open" => tail = <<>>
  /\ Streamed(parser, wire, reply, Parts, tail)

WholeInv ==
  phase = "transfer" /\ status < 400 =>
    Quiet(parser.buffer) /\ \E tail \in Seq(ByteKinds) : Taken(tail)

LEMMA WholeKept ==
  ASSUME WholeInv, UNCHANGED <<netVars, parser, reply>>, phase' = "transfer" => phase = "transfer"
  PROVE  WholeInv'
<1>1. /\ up' = up /\ status' = status /\ wire' = wire /\ parser' = parser /\ reply' = reply
  BY DEF netVars
<1>2. \A tail : Taken(tail) => Taken(tail)'
  BY <1>1, Zenon DEF Taken
<1> QED
  BY <1>1, <1>2, Zenon DEF WholeInv

LEMMA ServerSendsTakes == StreamInv /\ WholeInv /\ ServerSends => WholeInv'
<1> SUFFICES ASSUME StreamInv, WholeInv, ServerSends PROVE WholeInv'
  OBVIOUS
<1>1. PICK line \in Says : wire' = wire \o Bytes(line, Parts) /\ reply' = Append(reply, line)
  BY DEF ServerSends
<1>2. /\ Parts \in Nat \ {0} /\ round \in 0..MaxRounds /\ sent \in 0..MaxTraffic
      /\ reply \in Seq(LineKinds) /\ wire \in Seq(ByteKinds) /\ parser \in ParserKinds
  BY StreamAssumption DEF StreamInv, WorkTypes, RestTypes, NetTypes
<1>3. line \in SaidKinds
  BY <1>2, SaysSaid
<1>4. phase = "transfer" /\ up = "open" /\ up' = up /\ status' = status /\ parser' = parser
  BY DEF ServerSends, workVars
<1>5. ASSUME status < 400 PROVE Quiet(parser.buffer) /\ Streamed(parser, wire, reply, Parts, <<>>)
  BY <1>4, <1>5 DEF WholeInv, Taken
<1>6. ASSUME status < 400
      PROVE  Quiet(parser'.buffer) /\ Streamed(parser', wire', reply', Parts, <<>>)
  BY <1>1, <1>2, <1>3, <1>4, <1>5, <1>6, StreamMore
<1>7. <<>> \in Seq(ByteKinds) /\ Quiet(<<>>)
  BY NothingQuiet
<1> QED
  BY <1>4, <1>6, <1>7, Zenon DEF WholeInv, Taken

LEMMA ServerEndsTakes == StreamInv /\ WholeInv /\ ServerEnds => WholeInv'
<1> SUFFICES ASSUME StreamInv, WholeInv, ServerEnds PROVE WholeInv'
  OBVIOUS
<1>1. /\ Parts \in Nat \ {0} /\ round \in Nat /\ sent \in Nat /\ reply \in Seq(LineKinds)
      /\ wire \in Seq(ByteKinds) /\ parser \in ParserKinds
  BY StreamAssumption DEF StreamInv, WorkTypes, RestTypes, NetTypes
<1>3. PICK line \in LineKinds : line = Page
  BY <1>1, PageType, SaidType
<1>4. wire' = wire \/ wire' = wire \o SubSeq(Bytes(line, Parts), 1, Parts)
  BY <1>3 DEF ServerEnds
<1>5. /\ phase = "transfer" /\ up = "open" /\ up' # "open" /\ status' = status
      /\ parser' = parser /\ reply' = reply
  BY DEF ServerEnds, workVars, logVars
<1>6. ASSUME status < 400 PROVE Quiet(parser.buffer) /\ Streamed(parser, wire, reply, Parts, <<>>)
  BY <1>5, <1>6 DEF WholeInv, Taken
<1>7. <<>> \in Seq(ByteKinds) /\ Quiet(<<>>)
  BY NothingQuiet
<1>8. CASE wire' = wire
  BY <1>5, <1>6, <1>7, <1>8, Zenon DEF WholeInv, Taken
<1>9. CASE wire' = wire \o SubSeq(Bytes(line, Parts), 1, Parts)
  <2>1. PICK tail \in Seq(ByteKinds) : tail = SubSeq(Bytes(line, Parts), 1, Parts) /\ Quiet(tail)
    BY <1>1, <1>3, UnendedQuiet
  <2>2. ASSUME status < 400
        PROVE  Quiet(parser'.buffer) /\ Streamed(parser', wire', reply', Parts, tail)
    BY <1>1, <1>5, <1>6, <1>9, <2>1, <2>2, StreamTail
  <2> QED
    BY <1>5, <2>1, <2>2, Zenon DEF WholeInv, Taken
<1> QED
  BY <1>4, <1>8, <1>9

LEMMA BeginRoundTakes == StreamInv /\ WholeInv /\ BeginRound => WholeInv'
<1> SUFFICES ASSUME StreamInv, WholeInv, BeginRound PROVE WholeInv'
  OBVIOUS
<1>1. Parts \in Nat \ {0}
  BY StreamAssumption
<1>2. CASE phase' = "posted"
  BY <1>2 DEF WholeInv
<1>3. CASE parser' = NewParser /\ wire' = <<>> /\ reply' = <<>>
  <2>1. Streamed(NewParser, <<>>, <<>>, Parts, <<>>) /\ Quiet(NewParser.buffer)
    BY <1>1, StreamNothing
  <2>2. <<>> \in Seq(ByteKinds) /\ Quiet(<<>>)
    BY NothingQuiet
  <2> QED
    BY <1>3, <2>1, <2>2, Zenon DEF WholeInv, Taken
<1> QED
  BY <1>2, <1>3 DEF BeginRound, Post

LEMMA ReceiveTakes == StreamInv /\ WholeInv /\ Receive => WholeInv'
<1> SUFFICES ASSUME StreamInv, WholeInv, Receive PROVE WholeInv'
  OBVIOUS
<1>1. PICK n \in 1..Len(wire) :
        /\ wire' = SubSeq(wire, n + 1, Len(wire))
        /\ IF status >= 400 THEN UNCHANGED <<parser, queue>>
           ELSE /\ parser' = [feed(parser, SubSeq(wire, 1, n)) EXCEPT !.heard = <<>>]
                /\ queue' = queue \o feed(parser, SubSeq(wire, 1, n)).heard
  BY DEF Receive
<1>2. /\ phase = "transfer"
      /\ UNCHANGED <<up, status, phase, round, calls, ui, cancel, turns, logVars>>
  BY DEF Receive
<1>3. SUFFICES ASSUME status < 400
               PROVE  Quiet(parser'.buffer) /\ \E tail \in Seq(ByteKinds) : Taken(tail)'
  BY <1>2, Zenon DEF WholeInv
<1>4. wire \in Seq(ByteKinds) /\ parser \in ParserKinds /\ Parts \in Nat \ {0} /\ status \in Nat
  BY StreamAssumption DEF StreamInv, NetTypes, WorkTypes, Statuses
<1>5. PICK bytes \in Seq(ByteKinds), more \in Seq(ByteKinds) :
        bytes = SubSeq(wire, 1, n) /\ more = SubSeq(wire, n + 1, Len(wire)) /\ wire = bytes \o more
  <2>1. PICK w \in Seq(ByteKinds) : w = wire
    BY <1>4
  <2>2. /\ SubSeq(w, 1, n) \in Seq(ByteKinds) /\ SubSeq(w, n + 1, Len(w)) \in Seq(ByteKinds)
        /\ w = SubSeq(w, 1, n) \o SubSeq(w, n + 1, Len(w))
    <3>1. n \in 1..Len(w)
      BY <2>1
    <3> QED
      BY ONLY <3>1, w \in Seq(ByteKinds), Cut
  <2> QED
    BY <2>1, <2>2
<1>6. PICK tail \in Seq(ByteKinds) : Taken(tail)
  BY <1>2, <1>3 DEF WholeInv
<1>7. Streamed(parser, bytes \o more, reply, Parts, tail) /\ Quiet(tail)
  BY <1>5, <1>6 DEF Taken
<1>8. PICK fed \in ParserKinds : fed = feed(parser, bytes)
  BY <1>4, FeedType
<1>9. Streamed(fed, more, reply, Parts, tail)
  BY <1>4, <1>7, <1>8, FeedStreamed
<1>10. Quiet(fed.buffer)
  BY <1>4, <1>8, FeedQuiet
<1>11. parser' = [fed EXCEPT !.heard = <<>>] /\ wire' = more
  <2>1. ~(status >= 400)
    BY <1>3, <1>4
  <2>2. parser' = [feed(parser, SubSeq(wire, 1, n)) EXCEPT !.heard = <<>>]
    BY <1>1, <2>1, Zenon
  <2> QED
    BY <1>1, <1>5, <1>8, <2>2, Zenon
<1>12. Streamed(parser', wire', reply, Parts, tail)
  BY <1>9, <1>11, HeardApart
<1>13. Quiet(parser'.buffer)
  <2>1. parser'.buffer = fed.buffer
    BY <1>11 DEF ParserKinds
  <2> QED
    BY <1>10, <2>1
<1>14. reply' = reply /\ up' = up
  BY <1>2 DEF logVars
<1> QED
  BY <1>6, <1>12, <1>13, <1>14, Zenon DEF Taken

LEMMA InitWhole == Init => WholeInv
<1> QED
  BY DEF Init, WholeInv

\* The invariant, step by step.
THEOREM WholeInvariance == Spec => []WholeInv
<1>1. StreamInv /\ WholeInv /\ [Next]_vars => WholeInv'
  <2> SUFFICES ASSUME StreamInv, WholeInv, [Next]_vars PROVE WholeInv'
    OBVIOUS
  <2>1. CASE ServerSends
    BY <2>1, ServerSendsTakes
  <2>2. CASE ServerEnds
    BY <2>2, ServerEndsTakes
  <2>3. CASE BeginRound
    BY <2>3, BeginRoundTakes
  <2>4. CASE Receive
    BY <2>4, ReceiveTakes
  <2>5. CASE EndTransfer
    BY <2>5 DEF EndTransfer, Post, WholeInv
  <2>6. CASE Abort
    BY <2>6 DEF Abort, Post, WholeInv
  <2>7. CASE RunCall
    <3>1. phase' # "transfer"
      BY <2>7 DEF RunCall
    <3> QED
      BY <3>1 DEF WholeInv
  <2>8. CASE DrainEvents
    <3>1. UNCHANGED <<netVars, parser, reply>> /\ (phase' = "transfer" => phase = "transfer")
      BY <2>8 DEF DrainEvents, logVars
    <3> QED
      BY <3>1, WholeKept
  <2>9. CASE submit
    BY <2>9 DEF submit, WholeInv
  <2>10. CASE Esc \/ Tab \/ Clear
    <3>1. UNCHANGED <<netVars, parser, reply>> /\ (phase' = "transfer" => phase = "transfer")
      BY <2>10 DEF Esc, Tab, Clear, workVars, logVars
    <3> QED
      BY <3>1, WholeKept
  <2>11. CASE UNCHANGED vars
    <3>1. UNCHANGED <<netVars, parser, reply>> /\ (phase' = "transfer" => phase = "transfer")
      BY <2>11 DEF vars, workVars, logVars
    <3> QED
      BY <3>1, WholeKept
  <2> QED
    BY <2>1, <2>2, <2>3, <2>4, <2>5, <2>6, <2>7, <2>8, <2>9, <2>10, <2>11 DEF Next
<1> QED
  BY InitWhole, StreamInvariance, <1>1, PTL DEF Spec

\* Wherever the network cuts the stream, the parser has what the whole lines received
\* so far say, for any number of lines and any pieces (ChatResponse.cpp:26-51).
THEOREM ParsedAlwaysWhole == Spec => []ParsedWhole
<1>1. StreamInv /\ WholeInv => ParsedWhole
  <2> SUFFICES ASSUME StreamInv, WholeInv, phase = "transfer", status < 400
               PROVE  LET said == Reply(SubSeq(reply, 1, Len(reply) - Newlines(wire)))
                      IN  \A field \in DOMAIN said : parser[field] = said[field]
    BY DEF ParsedWhole
  <2>1. wire \in Seq(ByteKinds) /\ parser \in ParserKinds /\ reply \in Seq(LineKinds)
    BY DEF StreamInv, NetTypes, WorkTypes, RestTypes
  <2>2. PICK tail \in Seq(ByteKinds) : Streamed(parser, wire, reply, Parts, tail)
    BY DEF WholeInv, Taken
  <2>3. PICK read \in Seq(SaidKinds), rest \in Seq(SaidKinds) :
          Streaming(parser, wire, reply, Parts, tail, read, rest)
    BY <2>2 DEF Streamed
  <2>4. Quiet(parser.buffer)
    BY DEF WholeInv
  <2>5. SubSeq(reply, 1, Len(reply) - Newlines(wire)) = read
    BY <2>1, <2>3, <2>4, ReadIs
  <2>6. read \in Seq(LineKinds) /\ Means(parser, read)
    BY <2>3, SaidLines DEF Streaming
  <2>7. \A field \in DOMAIN Reply(read) : parser[field] = Reply(read)[field]
    BY <2>1, <2>6, MeansReply
  <2> QED
    BY <2>5, <2>7
<1> QED
  BY StreamInvariance, WholeInvariance, <1>1, PTL

=============================================================================
