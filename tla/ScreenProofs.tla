---------------------------- MODULE ScreenProofs ----------------------------
(***************************************************************************)
(* Proofs about Screen, for prompts, chats and terminals of any size.      *)
(*                                                                         *)
(* The buffer is the spelling of a text: Offsets says where each character *)
(* begins in it, and every helper of Utf8.cpp that walks over bytes is     *)
(* proved to walk over characters (PrevAt, NextAt, WalkAt, CountAt,        *)
(* StartAt, EndAt).  The invariant, ScreenInv, is that the prompt Stands:  *)
(* it spells a text and its cursor is where one of the characters begins;  *)
(* and that no more of the chat is scrolled away than there is.            *)
(*                                                                         *)
(* A step of the prompt is then a step of TextEditor's on that text; a turn*)
(* of the wheel moves the chat, since the offset it starts from is bounded;*)
(* and the rows wrap_layout gives begin at characters that only rise       *)
(* (Begins, Rises), so that read in order they are the buffer, and a       *)
(* character has one row and one column.                                   *)
(***************************************************************************)
EXTENDS Screen, FoldLemmas

-----------------------------------------------------------------------------
(* The bytes of a text.                                                     *)

ByteSet == Alphabet \cup {"cont"}

Spell == [c \in Alphabet |-> encode(c)]

Spelled(q) == Joined(Spell, q)

LEMMA CharTypes ==
  ASSUME NEW c \in Alphabet
  PROVE  /\ seq_len(c) \in 1..3 /\ ~is_cont(c)
         /\ encode(c) \in Seq(ByteSet) /\ Len(encode(c)) = seq_len(c)
         /\ encode(c)[1] = c
         /\ \A i \in 2..seq_len(c) : encode(c)[i] = "cont"
<1>1. seq_len(c) \in 1..3 /\ ~is_cont(c)
  BY DEF seq_len, is_cont, Alphabet
<1>2. PICK n \in 1..3 : n = seq_len(c)
  BY <1>1
<1> DEFINE e(i) == IF i = 1 THEN c ELSE "cont"
<1>3. \A i \in 1..n : e(i) \in ByteSet
  BY DEF ByteSet
<1>4. encode(c) = [i \in 1..n |-> e(i)]
  BY <1>2 DEF encode
<1>5. encode(c) \in Seq(ByteSet)
  <2> HIDE DEF e
  <2> QED
    BY <1>3, <1>4, IsASeq
<1>6. Len(encode(c)) = n
  BY <1>4
<1>7. encode(c)[1] = c /\ \A i \in 2..n : encode(c)[i] = "cont"
  BY <1>4
<1> QED
  BY <1>1, <1>2, <1>5, <1>6, <1>7

LEMMA SpellType == Spell \in [Alphabet -> Seq(ByteSet)]
BY CharTypes DEF Spell

LEMMA SpelledType ==
  ASSUME NEW q \in Seq(Alphabet)
  PROVE  Spelled(q) \in Seq(ByteSet)
BY SpellType, GatheredType DEF Spelled

LEMMA SpelledConcat ==
  ASSUME NEW q \in Seq(Alphabet), NEW r \in Seq(Alphabet)
  PROVE  Spelled(q \o r) = Spelled(q) \o Spelled(r)
BY SpellType, GatheredConcat DEF Spelled

LEMMA SpelledOne ==
  ASSUME NEW c \in Alphabet
  PROVE  Spelled(<<c>>) = encode(c)
<1>1. Spelled(<<c>>) = Spell[c]
  BY SpellType, GatheredOne DEF Spelled
<1> QED
  BY <1>1 DEF Spell

LEMMA SpelledAppend ==
  ASSUME NEW q \in Seq(Alphabet), NEW c \in Alphabet
  PROVE  Spelled(Append(q, c)) = Spelled(q) \o encode(c)
<1>1. Spelled(Append(q, c)) = Spelled(q) \o Spell[c]
  BY SpellType, GatheredAppend DEF Spelled
<1> QED
  BY <1>1 DEF Spell

LEMMA SpelledEmpty == Spelled(<<>>) = <<>>
<1>1. PICK q \in Seq(Alphabet) : q = <<>> /\ Len(q) = 0
  BY EmptySeq
<1>2. PICK n \in Nat : n = Len(q) /\ n = 0
  BY <1>1
<1>3. \A i \in 1..n : Spell[q[i]] = <<>>
  BY <1>2
<1>4. Joined(Spell, q) = <<>>
  BY <1>2, <1>3, SpellType, GatheredNothing
<1> QED
  BY <1>1, <1>4 DEF Spelled

LEMMA EncodedIs ==
  ASSUME NEW q \in Seq(Alphabet)
  PROVE  Encoded(q) = Spelled(q)
<1>1. PICK n \in Nat : n = Len(q)
  BY LenProperties
<1>2. DOMAIN q = 1..n /\ \A i \in 1..n : q[i] \in Alphabet
  BY <1>1, LenProperties, ElementOfSeq
<1>3. \A i \in 1..n : Spell[q[i]] = encode(q[i])
  BY <1>2 DEF Spell
<1>4. [i \in DOMAIN q |-> encode(q[i])] = Gathered(Spell, q)
  BY <1>2, <1>3 DEF Gathered
<1> QED
  BY <1>4 DEF Encoded, Spelled, Joined

\* What is left of the bytes without the continuations.
Heads == [b \in ByteSet |-> IF is_cont(b) THEN <<>> ELSE <<b>>]

LEMMA HeadsType == Heads \in [ByteSet -> Seq(Alphabet)]
<1>1. ASSUME NEW b \in ByteSet PROVE (IF is_cont(b) THEN <<>> ELSE <<b>>) \in Seq(Alphabet)
  <2>1. CASE is_cont(b)
    BY <2>1, EmptySeq
  <2>2. CASE ~is_cont(b)
    <3>1. b \in Alphabet
      BY <2>2 DEF ByteSet, is_cont
    <3>2. <<b>> \in Seq(Alphabet)
      BY <3>1
    <3> QED
      BY <2>2, <3>2
  <2> QED
    BY <2>1, <2>2
<1> QED
  BY <1>1 DEF Heads

LEMMA HeadsConcat ==
  ASSUME NEW s \in Seq(ByteSet), NEW t \in Seq(ByteSet)
  PROVE  Joined(Heads, s \o t) = Joined(Heads, s) \o Joined(Heads, t)
BY HeadsType, GatheredConcat

LEMMA HeadsNothing ==
  ASSUME NEW s \in Seq(ByteSet), NEW n \in Nat, n = Len(s), \A i \in 1..n : s[i] = "cont"
  PROVE  Joined(Heads, s) = <<>>
<1>1. \A i \in 1..n : Heads[s[i]] = <<>>
  BY DEF Heads, ByteSet, is_cont
<1> QED
  BY <1>1, HeadsType, GatheredNothing

LEMMA DecodedIs ==
  ASSUME NEW s \in Seq(ByteSet)
  PROVE  Decoded(s) = Joined(Heads, s)
<1>1. PICK n \in Nat : n = Len(s)
  BY LenProperties
<1>2. DOMAIN s = 1..n /\ \A i \in 1..n : s[i] \in ByteSet
  BY <1>1, LenProperties, ElementOfSeq
<1>3. \A i \in 1..n : Heads[s[i]] = IF is_cont(s[i]) THEN <<>> ELSE <<s[i]>>
  BY <1>2 DEF Heads
<1>4. [i \in DOMAIN s |-> IF is_cont(s[i]) THEN <<>> ELSE <<s[i]>>] = Gathered(Heads, s)
  BY <1>2, <1>3 DEF Gathered
<1> QED
  BY <1>4 DEF Decoded, Joined

LEMMA DecodedChar ==
  ASSUME NEW c \in Alphabet
  PROVE  Joined(Heads, encode(c)) = <<c>>
<1>1. PICK n \in 1..3 : n = seq_len(c)
  BY CharTypes
<1>2. PICK s \in Seq(ByteSet) : s = encode(c)
  BY CharTypes
<1>3. Len(s) = n /\ s[1] = c /\ ~is_cont(c) /\ \A i \in 2..n : s[i] = "cont"
  BY <1>1, <1>2, CharTypes
<1>4. PICK one \in Seq(ByteSet) : one = <<c>>
  <2>1. <<c>> \in Seq(ByteSet)
    BY DEF ByteSet
  <2> QED
    BY <2>1
<1>5. PICK more \in Seq(ByteSet) : more = SubSeq(s, 2, n)
  <2>1. 2 \in Nat /\ 2 >= 1 /\ n \in Nat /\ n <= Len(s)
    BY <1>3
  <2>2. SubSeq(s, 2, n) \in Seq(ByteSet)
    BY <2>1, SliceType
  <2> QED
    BY <2>2
<1>6. s = one \o more
  <2>1. 1 \in 1..Len(s) /\ n \in 1..Len(s)
    BY <1>3
  <2>2. SubSeq(s, 1, n) = <<s[1]>> \o SubSeq(s, 1 + 1, n)
    BY <2>1, SubSeqRecursiveFirst
  <2>3. SubSeq(s, 1, n) = s
    BY <1>3, SubSeqFull
  <2> QED
    BY <1>3, <1>4, <1>5, <2>2, <2>3
<1>7. Joined(Heads, one) = <<c>>
  <2>1. c \in ByteSet
    BY DEF ByteSet
  <2>2. Joined(Heads, one) = Heads[c]
    BY <1>4, <2>1, HeadsType, GatheredOne
  <2> QED
    BY <1>3, <2>1, <2>2 DEF Heads
<1>8. Joined(Heads, more) = <<>>
  <2>1. PICK m \in Nat : m = Len(more)
    BY LenProperties
  <2>2. \A i \in 1..m : more[i] = "cont"
    <3>1. \A i \in 2..n : s[i] \in ByteSet
      BY <1>3 DEF ByteSet
    <3>2. /\ Len(more) = IF 2 <= n THEN n - 2 + 1 ELSE 0
          /\ \A i \in 1..(n - 2 + 1) : more[i] = s[2 + i - 1]
      BY <1>5, <3>1, SubSeqProperties
    <3>3. \A i \in 1..m : i \in 1..(n - 2 + 1) /\ 2 + i - 1 \in 2..n
      BY <2>1, <3>2
    <3> QED
      BY <1>3, <3>2, <3>3
  <2> QED
    BY <2>1, <2>2, HeadsNothing
<1>9. Joined(Heads, one \o more) = Joined(Heads, one) \o Joined(Heads, more)
  BY HeadsConcat
<1>10. PICK word \in Seq(Alphabet) : word = <<c>>
  <2>1. <<c>> \in Seq(Alphabet)
    OBVIOUS
  <2> QED
    BY <2>1
<1>11. word \o <<>> = word
  BY ConcatEmptySeq
<1> QED
  BY <1>2, <1>6, <1>7, <1>8, <1>9, <1>10, <1>11

\* The characters of the bytes of a text are the text.
LEMMA DecodedSpelled ==
  ASSUME NEW q \in Seq(Alphabet)
  PROVE  Decoded(Spelled(q)) = q
<1> DEFINE G == {r \in Seq(Alphabet) : Joined(Heads, Spelled(r)) = r}
<1>1. <<>> \in G
  <2>1. PICK s \in Seq(ByteSet) : s = <<>> /\ Len(s) = 0
    BY EmptySeq
  <2>2. PICK n \in Nat : n = Len(s) /\ n = 0
    BY <2>1
  <2>3. \A i \in 1..n : s[i] = "cont"
    BY <2>2
  <2>4. Joined(Heads, s) = <<>>
    BY <2>2, <2>3, HeadsNothing
  <2> QED
    BY <2>1, <2>4, SpelledEmpty, EmptySeq
<1>2. ASSUME NEW r \in Seq(Alphabet), NEW c \in Alphabet, r \in G PROVE Append(r, c) \in G
  <2>1. PICK s \in Seq(ByteSet) : s = Spelled(r)
    BY SpelledType
  <2>2. PICK t \in Seq(ByteSet) : t = encode(c)
    BY CharTypes
  <2>3. Joined(Heads, s \o t) = Joined(Heads, s) \o Joined(Heads, t)
    BY HeadsConcat
  <2>4. Joined(Heads, s) = r /\ Joined(Heads, t) = <<c>>
    BY <1>2, <2>1, <2>2, DecodedChar
  <2>5. Spelled(Append(r, c)) = s \o t
    BY <2>1, <2>2, SpelledAppend
  <2>6. Append(r, c) = r \o <<c>> /\ Append(r, c) \in Seq(Alphabet)
    BY AppendIsConcat, AppendProperties
  <2> QED
    BY <2>3, <2>4, <2>5, <2>6
<1> HIDE DEF G
<1>3. Seq(Alphabet) \subseteq G
  BY <1>1, <1>2, AppendClimb
<1>4. Joined(Heads, Spelled(q)) = q
  BY <1>3 DEF G
<1> QED
  BY <1>4, SpelledType, DecodedIs

-----------------------------------------------------------------------------
(* Where the characters are.                                                *)

\* The bytes s spell the n characters of q; character k ends at position off[k].
Laid(s, q, n, off) ==
  /\ s \in Seq(ByteSet) /\ q \in Seq(Alphabet) /\ n \in Nat /\ n = Len(q)
  /\ off \in [0..n -> Nat] /\ off[0] = 0 /\ off[n] = Len(s)
  /\ \A k \in 1..n :
       /\ q[k] \in Alphabet
       /\ off[k] = off[k - 1] + seq_len(q[k])
       /\ s[off[k - 1] + 1] = q[k]
       /\ \A j \in off[k - 1] + 2..off[k] : s[j] = "cont"

Offsets(q) == [k \in 0..Len(q) |-> Len(Spelled(SubSeq(q, 1, k)))]

LEMMA PartsOf ==
  ASSUME NEW S, NEW q \in Seq(S), NEW n \in Nat, n = Len(q), NEW k \in 0..n
  PROVE  /\ SubSeq(q, 1, k) \in Seq(S) /\ Len(SubSeq(q, 1, k)) = k
         /\ SubSeq(q, k + 1, n) \in Seq(S) /\ Len(SubSeq(q, k + 1, n)) = n - k
         /\ SubSeq(q, 1, k) \o SubSeq(q, k + 1, n) = q
<1>1. \A i \in 1..n : q[i] \in S
  BY ElementOfSeq
<1>2. (\A i \in 1..k : q[i] \in S) /\ (\A i \in k + 1..n : q[i] \in S)
  BY <1>1
<1>3. SubSeq(q, 1, k) \in Seq(S) /\ Len(SubSeq(q, 1, k)) = k
  <2>1. Len(SubSeq(q, 1, k)) = IF 1 <= k THEN k - 1 + 1 ELSE 0
    BY <1>2, SubSeqProperties
  <2> QED
    BY <1>2, <2>1, SubSeqProperties
<1>4. SubSeq(q, k + 1, n) \in Seq(S) /\ Len(SubSeq(q, k + 1, n)) = n - k
  <2>1. Len(SubSeq(q, k + 1, n)) = IF k + 1 <= n THEN n - (k + 1) + 1 ELSE 0
    BY <1>2, SubSeqProperties
  <2> QED
    BY <1>2, <2>1, SubSeqProperties
<1>5. SubSeq(q, 1, k) \o SubSeq(q, k + 1, n) = SubSeq(q, 1, n)
  <2>1. 1 \in 1..Len(q) + 1 /\ k \in 1 - 1..Len(q) /\ n \in k..Len(q)
    OBVIOUS
  <2> QED
    BY <2>1, ConcatAdjacentSubSeq
<1> QED
  BY <1>3, <1>4, <1>5, SubSeqFull

LEMMA OffsetStep ==
  ASSUME NEW q \in Seq(Alphabet), NEW n \in Nat, n = Len(q), NEW k \in 1..n
  PROVE  /\ q[k] \in Alphabet
         /\ Spelled(SubSeq(q, 1, k)) = Spelled(SubSeq(q, 1, k - 1)) \o encode(q[k])
<1>1. PICK c \in Alphabet : c = q[k]
  BY ElementOfSeq
<1>2. PICK r \in Seq(Alphabet) : r = SubSeq(q, 1, k - 1)
  <2>1. k - 1 \in 0..n
    OBVIOUS
  <2>2. SubSeq(q, 1, k - 1) \in Seq(Alphabet)
    BY <2>1, PartsOf
  <2> QED
    BY <2>2
<1>3. SubSeq(q, 1, k) = Append(r, c)
  <2>1. SubSeq(q, 1, k) = SubSeq(q, 1, k - 1) \o <<q[k]>>
    BY SubSeqRecursiveSecond
  <2>2. Append(r, c) = r \o <<c>>
    BY AppendIsConcat
  <2> QED
    BY <1>1, <1>2, <2>1, <2>2
<1>4. Spelled(Append(r, c)) = Spelled(r) \o encode(c)
  BY SpelledAppend
<1> QED
  BY <1>1, <1>2, <1>3, <1>4

\* The first bytes of a text are those of its first characters.
LEMMA SpelledSplit ==
  ASSUME NEW q \in Seq(Alphabet), NEW n \in Nat, n = Len(q), NEW k \in 0..n
  PROVE  /\ Spelled(SubSeq(q, 1, k)) \in Seq(ByteSet)
         /\ Spelled(SubSeq(q, k + 1, n)) \in Seq(ByteSet)
         /\ Spelled(q) = Spelled(SubSeq(q, 1, k)) \o Spelled(SubSeq(q, k + 1, n))
<1>1. PICK l \in Seq(Alphabet) : l = SubSeq(q, 1, k)
  <2>1. SubSeq(q, 1, k) \in Seq(Alphabet)
    BY PartsOf
  <2> QED
    BY <2>1
<1>2. PICK r \in Seq(Alphabet) : r = SubSeq(q, k + 1, n)
  <2>1. SubSeq(q, k + 1, n) \in Seq(Alphabet)
    BY PartsOf
  <2> QED
    BY <2>1
<1>3. l \o r = q
  BY <1>1, <1>2, PartsOf
<1>4. Spelled(l \o r) = Spelled(l) \o Spelled(r)
  BY SpelledConcat
<1> QED
  BY <1>1, <1>2, <1>3, <1>4, SpelledType

LEMMA ConcatIs ==
  ASSUME NEW S, NEW a \in Seq(S), NEW b \in Seq(S), NEW n \in Nat, NEW m \in Nat,
         n = Len(a), m = Len(b)
  PROVE  /\ a \o b \in Seq(S) /\ Len(a \o b) = n + m
         /\ \A i \in 1..n : (a \o b)[i] = a[i]
         /\ \A i \in 1..m : (a \o b)[n + i] = b[i]
<1>1. /\ a \o b \in Seq(S) /\ Len(a \o b) = Len(a) + Len(b)
      /\ \A i \in 1..(Len(a) + Len(b)) :
           (a \o b)[i] = IF i <= Len(a) THEN a[i] ELSE b[i - Len(a)]
  BY ConcatProperties
<1>2. /\ Len(a \o b) = n + m
      /\ \A i \in 1..(n + m) : (a \o b)[i] = IF i <= n THEN a[i] ELSE b[i - n]
  BY <1>1
<1>3. \A i \in 1..n : (a \o b)[i] = a[i]
  BY <1>2
<1>4. \A i \in 1..m : (a \o b)[n + i] = b[i]
  BY <1>2
<1> QED
  BY <1>1, <1>2, <1>3, <1>4

LEMMA Lays ==
  ASSUME NEW q \in Seq(Alphabet)
  PROVE  Laid(Spelled(q), q, Len(q), Offsets(q))
<1>1. PICK n \in Nat : n = Len(q)
  BY LenProperties
<1>2. PICK s \in Seq(ByteSet) : s = Spelled(q)
  BY SpelledType
<1>3. PICK off \in [0..n -> Nat] : off = Offsets(q)
  <2>1. \A k \in 0..n : Len(Spelled(SubSeq(q, 1, k))) \in Nat
    BY <1>1, SpelledSplit, LenProperties
  <2> QED
    BY <1>1, <2>1 DEF Offsets
<1>4. \A k \in 0..n : off[k] = Len(Spelled(SubSeq(q, 1, k)))
  BY <1>1, <1>3 DEF Offsets
<1>5. off[0] = 0
  <2>1. SubSeq(q, 1, 0) = <<>>
    BY SubSeqEmpty
  <2>2. off[0] = Len(Spelled(SubSeq(q, 1, 0)))
    BY <1>4
  <2> QED
    BY <2>1, <2>2, SpelledEmpty, EmptySeq
<1>6. off[n] = Len(s)
  <2>1. off[n] = Len(Spelled(SubSeq(q, 1, n)))
    BY <1>4
  <2> QED
    BY <1>1, <1>2, <2>1, SubSeqFull
<1>7. ASSUME NEW k \in 1..n
      PROVE  /\ q[k] \in Alphabet
             /\ off[k] = off[k - 1] + seq_len(q[k])
             /\ s[off[k - 1] + 1] = q[k]
             /\ \A j \in off[k - 1] + 2..off[k] : s[j] = "cont"
  <2>1. PICK c \in Alphabet : c = q[k]
    BY <1>1, OffsetStep
  <2>2. PICK a \in Seq(ByteSet) : a = Spelled(SubSeq(q, 1, k - 1))
    <3>1. k - 1 \in 0..n
      OBVIOUS
    <3> QED
      BY <1>1, <3>1, SpelledSplit
  <2>3. PICK b \in Seq(ByteSet) : b = Spelled(SubSeq(q, k + 1, n))
    <3>1. k \in 0..n
      OBVIOUS
    <3> QED
      BY <1>1, <3>1, SpelledSplit
  <2>4. PICK e \in Seq(ByteSet) : e = encode(c)
    BY CharTypes
  <2>5. PICK d \in Seq(ByteSet) : d = a \o e
    BY ConcatProperties
  <2>6. s = d \o b
    <3>1. k \in 0..n
      OBVIOUS
    <3>2. Spelled(q) = Spelled(SubSeq(q, 1, k)) \o Spelled(SubSeq(q, k + 1, n))
      BY <1>1, <3>1, SpelledSplit
    <3>3. Spelled(SubSeq(q, 1, k)) = Spelled(SubSeq(q, 1, k - 1)) \o encode(q[k])
      BY <1>1, OffsetStep
    <3> QED
      BY <1>2, <2>1, <2>2, <2>3, <2>4, <2>5, <3>2, <3>3
  <2>7. PICK x \in Nat : x = Len(a)
    BY LenProperties
  <2>8. PICK m \in 1..3 : m = seq_len(c)
    BY CharTypes
  <2>9. Len(e) = m /\ e[1] = c /\ \A i \in 2..m : e[i] = "cont"
    BY <2>4, <2>8, CharTypes
  <2>10. PICK y \in Nat : y = Len(b)
    BY LenProperties
  <2>11. Len(d) = x + m /\ \A i \in 1..m : d[x + i] = e[i]
    BY <2>5, <2>7, <2>9, ConcatIs
  <2>12. \A i \in 1..(x + m) : s[i] = d[i]
    <3>1. PICK z \in Nat : z = x + m
      OBVIOUS
    <3>2. \A i \in 1..z : s[i] = d[i]
      BY <2>6, <2>10, <2>11, <3>1, ConcatIs
    <3> QED
      BY <3>1, <3>2
  <2>13. off[k - 1] = x /\ off[k] = x + m
    <3>1. k - 1 \in 0..n /\ k \in 0..n
      OBVIOUS
    <3>2. off[k - 1] = Len(a)
      BY <1>4, <2>2, <3>1
    <3>3. off[k] = Len(Spelled(SubSeq(q, 1, k)))
      BY <1>4, <3>1
    <3>4. Spelled(SubSeq(q, 1, k)) = d
      BY <1>1, <2>1, <2>2, <2>4, <2>5, OffsetStep
    <3> QED
      BY <2>7, <2>11, <3>2, <3>3, <3>4
  <2>14. s[x + 1] = c
    <3>1. 1 \in 1..m /\ x + 1 \in 1..(x + m)
      OBVIOUS
    <3> QED
      BY <2>9, <2>11, <2>12, <3>1
  <2>15. ASSUME NEW j \in x + 2..x + m PROVE s[j] = "cont"
    <3>1. PICK i \in 2..m : j = x + i
      <4>1. j - x \in 2..m /\ j = x + (j - x)
        OBVIOUS
      <4> QED
        BY <4>1
    <3>2. i \in 1..m /\ j \in 1..(x + m)
      BY <3>1
    <3> QED
      BY <2>9, <2>11, <2>12, <3>1, <3>2
  <2> QED
    BY <2>1, <2>8, <2>13, <2>14, <2>15
<1>8. Laid(s, q, n, off)
  BY <1>1, <1>5, <1>6, <1>7 DEF Laid
<1> QED
  BY <1>1, <1>2, <1>3, <1>8

LEMMA Least ==
  ASSUME NEW S, NEW i \in S, \A j \in S : j \in Int /\ i <= j
  PROVE  Min(S) = i
<1>1. Min(S) \in S /\ \A j \in S : Min(S) <= j
  BY DEF Min
<1>2. Min(S) \in Int /\ Min(S) <= i /\ i <= Min(S) /\ i \in Int
  BY <1>1
<1> QED
  BY <1>2

LEMMA Greatest ==
  ASSUME NEW S, NEW i \in S, \A j \in S : j \in Int /\ j <= i
  PROVE  Max(S) = i
<1>1. Max(S) \in S /\ \A j \in S : Max(S) >= j
  BY DEF Max
<1>2. Max(S) \in Int /\ Max(S) >= i /\ i >= Max(S) /\ i \in Int
  BY <1>1
<1> QED
  BY <1>2

LEMMA LesserOf ==
  ASSUME NEW a \in Int, NEW b \in Int
  PROVE  Min({a, b}) = IF a <= b THEN a ELSE b
<1>1. CASE a <= b
  <2>1. a \in {a, b} /\ \A j \in {a, b} : j \in Int /\ a <= j
    BY <1>1
  <2> QED
    BY <1>1, <2>1, Least
<1>2. CASE ~(a <= b)
  <2>1. b \in {a, b} /\ \A j \in {a, b} : j \in Int /\ b <= j
    BY <1>2
  <2> QED
    BY <1>2, <2>1, Least
<1> QED
  BY <1>1, <1>2

LEMMA GreaterOf ==
  ASSUME NEW a \in Int, NEW b \in Int
  PROVE  Max({a, b}) = IF a <= b THEN b ELSE a
<1>1. CASE a <= b
  <2>1. b \in {a, b} /\ \A j \in {a, b} : j \in Int /\ j <= b
    BY <1>1
  <2> QED
    BY <1>1, <2>1, Greatest
<1>2. CASE ~(a <= b)
  <2>1. a \in {a, b} /\ \A j \in {a, b} : j \in Int /\ j <= a
    BY <1>2
  <2> QED
    BY <1>2, <2>1, Greatest
<1> QED
  BY <1>1, <1>2

LEMMA OffsetsStep ==
  ASSUME NEW s, NEW q, NEW n, NEW off, Laid(s, q, n, off)
  PROVE  /\ n \in Nat /\ off \in [0..n -> Nat] /\ off[0] = 0 /\ off[n] = Len(s)
         /\ s \in Seq(ByteSet) /\ q \in Seq(Alphabet) /\ n = Len(q)
         /\ \A k \in 1..n : /\ q[k] \in Alphabet /\ seq_len(q[k]) \in 1..3
                            /\ off[k] = off[k - 1] + seq_len(q[k])
BY CharTypes DEF Laid

LEMMA OffsetsGrow ==
  ASSUME NEW s, NEW q, NEW n, NEW off, Laid(s, q, n, off)
  PROVE  \A i, j \in 0..n : i < j => off[i] < off[j]
<1>1. /\ n \in Nat /\ off \in [0..n -> Nat]
      /\ \A k \in 1..n : seq_len(q[k]) \in 1..3 /\ off[k] = off[k - 1] + seq_len(q[k])
  BY OffsetsStep
<1> DEFINE G == {j \in 0..n : \A i \in 0..n : i < j => off[i] < off[j]}
<1>2. 0 \in G
  BY <1>1
<1>3. ASSUME NEW k \in 1..n, k - 1 \in G PROVE k \in G
  <2>1. k \in 0..n /\ k - 1 \in 0..n
    BY <1>1
  <2>2. off[k - 1] < off[k] /\ off[k - 1] \in Nat /\ off[k] \in Nat
    <3>1. PICK m \in 1..3 : m = seq_len(q[k])
      BY <1>1
    <3>2. off[k] = off[k - 1] + m
      BY <1>1, <3>1
    <3>3. off[k - 1] \in Nat
      BY <1>1, <2>1
    <3> QED
      BY <3>2, <3>3
  <2>3. ASSUME NEW i \in 0..n, i < k PROVE off[i] < off[k]
    <3>1. i = k - 1 \/ i < k - 1
      BY <2>3
    <3>2. i < k - 1 => off[i] < off[k - 1]
      BY <1>3
    <3>3. off[i] \in Nat
      BY <1>1
    <3> QED
      BY <2>2, <3>1, <3>2, <3>3
  <2> QED
    BY <2>1, <2>3
<1> HIDE DEF G
<1>4. 0..n \subseteq G
  BY <1>1, <1>2, <1>3, Climb
<1> QED
  BY <1>4 DEF G

\* The same, for numbers that may be equal, and the other way round.
LEMMA OffsetsOrder ==
  ASSUME NEW s, NEW q, NEW n, NEW off, Laid(s, q, n, off), NEW i \in 0..n, NEW j \in 0..n
  PROVE  /\ off[i] \in 0..Len(s) /\ off[j] \in 0..Len(s) /\ Len(s) \in Nat
         /\ off[i] <= off[j] <=> i <= j
         /\ off[i] < off[j] <=> i < j
         /\ off[i] = off[j] <=> i = j
<1>1. n \in Nat /\ off \in [0..n -> Nat] /\ off[0] = 0 /\ off[n] = Len(s)
  BY OffsetsStep
<1>2. 0 \in 0..n /\ n \in 0..n
  BY <1>1
<1>3. \A a, b \in 0..n : a < b => off[a] < off[b]
  BY OffsetsGrow
<1>4. off[i] \in Nat /\ off[j] \in Nat /\ Len(s) \in Nat
  BY <1>1, <1>2
<1>5. (i < j => off[i] < off[j]) /\ (j < i => off[j] < off[i])
  BY <1>3
<1>6. (i < n => off[i] < off[n]) /\ (j < n => off[j] < off[n])
  BY <1>2, <1>3
<1>7. i <= n /\ j <= n
  BY <1>1
<1>8. off[i] <= Len(s) /\ off[j] <= Len(s)
  BY <1>1, <1>4, <1>6, <1>7
<1> QED
  BY <1>4, <1>5, <1>8

\* Every byte is of a character.
LEMMA OffsetsFind ==
  ASSUME NEW s, NEW q, NEW n, NEW off, Laid(s, q, n, off), NEW p \in Nat, p < Len(s)
  PROVE  \E k \in 1..n : off[k - 1] <= p /\ p < off[k]
<1>1. n \in Nat /\ off \in [0..n -> Nat] /\ off[0] = 0 /\ off[n] = Len(s)
  BY OffsetsStep
<1> DEFINE G == {j \in 0..n : p < off[j] => \E k \in 1..n : off[k - 1] <= p /\ p < off[k]}
<1>2. 0 \in G
  BY <1>1
<1>3. ASSUME NEW k \in 1..n, k - 1 \in G PROVE k \in G
  <2>1. k \in 0..n /\ k - 1 \in 0..n
    BY <1>1
  <2>2. off[k - 1] \in Nat
    BY <1>1, <2>1
  <2>3. CASE p < off[k - 1]
    BY <1>3, <2>1, <2>3
  <2>4. CASE ~(p < off[k - 1])
    BY <2>1, <2>2, <2>4
  <2> QED
    BY <2>3, <2>4
<1> HIDE DEF G
<1>4. 0..n \subseteq G
  BY <1>1, <1>2, <1>3, Climb
<1> QED
  BY <1>1, <1>4 DEF G

\* The bytes that begin a character are the first ones.
LEMMA HeadAt ==
  ASSUME NEW s, NEW q, NEW n, NEW off, Laid(s, q, n, off), NEW k \in 0..n, k < n
  PROVE  /\ k + 1 \in 1..n /\ off[k] \in Nat /\ off[k] < Len(s) /\ off[k + 1] \in 1..Len(s)
         /\ s[off[k] + 1] = q[k + 1] /\ ~is_cont(s[off[k] + 1])
         /\ off[k] + seq_len(s[off[k] + 1]) = off[k + 1]
<1>1. PICK j \in 1..n : j = k + 1
  BY DEF Laid
<1>2. j - 1 = k /\ j \in 0..n /\ n \in 0..n
  BY <1>1 DEF Laid
<1>3. /\ q[j] \in Alphabet /\ off[j] = off[j - 1] + seq_len(q[j])
      /\ s[off[j - 1] + 1] = q[j] /\ off[n] = Len(s)
  BY DEF Laid
<1>4. off[k] \in Nat /\ off[k] < Len(s)
  BY <1>2, <1>3, OffsetsOrder
<1>5. off[j] \in 1..Len(s)
  <2>1. off[j] \in 0..Len(s) /\ off[k] < off[j] /\ Len(s) \in Nat
    BY <1>1, <1>2, OffsetsOrder
  <2> QED
    BY <1>4, <2>1
<1> QED
  BY <1>1, <1>2, <1>3, <1>4, <1>5, CharTypes

LEMMA HeadOnly ==
  ASSUME NEW s, NEW q, NEW n, NEW off, Laid(s, q, n, off), NEW p \in Nat, p < Len(s),
         ~is_cont(s[p + 1])
  PROVE  \E k \in 0..n : k < n /\ p = off[k]
<1>1. PICK j \in 1..n : off[j - 1] <= p /\ p < off[j]
  BY OffsetsFind
<1>2. PICK k \in 0..n : k = j - 1 /\ k < n /\ j \in 0..n
  BY DEF Laid
<1>3. off[k] \in Nat /\ off[j] \in Nat
  BY <1>2 DEF Laid
<1>4. p = off[k]
  <2> SUFFICES ASSUME p # off[k] PROVE FALSE
    OBVIOUS
  <2>1. p + 1 \in off[j - 1] + 2..off[j]
    BY <1>1, <1>2, <1>3
  <2>2. s[p + 1] = "cont"
    BY <2>1 DEF Laid
  <2> QED
    BY <2>2 DEF is_cont
<1> QED
  BY <1>2, <1>4

\* A newline is one byte, and no other character has it.
LEMMA BreakAt ==
  ASSUME NEW s, NEW q, NEW n, NEW off, Laid(s, q, n, off)
  PROVE  /\ \A i \in 1..Len(s) : s[i] = "nl" => \E k \in 1..n : i = off[k] /\ q[k] = "nl"
         /\ \A k \in 1..n : q[k] = "nl" =>
              /\ off[k] \in 1..Len(s) /\ s[off[k]] = "nl" /\ off[k] - 1 = off[k - 1]
<1>1. seq_len("nl") = 1
  BY DEF seq_len
<1>2. ASSUME NEW k \in 1..n, q[k] = "nl"
      PROVE  off[k] \in 1..Len(s) /\ s[off[k]] = "nl" /\ off[k] - 1 = off[k - 1]
  <2>1. off[k] = off[k - 1] + 1 /\ s[off[k - 1] + 1] = "nl"
    BY <1>1, <1>2 DEF Laid
  <2>2. off[k - 1] \in Nat /\ off[k] \in 0..Len(s)
    <3>1. k - 1 \in 0..n /\ k \in 0..n
      BY DEF Laid
    <3>2. off[k - 1] \in 0..Len(s) /\ off[k] \in 0..Len(s) /\ Len(s) \in Nat
      BY <3>1, OffsetsOrder
    <3> QED
      BY <3>2
  <2> QED
    BY <2>1, <2>2
<1>3. ASSUME NEW i \in 1..Len(s), s[i] = "nl"
      PROVE  \E k \in 1..n : i = off[k] /\ q[k] = "nl"
  <2>0. Len(s) \in Nat
    BY LenProperties DEF Laid
  <2>1. PICK p \in Nat : p = i - 1 /\ p < Len(s) /\ p + 1 = i
    BY <2>0
  <2>2. ~is_cont(s[p + 1])
    BY <1>3, <2>1 DEF is_cont
  <2>3. PICK j \in 0..n : j < n /\ p = off[j]
    BY <2>1, <2>2, HeadOnly
  <2>4. PICK k \in 1..n : k = j + 1 /\ j = k - 1
    <3>1. n \in Nat
      BY DEF Laid
    <3> QED
      BY <2>3, <3>1
  <2>5. s[off[j] + 1] = q[k] /\ off[k] = off[k - 1] + seq_len(q[k])
    BY <2>4 DEF Laid
  <2>6. q[k] = "nl"
    BY <1>3, <2>1, <2>3, <2>5
  <2> QED
    BY <1>1, <2>1, <2>3, <2>4, <2>5, <2>6
<1> QED
  BY <1>2, <1>3

-----------------------------------------------------------------------------
(* Utf8.cpp and the lines of the prompt, from character to character.       *)

LEMMA NextAt ==
  ASSUME NEW s, NEW q, NEW n, NEW off, Laid(s, q, n, off), NEW k \in 0..n
  PROVE  next_boundary(s, off[k]) = off[IF k < n THEN k + 1 ELSE n]
<1>1. off[n] = Len(s) /\ n \in Nat
  BY OffsetsStep
<1>2. CASE k < n
  <2>1. /\ k + 1 \in 1..n /\ off[k] \in Nat /\ off[k] < Len(s) /\ off[k + 1] \in 1..Len(s)
        /\ off[k] + seq_len(s[off[k] + 1]) = off[k + 1]
    BY <1>2, HeadAt
  <2>2. Len(s) \in Nat
    BY LenProperties DEF Laid
  <2>3. PICK x \in Nat : x = off[k]
    BY <2>1
  <2>4. PICK y \in 1..Len(s) : y = off[k + 1] /\ x + seq_len(s[x + 1]) = y /\ x < Len(s)
    BY <2>1, <2>3
  <2>5. Min({Len(s), y}) = y
    <3>1. y \in Int /\ Len(s) \in Int /\ y <= Len(s)
      BY <2>2
    <3>2. Min({Len(s), y}) = IF Len(s) <= y THEN Len(s) ELSE y
      BY <2>2, <3>1, LesserOf
    <3> QED
      BY <3>1, <3>2
  <2>6. next_boundary(s, x) = Min({Len(s), x + seq_len(s[x + 1])})
    <3>1. ~(x >= Len(s))
      BY <2>2, <2>4
    <3> QED
      BY <3>1 DEF next_boundary
  <2> QED
    BY <1>2, <2>3, <2>4, <2>5, <2>6
<1>3. CASE ~(k < n)
  <2>1. k = n
    BY <1>1, <1>3
  <2>2. Len(s) \in Nat
    BY LenProperties DEF Laid
  <2> QED
    BY <1>1, <2>1, <2>2 DEF next_boundary
<1> QED
  BY <1>2, <1>3

LEMMA PrevAt ==
  ASSUME NEW s, NEW q, NEW n, NEW off, Laid(s, q, n, off), NEW k \in 0..n
  PROVE  prev_boundary(s, off[k]) = off[IF k > 0 THEN k - 1 ELSE 0]
<1>1. n \in Nat /\ off[0] = 0 /\ 0 \in 0..n
  BY OffsetsStep
<1>2. PICK j \in 0..n : j = IF k > 0 THEN k - 1 ELSE 0
  BY <1>1
<1>3. /\ off[j] \in 0..Len(s) /\ off[k] \in 0..Len(s) /\ Len(s) \in Nat
      /\ (j < k => off[j] < off[k]) /\ off[j] <= off[k]
  BY <1>1, <1>2, OffsetsOrder
<1> DEFINE S == {0} \cup {i \in 1..(off[k] - 1) : ~is_cont(s[i + 1])}
<1>4. off[j] \in S
  <2>1. CASE off[j] = 0
    BY <2>1
  <2>2. CASE off[j] # 0
    <3>1. j < k /\ j < n
      BY <1>1, <1>2, <2>2
    <3>2. off[j] \in 1..(off[k] - 1)
      BY <1>3, <2>2, <3>1
    <3>3. ~is_cont(s[off[j] + 1])
      BY <3>1, HeadAt
    <3> QED
      BY <3>2, <3>3
  <2> QED
    BY <2>1, <2>2
<1>5. ASSUME NEW i \in S PROVE i \in Int /\ i <= off[j]
  <2>1. CASE i = 0
    BY <1>3, <2>1
  <2>2. CASE i # 0
    <3>1. i \in 1..(off[k] - 1) /\ ~is_cont(s[i + 1])
      BY <2>2
    <3>2. i \in Nat /\ i < Len(s) /\ i < off[k]
      BY <1>3, <3>1
    <3>3. PICK m \in 0..n : m < n /\ i = off[m]
      BY <3>1, <3>2, HeadOnly
    <3>4. m < k
      BY <3>2, <3>3, OffsetsOrder
    <3>5. m <= j
      BY <1>2, <3>4
    <3>6. off[m] <= off[j]
      BY <3>5, OffsetsOrder
    <3> QED
      BY <3>2, <3>3, <3>6
  <2> QED
    BY <2>1, <2>2
<1> HIDE DEF S
<1>6. Max(S) = off[j]
  BY <1>4, <1>5, Greatest
<1> QED
  BY <1>2, <1>6 DEF prev_boundary, S

\* The line around a place: where it starts and where it ends.
StartIn(q, k) == Max({0} \cup {i \in {j \in DOMAIN q : q[j] = "nl"} : i <= k})
EndIn(q, k) == Min({Len(q)} \cup {i - 1 : i \in {j \in {m \in DOMAIN q : q[m] = "nl"} : j > k}})

LEMMA StartIs ==
  ASSUME NEW S, NEW q \in Seq(S), NEW n \in Nat, n = Len(q), NEW k \in 0..n
  PROVE  /\ StartIn(q, k) \in 0..k
         /\ StartIn(q, k) # 0 => q[StartIn(q, k)] = "nl"
         /\ \A i \in 1..k : q[i] = "nl" => i <= StartIn(q, k)
<1> DEFINE B == {i \in {j \in DOMAIN q : q[j] = "nl"} : i <= k}
<1>1. DOMAIN q = 1..n
  BY LenProperties
<1>2. B \in SUBSET (1..n) /\ \A i \in B : i <= k /\ q[i] = "nl"
  BY <1>1
<1>3. \A i \in 1..k : q[i] = "nl" => i \in B
  BY <1>1
<1>4. StartIn(q, k) = Max({0} \cup B)
  BY DEF StartIn
<1> HIDE DEF B
<1>5. CASE B = {}
  <2>1. 0 \in {0} \cup B /\ \A j \in {0} \cup B : j \in Int /\ j <= 0
    BY <1>5
  <2>2. Max({0} \cup B) = 0
    BY <2>1, Greatest
  <2> QED
    BY <1>3, <1>4, <1>5, <2>2
<1>6. CASE B # {}
  <2>1. PICK i \in B : \A j \in B : i >= j
    BY <1>2, <1>6, LastPlace
  <2>2. i \in {0} \cup B /\ \A j \in {0} \cup B : j \in Int /\ j <= i
    BY <1>2, <2>1
  <2>3. Max({0} \cup B) = i
    BY <2>2, Greatest
  <2>4. i \in 1..k /\ q[i] = "nl"
    BY <1>2
  <2>5. StartIn(q, k) = i
    BY <1>4, <2>3
  <2>6. \A j \in 1..k : q[j] = "nl" => j <= i
    BY <1>3, <2>1, <2>4
  <2>7. i \in 0..k
    BY <2>4
  <2> QED
    BY <2>4, <2>5, <2>6, <2>7
<1> QED
  BY <1>5, <1>6

LEMMA EndIs ==
  ASSUME NEW S, NEW q \in Seq(S), NEW n \in Nat, n = Len(q), NEW k \in 0..n
  PROVE  /\ EndIn(q, k) \in k..n
         /\ EndIn(q, k) # n => q[EndIn(q, k) + 1] = "nl"
         /\ \A i \in k + 1..n : q[i] = "nl" => EndIn(q, k) < i
<1> DEFINE B == {j \in {m \in DOMAIN q : q[m] = "nl"} : j > k}
           T == {Len(q)} \cup {i - 1 : i \in B}
<1>1. DOMAIN q = 1..n
  BY LenProperties
<1>2. B \in SUBSET (1..n) /\ \A i \in B : i > k /\ q[i] = "nl"
  BY <1>1
<1>3. \A i \in k + 1..n : q[i] = "nl" => i \in B
  BY <1>1
<1>4. EndIn(q, k) = Min(T)
  BY DEF EndIn
<1> HIDE DEF B
<1>5. CASE B = {}
  <2>1. n \in T /\ \A j \in T : j \in Int /\ n <= j
    BY <1>5
  <2> HIDE DEF T
  <2>2. Min(T) = n
    BY <2>1, Least
  <2> QED
    BY <1>3, <1>4, <1>5, <2>2
<1>6. CASE B # {}
  <2>1. PICK i \in B : \A j \in B : i <= j
    BY <1>2, <1>6, FirstPlace
  <2>2. i \in 1..n /\ i > k /\ q[i] = "nl"
    BY <1>2
  <2>3. i - 1 \in T /\ \A j \in T : j \in Int /\ i - 1 <= j
    <3>1. \A j \in B : j \in 1..n /\ i <= j
      BY <1>2, <2>1
    <3> QED
      BY <2>2, <3>1
  <2> HIDE DEF T
  <2>4. Min(T) = i - 1
    BY <2>3, Least
  <2>5. i - 1 \in k..n /\ i - 1 + 1 = i
    BY <2>2
  <2>6. \A j \in k + 1..n : q[j] = "nl" => i - 1 < j
    BY <1>3, <2>1, <2>2
  <2> QED
    BY <1>4, <2>2, <2>4, <2>5, <2>6
<1> QED
  BY <1>5, <1>6

LEMMA StartAt ==
  ASSUME NEW s, NEW q, NEW n, NEW off, Laid(s, q, n, off), NEW k \in 0..n
  PROVE  /\ StartIn(q, k) \in 0..n /\ StartIn(q, k) <= k
         /\ line_start(s, off[k]) = off[StartIn(q, k)]
<1>0. n \in Nat /\ q \in Seq(Alphabet) /\ n = Len(q) /\ off[0] = 0
  BY OffsetsStep
<1>1. PICK m \in 0..k : /\ m = StartIn(q, k) /\ (m # 0 => q[m] = "nl")
                        /\ \A i \in 1..k : q[i] = "nl" => i <= m
  BY <1>0, StartIs
<1>2. m \in 0..n
  BY <1>0
<1>3. off[m] \in 0..Len(s) /\ off[k] \in 0..Len(s) /\ off[m] <= off[k] /\ Len(s) \in Nat
  BY <1>2, OffsetsOrder
<1> DEFINE S == {0} \cup {i \in 1..off[k] : s[i] = "nl"}
<1>4. off[m] \in S
  <2>1. CASE m = 0
    BY <1>0, <2>1
  <2>2. CASE m # 0
    <3>1. m \in 1..n /\ q[m] = "nl"
      BY <1>1, <1>2, <2>2
    <3>2. off[m] \in 1..Len(s) /\ s[off[m]] = "nl"
      BY <3>1, BreakAt
    <3> QED
      BY <1>3, <3>2
  <2> QED
    BY <2>1, <2>2
<1>5. ASSUME NEW i \in S PROVE i \in Int /\ i <= off[m]
  <2>1. CASE i = 0
    BY <1>3, <2>1
  <2>2. CASE i # 0
    <3>1. i \in 1..off[k] /\ s[i] = "nl"
      BY <2>2
    <3>2. i \in 1..Len(s)
      BY <1>3, <3>1
    <3>3. PICK j \in 1..n : i = off[j] /\ q[j] = "nl"
      BY <3>1, <3>2, BreakAt
    <3>4. j \in 0..n /\ off[j] <= off[k]
      BY <1>0, <3>1, <3>3
    <3>5. j <= k
      BY <3>4, OffsetsOrder
    <3>6. j <= m
      BY <1>1, <3>3, <3>5
    <3>7. off[j] <= off[m]
      BY <1>2, <3>4, <3>6, OffsetsOrder
    <3> QED
      BY <3>2, <3>3, <3>7
  <2> QED
    BY <2>1, <2>2
<1> HIDE DEF S
<1>6. Max(S) = off[m]
  BY <1>4, <1>5, Greatest
<1> QED
  BY <1>1, <1>2, <1>6 DEF line_start, S

LEMMA EndAt ==
  ASSUME NEW s, NEW q, NEW n, NEW off, Laid(s, q, n, off), NEW k \in 0..n
  PROVE  /\ EndIn(q, k) \in 0..n /\ k <= EndIn(q, k)
         /\ line_end(s, off[k]) = off[EndIn(q, k)]
<1>0. n \in Nat /\ q \in Seq(Alphabet) /\ n = Len(q) /\ off[n] = Len(s)
  BY OffsetsStep
<1>1. PICK e \in k..n : /\ e = EndIn(q, k) /\ (e # n => q[e + 1] = "nl")
                        /\ \A i \in k + 1..n : q[i] = "nl" => e < i
  BY <1>0, EndIs
<1>2. e \in 0..n
  BY <1>0
<1>3. off[e] \in 0..Len(s) /\ off[k] \in 0..Len(s) /\ off[k] <= off[e] /\ Len(s) \in Nat
  BY <1>2, OffsetsOrder
<1> DEFINE S == {Len(s)} \cup {i \in off[k]..(Len(s) - 1) : s[i + 1] = "nl"}
<1>4. off[e] \in S
  <2>1. CASE e = n
    BY <1>0, <2>1
  <2>2. CASE e # n
    <3>1. e + 1 \in 1..n /\ q[e + 1] = "nl" /\ e + 1 - 1 = e
      BY <1>0, <1>1, <1>2, <2>2
    <3>2. off[e + 1] \in 1..Len(s) /\ s[off[e + 1]] = "nl" /\ off[e + 1] - 1 = off[e]
      BY <3>1, BreakAt
    <3>3. off[e] + 1 = off[e + 1]
      BY <3>2
    <3> QED
      BY <1>3, <3>2, <3>3
  <2> QED
    BY <2>1, <2>2
<1>5. ASSUME NEW i \in S PROVE i \in Int /\ off[e] <= i
  <2>1. CASE i = Len(s)
    BY <1>3, <2>1
  <2>2. CASE i # Len(s)
    <3>1. i \in off[k]..(Len(s) - 1) /\ s[i + 1] = "nl"
      BY <2>2
    <3>2. i + 1 \in 1..Len(s) /\ off[k] <= i /\ i \in Int
      BY <1>3, <3>1
    <3>3. PICK j \in 1..n : i + 1 = off[j] /\ q[j] = "nl"
      BY <3>1, <3>2, BreakAt
    <3>4. j - 1 \in 0..n /\ off[j] - 1 = off[j - 1]
      BY <1>0, <3>3, BreakAt
    <3>5. i = off[j - 1]
      BY <3>2, <3>3, <3>4
    <3>6. k <= j - 1
      BY <3>2, <3>4, <3>5, OffsetsOrder
    <3>7. e <= j - 1
      BY <1>1, <3>3, <3>6
    <3>8. off[e] <= off[j - 1]
      BY <1>2, <3>4, <3>7, OffsetsOrder
    <3> QED
      BY <3>2, <3>5, <3>8
  <2> QED
    BY <2>1, <2>2
<1> HIDE DEF S
<1>6. Min(S) = off[e]
  BY <1>4, <1>5, Least
<1>7. e = EndIn(q, k) /\ k <= e
  BY <1>1
<1> QED
  BY <1>2, <1>6, <1>7 DEF line_end, S

Walks(w, s, pos, m, stop) ==
  /\ w = [k \in 0..m |-> w[k]] /\ w[0] = pos
  /\ \A k \in 1..m : w[k] = IF w[k - 1] < stop THEN next_boundary(s, w[k - 1]) ELSE w[k - 1]

LEMMA WalkIs ==
  ASSUME NEW s, NEW pos, NEW m \in Nat, NEW stop, NEW w, Walks(w, s, pos, m, stop)
  PROVE  Walk(s, pos, m, stop) = w[m]
<1>0. /\ w = [k \in 0..m |-> w[k]] /\ w[0] = pos
      /\ \A k \in 1..m : w[k] = IF w[k - 1] < stop THEN next_boundary(s, w[k - 1]) ELSE w[k - 1]
  BY DEF Walks
<1> DEFINE P(f) == f = [k \in 0..m |->
                          IF k = 0 THEN pos
                          ELSE IF f[k - 1] < stop THEN next_boundary(s, f[k - 1]) ELSE f[k - 1]]
           r == CHOOSE f : P(f)
<1>1. P(w)
  <2>1. ASSUME NEW k \in 0..m
        PROVE  w[k] = IF k = 0 THEN pos
                      ELSE IF w[k - 1] < stop THEN next_boundary(s, w[k - 1]) ELSE w[k - 1]
    <3>1. CASE k = 0
      BY <1>0, <3>1
    <3>2. CASE k # 0
      <4>1. k \in 1..m
        BY <3>2
      <4> QED
        BY <1>0, <3>2, <4>1
    <3> QED
      BY <3>1, <3>2
  <2>2. w = [k \in 0..m |-> w[k]]
    BY <1>0
  <2>3. [k \in 0..m |-> w[k]] =
          [k \in 0..m |-> IF k = 0 THEN pos
                          ELSE IF w[k - 1] < stop THEN next_boundary(s, w[k - 1]) ELSE w[k - 1]]
    BY <2>1, Zenon
  <2> QED
    BY <2>2, <2>3, Zenon
<1>2. P(r)
  <2> HIDE DEF P
  <2> QED
    BY <1>1
<1>3. Walk(s, pos, m, stop) = r[m]
  BY DEF Walk
<1> HIDE DEF r
<1>4. /\ r[0] = pos
      /\ \A k \in 1..m : r[k] = IF r[k - 1] < stop THEN next_boundary(s, r[k - 1]) ELSE r[k - 1]
  <2>1. 0 \in 0..m /\ \A k \in 1..m : k \in 0..m /\ k # 0
    OBVIOUS
  <2> QED
    BY <1>2, <2>1
<1> HIDE DEF P
<1> DEFINE G == {k \in 0..m : r[k] = w[k]}
<1>5. 0 \in G
  BY <1>0, <1>4
<1>6. ASSUME NEW k \in 1..m, k - 1 \in G PROVE k \in G
  <2>1. r[k - 1] = w[k - 1]
    BY <1>6
  <2>2. k \in 0..m
    OBVIOUS
  <2> QED
    BY <1>0, <1>4, <2>1, <2>2
<1> HIDE DEF G
<1>7. 0..m \subseteq G
  BY <1>5, <1>6, Climb
<1>8. m \in G
  BY <1>7
<1>9. r[m] = w[m]
  BY <1>8 DEF G
<1> QED
  BY <1>3, <1>9

\* Walking goes over whole characters, and stops at the end.
LEMMA WalkAt ==
  ASSUME NEW s, NEW q, NEW n, NEW off, Laid(s, q, n, off), NEW k \in 0..n, NEW e \in 0..n,
         k <= e, NEW m \in Nat
  PROVE  Walk(s, off[k], m, off[e]) = off[IF k + m <= e THEN k + m ELSE e]
<1> DEFINE at(i) == IF k + i <= e THEN k + i ELSE e
           w == [i \in 0..m |-> off[at(i)]]
<1>0. n \in Nat
  BY OffsetsStep
<1>1. DOMAIN w = 0..m /\ w = [i \in 0..m |-> w[i]]
  OBVIOUS
<1>2. w[0] = off[k] /\ w[m] = off[at(m)]
  BY <1>0
<1>3. ASSUME NEW i \in 1..m
      PROVE  w[i] = IF w[i - 1] < off[e] THEN next_boundary(s, w[i - 1]) ELSE w[i - 1]
  <2>1. PICK j \in 0..n : j = at(i - 1)
    BY <1>0
  <2>2. i - 1 \in 0..m /\ i \in 0..m
    OBVIOUS
  <2>3. w[i - 1] = off[j] /\ w[i] = off[at(i)]
    BY <2>1, <2>2
  <2>4. off[j] < off[e] <=> j < e
    BY OffsetsOrder
  <2>5. CASE j < e
    <3>1. j < n /\ at(i) = j + 1
      BY <1>0, <2>1, <2>5
    <3>2. next_boundary(s, off[j]) = off[IF j < n THEN j + 1 ELSE n]
      BY NextAt
    <3>3. next_boundary(s, off[j]) = off[j + 1]
      BY <3>1, <3>2
    <3> HIDE DEF w, at
    <3> QED
      BY <2>3, <2>4, <2>5, <3>1, <3>3
  <2>6. CASE ~(j < e)
    <3>1. at(i) = j
      BY <1>0, <2>1, <2>6
    <3> HIDE DEF w, at
    <3> QED
      BY <2>3, <2>4, <2>6, <3>1
  <2> QED
    BY <2>5, <2>6
<1> HIDE DEF w
<1>4. Walk(s, off[k], m, off[e]) = w[m]
  <2>1. PICK pos \in Nat : pos = off[k]
    BY OffsetsStep
  <2>2. PICK stop \in Nat : stop = off[e]
    BY OffsetsStep
  <2>3. w[0] = pos
    BY <1>2, <2>1
  <2>4. \A i \in 1..m : w[i] = IF w[i - 1] < stop THEN next_boundary(s, w[i - 1]) ELSE w[i - 1]
    BY <1>3, <2>2
  <2>5. Walks(w, s, pos, m, stop)
    BY <1>1, <2>3, <2>4 DEF Walks
  <2>6. Walk(s, pos, m, stop) = w[m]
    BY <2>5, WalkIs
  <2> QED
    BY <2>1, <2>2, <2>6
<1> QED
  BY <1>2, <1>4

\* What counts from each position up to the last one.
Counts(r, s, from, to) ==
  /\ r[to] = 0
  /\ \A i \in from..to : i # to => r[i] = 1 + r[Min({to, i + seq_len(s[i + 1])})]

LEMMA Steps ==
  ASSUME NEW b PROVE seq_len(b) \in 1..3
BY DEF seq_len

LEMMA CountIs ==
  ASSUME NEW s, NEW from \in Nat, NEW to \in Nat, from <= to
  PROVE  \E r \in [from..to -> Nat] : Counts(r, s, from, to) /\ count(s, from, to) = r[from]
<1> DEFINE next == [i \in from..(to - 1) |-> Min({to, i + seq_len(s[i + 1])})]
           F == [i \in from..(to - 1) |-> [v \in Nat |-> 1 + v]]
           P(f) == f = [i \in from..to |->
                          IF i = to THEN 0 ELSE 1 + f[Min({to, i + seq_len(s[i + 1])})]]
           r == CHOOSE f : P(f)
<1>1. \A i \in from..(to - 1) : Min({to, i + seq_len(s[i + 1])}) \in (i + 1)..to
  <2> SUFFICES ASSUME NEW i \in from..(to - 1)
               PROVE  Min({to, i + seq_len(s[i + 1])}) \in (i + 1)..to
    OBVIOUS
  <2>1. PICK d \in 1..3 : d = seq_len(s[i + 1])
    BY Steps
  <2>2. Min({to, i + d}) = IF to <= i + d THEN to ELSE i + d
    BY LesserOf
  <2> QED
    BY <2>1, <2>2
<1>2. Onward(next, from, to)
  BY <1>1 DEF Onward
<1>3. F \in [from..(to - 1) -> [Nat -> Nat]] /\ 0 \in Nat
  OBVIOUS
<1>4. \A i \in from..(to - 1) : \A v \in Nat : F[i][v] = 1 + v
  OBVIOUS
<1>5. \A i \in from..(to - 1) : next[i] = Min({to, i + seq_len(s[i + 1])})
  OBVIOUS
<1>6. PICK f \in [from..to -> Nat] : FromTheEnd(f, from, to, 0, next, F)
  <2> HIDE DEF next, F
  <2>1. Descends(Nat, from, to, 0, next, F)
    <3>1. from \in Int /\ to \in Int /\ from <= to
      OBVIOUS
    <3> QED
      BY ONLY <1>2, <1>3, <3>1, DownExists
  <2> QED
    BY <2>1 DEF Descends
<1>7. P(f)
  <2>1. f[to] = 0
    BY <1>6 DEF FromTheEnd
  <2>2. ASSUME NEW i \in from..to, i # to
        PROVE  f[i] = 1 + f[Min({to, i + seq_len(s[i + 1])})]
    <3>1. i \in from..(to - 1)
      BY <2>2
    <3>2. PICK j \in (i + 1)..to : j = Min({to, i + seq_len(s[i + 1])})
      BY <1>1, <3>1
    <3>3. f[i] = F[i][f[j]]
      BY <1>5, <1>6, <3>1, <3>2 DEF FromTheEnd
    <3>4. f[j] \in Nat
      OBVIOUS
    <3> HIDE DEF F
    <3> QED
      BY <1>4, <3>1, <3>2, <3>3, <3>4
  <2>3. f = [i \in from..to |-> f[i]]
    OBVIOUS
  <2> QED
    BY <2>1, <2>2, <2>3
<1>8. P(r)
  <2> HIDE DEF P
  <2> QED
    BY <1>7
<1>9. count(s, from, to) = r[from]
  BY DEF count
<1> HIDE DEF r
<1>10. r[to] = 0 /\ \A i \in from..to : i # to => r[i] = 1 + r[Min({to, i + seq_len(s[i + 1])})]
  <2>1. to \in from..to
    OBVIOUS
  <2> QED
    BY <1>8, <2>1
<1>11. r \in [from..to -> Nat]
  <2>1. r = [i \in from..to |-> r[i]]
    BY <1>8
  <2> HIDE DEF P
  <2>2. ASSUME NEW i \in from..(to - 1), r[next[i]] \in Nat PROVE r[i] = F[i][r[next[i]]]
    <3>1. i \in from..to /\ i # to
      OBVIOUS
    <3>2. r[i] = 1 + r[next[i]]
      BY <1>5, <1>10, <3>1
    <3> HIDE DEF F
    <3> QED
      BY <1>4, <2>2, <3>2
  <2>3. DownChosen(r, Nat, from, to, 0, next, F)
    BY <1>10, <2>1, <2>2 DEF DownChosen
  <2> HIDE DEF next, F
  <2>4. from \in Int /\ to \in Int /\ from <= to
    OBVIOUS
  <2>5. r \in [from..to -> Nat] /\ FromTheEnd(r, from, to, 0, next, F)
    BY ONLY <1>2, <1>3, <2>3, <2>4, DownIs
  <2> QED
    BY <2>5
<1>12. Counts(r, s, from, to)
  BY <1>10 DEF Counts
<1> QED
  BY <1>9, <1>11, <1>12

\* The bytes from one character to another count as the characters between.
LEMMA CountAt ==
  ASSUME NEW s, NEW q, NEW n, NEW off, Laid(s, q, n, off), NEW i \in 0..n, NEW j \in 0..n,
         i <= j
  PROVE  count(s, off[i], off[j]) = j - i
<1>0. n \in Nat /\ off \in [0..n -> Nat]
  BY OffsetsStep
<1>1. PICK from \in Nat : from = off[i]
  BY <1>0
<1>2. PICK to \in Nat : to = off[j]
  BY <1>0
<1>3. from <= to
  BY <1>1, <1>2, OffsetsOrder
<1>4. PICK r \in [from..to -> Nat] : Counts(r, s, from, to) /\ count(s, from, to) = r[from]
  BY <1>3, CountIs
<1>5. PICK d \in Nat : d = j - i
  OBVIOUS
<1> DEFINE G == {m \in 0..d : r[off[j - m]] = m}
<1>6. 0 \in G
  BY <1>2, <1>4 DEF Counts
<1>7. ASSUME NEW m \in 1..d, m - 1 \in G PROVE m \in G
  <2>1. PICK k \in 0..n : k = j - m /\ k < n /\ k < j /\ i <= k /\ k + 1 = j - (m - 1)
    BY <1>0, <1>5
  <2>2. PICK k1 \in 0..n : k1 = k + 1
    BY <1>0, <2>1
  <2>3. PICK x \in Nat : x = off[k]
    BY <1>0
  <2>4. PICK y \in Nat : y = off[k1]
    BY <1>0
  <2>5. x + seq_len(s[x + 1]) = y
    BY <2>1, <2>2, <2>3, <2>4, HeadAt
  <2>6. from <= x /\ x < to /\ y <= to
    <3>1. k1 <= j
      BY <2>1, <2>2
    <3>2. off[i] <= off[k] /\ off[k] < off[j]
      BY <2>1, OffsetsOrder
    <3>3. off[k1] <= off[j]
      BY <3>1, OffsetsOrder
    <3> QED
      BY <1>1, <1>2, <2>3, <2>4, <3>2, <3>3
  <2>7. Min({to, y}) = y
    <3>1. Min({to, y}) = IF to <= y THEN to ELSE y
      BY LesserOf
    <3> QED
      BY <2>6, <3>1
  <2>8. r[x] = 1 + r[y]
    <3>1. x \in from..to /\ x # to
      BY <2>6
    <3> QED
      BY <1>4, <2>5, <2>7, <3>1 DEF Counts
  <2>9. r[y] = m - 1
    BY <1>7, <2>1, <2>2, <2>4
  <2> QED
    BY <2>1, <2>3, <2>8, <2>9
<1> HIDE DEF G
<1>8. d \in G
  <2>1. 0..d \subseteq G
    BY <1>6, <1>7, Climb
  <2> QED
    BY <2>1
<1>9. r[off[j - d]] = d
  BY <1>8 DEF G
<1>10. j - d = i
  BY <1>5
<1> QED
  BY <1>1, <1>2, <1>4, <1>5, <1>9, <1>10

-----------------------------------------------------------------------------
(* The prompt as characters.                                                *)

\* The bar holds the characters q, and its cursor stands behind k of them.
Stands(b, q, k) ==
  /\ q \in Seq(Alphabet) /\ k \in 0..Len(q)
  /\ b = [buffer |-> Spelled(q), cursor |-> Offsets(q)[k]]

LEMMA StandsLaid ==
  ASSUME NEW b, NEW q, NEW k, Stands(b, q, k)
  PROVE  \E n \in Nat : \E off : /\ n = Len(q) /\ k \in 0..n /\ off = Offsets(q)
                                 /\ Laid(b.buffer, q, n, off)
                                 /\ b = [buffer |-> b.buffer, cursor |-> off[k]]
                                 /\ b.cursor = off[k]
<1>1. q \in Seq(Alphabet) /\ k \in 0..Len(q)
  BY DEF Stands
<1>2. PICK n \in Nat : n = Len(q)
  BY <1>1, LenProperties
<1>3. PICK off : off = Offsets(q)
  OBVIOUS
<1>4. PICK s : s = Spelled(q)
  OBVIOUS
<1>5. Laid(s, q, n, off)
  BY <1>1, <1>2, <1>3, <1>4, Lays
<1>6. b = [buffer |-> s, cursor |-> off[k]]
  BY <1>3, <1>4 DEF Stands
<1>7. b.buffer = s /\ b.cursor = off[k]
  BY <1>6
<1> QED
  BY <1>1, <1>2, <1>3, <1>5, <1>6, <1>7

LEMMA CutLeft ==
  ASSUME NEW S, NEW a \in Seq(S), NEW b \in Seq(S), NEW n \in Nat, n = Len(a)
  PROVE  SubSeq(a \o b, 1, n) = a
<1>1. CASE n = 0
  <2>1. a = <<>>
    BY <1>1, EmptySeq
  <2>2. SubSeq(a \o b, 1, 0) = <<>>
    BY SubSeqEmpty
  <2> QED
    BY <1>1, <2>1, <2>2
<1>2. CASE n # 0
  <2>1. 1 \in 1..Len(a) /\ n \in 1..Len(a)
    BY <1>2
  <2>2. SubSeq(a \o b, 1, n) = SubSeq(a, 1, n)
    BY <2>1, SubSeqOfConcat1
  <2> QED
    BY <2>2, SubSeqFull
<1> QED
  BY <1>1, <1>2

LEMMA CutRight ==
  ASSUME NEW S, NEW a \in Seq(S), NEW b \in Seq(S), NEW n \in Nat, n = Len(a)
  PROVE  SubSeq(a \o b, n + 1, Len(a \o b)) = b
<1>1. PICK m \in Nat : m = Len(b)
  BY LenProperties
<1>2. Len(a \o b) = n + m
  BY <1>1, ConcatIs
<1>3. CASE m = 0
  <2>1. b = <<>>
    BY <1>1, <1>3, EmptySeq
  <2>2. SubSeq(a \o b, n + 1, n) = <<>>
    BY SubSeqEmpty
  <2>3. Len(a \o b) = n
    BY <1>2, <1>3
  <2> QED
    BY <2>1, <2>2, <2>3
<1>4. CASE m # 0
  <2>1. n + 1 \in Len(a) + 1..Len(a) + Len(b) /\ n + m \in Len(a) + 1..Len(a) + Len(b)
    BY <1>1, <1>4
  <2>2. SubSeq(a \o b, n + 1, n + m) = SubSeq(b, n + 1 - n, n + m - n)
    BY <2>1, SubSeqOfConcat2
  <2>3. n + 1 - n = 1 /\ n + m - n = m
    OBVIOUS
  <2> QED
    BY <1>1, <1>2, <2>2, <2>3, SubSeqFull
<1> QED
  BY <1>3, <1>4

\* Cut behind its first characters, the buffer falls into their bytes and the others'.
CutsAt(q, n, k, s, p) ==
  /\ SubSeq(s, 1, p) = Spelled(SubSeq(q, 1, k))
  /\ SubSeq(s, p + 1, Len(s)) = Spelled(SubSeq(q, k + 1, n))
  /\ p = Len(Spelled(SubSeq(q, 1, k))) /\ p \in Nat

LEMMA CutAt ==
  ASSUME NEW q \in Seq(Alphabet), NEW n \in Nat, n = Len(q), NEW k \in 0..n
  PROVE  CutsAt(q, n, k, Spelled(q), Offsets(q)[k])
<1>0. PICK p : p = Offsets(q)[k]
  OBVIOUS
<1>1. PICK a \in Seq(ByteSet) : a = Spelled(SubSeq(q, 1, k))
  BY SpelledSplit
<1>2. PICK b \in Seq(ByteSet) : b = Spelled(SubSeq(q, k + 1, n))
  BY SpelledSplit
<1>3. Spelled(q) = a \o b
  BY <1>1, <1>2, SpelledSplit
<1>4. p = Len(a)
  BY <1>0, <1>1 DEF Offsets
<1>5. p \in Nat
  BY <1>4, LenProperties
<1>6. SubSeq(a \o b, 1, p) = a
  BY <1>4, <1>5, CutLeft
<1>7. SubSeq(a \o b, p + 1, Len(a \o b)) = b
  BY <1>4, <1>5, CutRight
<1> QED
  BY <1>0, <1>1, <1>2, <1>3, <1>4, <1>5, <1>6, <1>7 DEF CutsAt

\* What an editor of characters makes of the bytes.
LEMMA Reads ==
  ASSUME NEW b, NEW q, NEW k, Stands(b, q, k)
  PROVE  /\ Decoded(b.buffer) = q /\ b.buffer = Encoded(Decoded(b.buffer))
         /\ Len(Decoded(SubSeq(b.buffer, 1, b.cursor))) = k
<1>1. q \in Seq(Alphabet) /\ b.buffer = Spelled(q) /\ b.cursor = Offsets(q)[k]
  BY DEF Stands
<1>2. PICK n \in Nat : n = Len(q) /\ k \in 0..n
  BY <1>1, LenProperties DEF Stands
<1>3. PICK s \in Seq(ByteSet) : s = b.buffer
  BY <1>1, SpelledType
<1>4. Decoded(s) = q /\ s = Encoded(Decoded(s))
  BY <1>1, <1>3, DecodedSpelled, EncodedIs
<1>5. SubSeq(s, 1, b.cursor) = Spelled(SubSeq(q, 1, k))
  <2>1. CutsAt(q, n, k, Spelled(q), Offsets(q)[k])
    BY <1>1, <1>2, CutAt
  <2> QED
    BY <1>1, <1>3, <2>1 DEF CutsAt
<1>6. SubSeq(q, 1, k) \in Seq(Alphabet) /\ Len(SubSeq(q, 1, k)) = k
  BY <1>1, <1>2, PartsOf
<1>7. Decoded(Spelled(SubSeq(q, 1, k))) = SubSeq(q, 1, k)
  BY <1>6, DecodedSpelled
<1> QED
  BY <1>3, <1>4, <1>5, <1>6, <1>7

\* The bytes of two texts, with the cursor between them.
LEMMA StandsBetween ==
  ASSUME NEW l \in Seq(Alphabet), NEW r \in Seq(Alphabet), NEW n \in Nat, n = Len(l),
         NEW b, b = [buffer |-> Spelled(l) \o Spelled(r), cursor |-> Len(Spelled(l))]
  PROVE  Stands(b, l \o r, n)
<1>1. PICK m \in Nat : m = Len(r)
  BY LenProperties
<1>2. PICK q \in Seq(Alphabet) : q = l \o r
  BY ConcatProperties
<1>3. Len(q) = n + m
  BY <1>1, <1>2, ConcatIs
<1>4. n \in 0..Len(q)
  BY <1>3
<1>5. Spelled(q) = Spelled(l) \o Spelled(r)
  BY <1>2, SpelledConcat
<1>6. SubSeq(q, 1, n) = l
  BY <1>2, CutLeft
<1>7. Offsets(q)[n] = Len(Spelled(l))
  BY <1>4, <1>6 DEF Offsets
<1> QED
  BY <1>2, <1>4, <1>5, <1>7 DEF Stands

LEMMA EmptyStands == Stands(EmptyBar, <<>>, 0)
<1>1. PICK q \in Seq(Alphabet) : q = <<>> /\ Len(q) = 0
  BY EmptySeq
<1>2. Offsets(q)[0] = 0
  <2>1. SubSeq(q, 1, 0) = <<>>
    BY SubSeqEmpty
  <2>2. Offsets(q)[0] = Len(Spelled(SubSeq(q, 1, 0)))
    BY <1>1 DEF Offsets
  <2> QED
    BY <2>1, <2>2, SpelledEmpty, EmptySeq
<1>3. 0 \in 0..Len(q)
  BY <1>1
<1> QED
  BY <1>1, <1>2, <1>3, SpelledEmpty DEF Stands, EmptyBar

LEMMA InsertStands ==
  ASSUME NEW b, NEW q, NEW k, Stands(b, q, k), NEW c \in Alphabet
  PROVE  Stands(insert(b, encode(c)), SubSeq(q, 1, k) \o <<c>> \o SubSeq(q, k + 1, Len(q)), k + 1)
<1>1. q \in Seq(Alphabet) /\ b.buffer = Spelled(q) /\ b.cursor = Offsets(q)[k]
  BY DEF Stands
<1>2. PICK n \in Nat : n = Len(q) /\ k \in 0..n
  BY <1>1, LenProperties DEF Stands
<1>3. PICK s \in Seq(ByteSet) : s = b.buffer
  BY <1>1, SpelledType
<1>4. PICK l \in Seq(Alphabet) : l = SubSeq(q, 1, k) /\ Len(l) = k
  <2>1. SubSeq(q, 1, k) \in Seq(Alphabet) /\ Len(SubSeq(q, 1, k)) = k
    BY <1>1, <1>2, PartsOf
  <2> QED
    BY <2>1
<1>5. PICK r \in Seq(Alphabet) : r = SubSeq(q, k + 1, n)
  <2>1. SubSeq(q, k + 1, n) \in Seq(Alphabet)
    BY <1>1, <1>2, PartsOf
  <2> QED
    BY <2>1
<1>6. /\ SubSeq(s, 1, b.cursor) = Spelled(l) /\ SubSeq(s, b.cursor + 1, Len(s)) = Spelled(r)
      /\ b.cursor = Len(Spelled(l))
  <2>1. CutsAt(q, n, k, Spelled(q), Offsets(q)[k])
    BY <1>1, <1>2, CutAt
  <2> QED
    BY <1>1, <1>3, <1>4, <1>5, <2>1 DEF CutsAt
<1>7. PICK a \in Seq(Alphabet) : a = Append(l, c) /\ Len(a) = k + 1 /\ a = l \o <<c>>
  BY <1>4, AppendProperties, AppendIsConcat
<1>8. Spelled(a) = Spelled(l) \o encode(c) /\ Len(Spelled(a)) = Len(Spelled(l)) + Len(encode(c))
  <2>1. PICK x \in Seq(ByteSet) : x = Spelled(l)
    BY SpelledType
  <2>2. PICK e \in Seq(ByteSet) : e = encode(c)
    BY CharTypes
  <2>3. Spelled(a) = x \o e
    BY <1>7, <2>1, <2>2, SpelledAppend
  <2> QED
    BY <2>1, <2>2, <2>3, ConcatProperties
<1>9. insert(b, encode(c)) = [buffer |-> Spelled(a) \o Spelled(r), cursor |-> Len(Spelled(a))]
  BY <1>3, <1>6, <1>8 DEF insert
<1>10. k + 1 \in Nat
  BY <1>2
<1>11. Stands(insert(b, encode(c)), a \o r, k + 1)
  BY <1>7, <1>9, <1>10, StandsBetween
<1> QED
  BY <1>2, <1>4, <1>5, <1>7, <1>11

LEMMA WithoutStands ==
  ASSUME NEW q \in Seq(Alphabet), NEW n \in Nat, n = Len(q), NEW i \in 0..n, NEW j \in 0..n,
         NEW s \in Seq(ByteSet), s = Spelled(q)
  PROVE  Stands([buffer |-> Without(s, Offsets(q)[i], Offsets(q)[j]), cursor |-> Offsets(q)[i]],
                SubSeq(q, 1, i) \o SubSeq(q, j + 1, n), i)
<1>1. PICK l \in Seq(Alphabet) : l = SubSeq(q, 1, i) /\ Len(l) = i
  <2>1. SubSeq(q, 1, i) \in Seq(Alphabet) /\ Len(SubSeq(q, 1, i)) = i
    BY PartsOf
  <2> QED
    BY <2>1
<1>2. PICK r \in Seq(Alphabet) : r = SubSeq(q, j + 1, n)
  <2>1. SubSeq(q, j + 1, n) \in Seq(Alphabet)
    BY PartsOf
  <2> QED
    BY <2>1
<1>3. PICK p : p = Offsets(q)[i]
  OBVIOUS
<1>4. PICK t : t = Offsets(q)[j]
  OBVIOUS
<1>5. SubSeq(s, 1, p) = Spelled(l) /\ p = Len(Spelled(l))
  <2>1. CutsAt(q, n, i, Spelled(q), Offsets(q)[i])
    BY CutAt
  <2> QED
    BY <1>1, <1>3, <2>1 DEF CutsAt
<1>6. SubSeq(s, t + 1, Len(s)) = Spelled(r)
  <2>1. CutsAt(q, n, j, Spelled(q), Offsets(q)[j])
    BY CutAt
  <2> QED
    BY <1>2, <1>4, <2>1 DEF CutsAt
<1>7. i \in Nat
  OBVIOUS
<1>8. PICK b : b = [buffer |-> Without(s, p, t), cursor |-> p]
  OBVIOUS
<1>9. b = [buffer |-> Spelled(l) \o Spelled(r), cursor |-> Len(Spelled(l))]
  BY <1>5, <1>6, <1>8 DEF Without
<1>10. Stands(b, l \o r, i)
  BY <1>1, <1>7, <1>9, StandsBetween
<1> QED
  BY <1>1, <1>2, <1>3, <1>4, <1>8, <1>10

LEMMA BackspaceStands ==
  ASSUME NEW b, NEW q, NEW k, Stands(b, q, k)
  PROVE  /\ b.cursor > 0 <=> k > 0
         /\ k > 0 => Stands(backspace(b), RemoveAt(q, k), k - 1)
<1>1. PICK n, off : /\ n \in Nat /\ n = Len(q) /\ k \in 0..n /\ off = Offsets(q)
                    /\ Laid(b.buffer, q, n, off) /\ b.cursor = off[k]
  BY StandsLaid
<1>2. b.buffer = Spelled(q) /\ q \in Seq(Alphabet)
  BY DEF Stands
<1>3. PICK s \in Seq(ByteSet) : s = b.buffer
  BY <1>2, SpelledType
<1>4. b.cursor > 0 <=> k > 0
  <2>1. 0 \in 0..n /\ off[0] = 0 /\ off[k] \in Nat
    BY <1>1 DEF Laid
  <2>2. off[0] < off[k] <=> 0 < k
    BY <1>1, <2>1, OffsetsOrder
  <2> QED
    BY <1>1, <2>1, <2>2
<1>5. ASSUME k > 0 PROVE Stands(backspace(b), RemoveAt(q, k), k - 1)
  <2>1. PICK j \in 0..n : j = k - 1
    BY <1>1, <1>5
  <2>2. prev_boundary(s, off[k]) = off[j]
    <3>1. prev_boundary(s, off[k]) = off[IF k > 0 THEN k - 1 ELSE 0]
      BY <1>1, <1>3, PrevAt
    <3> QED
      BY <1>5, <2>1, <3>1
  <2>3. backspace(b) = [buffer |-> Without(s, off[j], off[k]), cursor |-> off[j]]
    BY <1>1, <1>3, <2>2 DEF backspace
  <2>4. Stands([buffer |-> Without(s, off[j], off[k]), cursor |-> off[j]],
               SubSeq(q, 1, j) \o SubSeq(q, k + 1, n), j)
    BY <1>1, <1>2, <1>3, WithoutStands
  <2>5. RemoveAt(q, k) = SubSeq(q, 1, j) \o SubSeq(q, k + 1, n)
    BY <1>1, <2>1 DEF RemoveAt
  <2> QED
    BY <2>1, <2>3, <2>4, <2>5
<1> QED
  BY <1>4, <1>5

LEMMA DeleteStands ==
  ASSUME NEW b, NEW q, NEW k, Stands(b, q, k)
  PROVE  /\ b.cursor < Len(b.buffer) <=> k < Len(q)
         /\ k < Len(q) => Stands(delete(b), RemoveAt(q, k + 1), k)
<1>1. PICK n, off : /\ n \in Nat /\ n = Len(q) /\ k \in 0..n /\ off = Offsets(q)
                    /\ Laid(b.buffer, q, n, off) /\ b.cursor = off[k]
                            /\ b = [buffer |-> b.buffer, cursor |-> off[k]]
  BY StandsLaid
<1>2. b.buffer = Spelled(q) /\ q \in Seq(Alphabet)
  BY DEF Stands
<1>3. PICK s \in Seq(ByteSet) : s = b.buffer
  BY <1>2, SpelledType
<1>4. b.cursor < Len(b.buffer) <=> k < Len(q)
  <2>1. n \in 0..n /\ off[n] = Len(s)
    BY <1>1, <1>3 DEF Laid
  <2>2. off[k] < off[n] <=> k < n
    BY <1>1, <2>1, OffsetsOrder
  <2> QED
    BY <1>1, <1>3, <2>1, <2>2
<1>5. ASSUME k < Len(q) PROVE Stands(delete(b), RemoveAt(q, k + 1), k)
  <2>1. PICK j \in 0..n : j = k + 1
    BY <1>1, <1>5
  <2>2. next_boundary(s, off[k]) = off[j]
    <3>1. next_boundary(s, off[k]) = off[IF k < n THEN k + 1 ELSE n]
      BY <1>1, <1>3, NextAt
    <3> QED
      BY <1>1, <1>5, <2>1, <3>1
  <2>3. delete(b) = [buffer |-> Without(s, off[k], off[j]), cursor |-> off[k]]
    <3>1. delete(b) = [b EXCEPT !.buffer = Without(s, off[k], off[j])]
      BY <1>1, <1>3, <2>2 DEF delete
    <3>2. PICK x : x = Without(s, off[k], off[j])
      OBVIOUS
    <3>3. PICK p : p = off[k]
      OBVIOUS
    <3>4. b = [buffer |-> s, cursor |-> p]
      BY <1>1, <1>3, <3>3
    <3>5. [b EXCEPT !.buffer = x] = [buffer |-> x, cursor |-> p]
      BY ONLY <3>4
    <3> QED
      BY <3>1, <3>2, <3>3, <3>5
  <2>4. Stands([buffer |-> Without(s, off[k], off[j]), cursor |-> off[k]],
               SubSeq(q, 1, k) \o SubSeq(q, j + 1, n), k)
    BY <1>1, <1>2, <1>3, WithoutStands
  <2>5. RemoveAt(q, k + 1) = SubSeq(q, 1, k) \o SubSeq(q, j + 1, n)
    <3>1. j - 1 = k /\ k + 1 = j /\ Len(q) = n
      BY <1>1, <2>1
    <3>2. RemoveAt(q, j) = SubSeq(q, 1, j - 1) \o SubSeq(q, j + 1, Len(q))
      BY DEF RemoveAt
    <3> QED
      BY <3>1, <3>2
  <2> QED
    BY <2>3, <2>4, <2>5
<1> QED
  BY <1>4, <1>5

\* A move leaves the text alone.
LEMMA MoveStands ==
  ASSUME NEW b, NEW q, NEW k, Stands(b, q, k), NEW j \in 0..Len(q), NEW p, p = Offsets(q)[j]
  PROVE  Stands([b EXCEPT !.cursor = p], q, j)
<1>1. b = [buffer |-> Spelled(q), cursor |-> Offsets(q)[k]]
  BY DEF Stands
<1>2. [b EXCEPT !.cursor = p] = [buffer |-> Spelled(q), cursor |-> Offsets(q)[j]]
  BY <1>1
<1> QED
  BY <1>2 DEF Stands

LEMMA SidewaysStands ==
  ASSUME NEW b, NEW q, NEW k, Stands(b, q, k)
  PROVE  /\ Stands(left(b), q, IF k > 0 THEN k - 1 ELSE 0)
         /\ Stands(right(b), q, IF k < Len(q) THEN k + 1 ELSE Len(q))
         /\ Stands(home(b), q, StartIn(q, k))
         /\ Stands(end(b), q, EndIn(q, k))
<1>1. PICK n, off : /\ n \in Nat /\ n = Len(q) /\ k \in 0..n /\ off = Offsets(q)
                    /\ Laid(b.buffer, q, n, off) /\ b.cursor = off[k]
  BY StandsLaid
<1>2. PICK s : s = b.buffer
  OBVIOUS
<1>3. PICK i \in 0..n : i = IF k > 0 THEN k - 1 ELSE 0
  BY <1>1
<1>4. PICK j \in 0..n : j = IF k < n THEN k + 1 ELSE n
  BY <1>1
<1>5. PICK x \in 0..n : x = StartIn(q, k) /\ line_start(s, off[k]) = off[x]
  <2>1. StartIn(q, k) \in 0..n /\ line_start(s, off[k]) = off[StartIn(q, k)]
    BY <1>1, <1>2, StartAt
  <2> QED
    BY <2>1
<1>6. PICK e \in 0..n : e = EndIn(q, k) /\ line_end(s, off[k]) = off[e]
  <2>1. Laid(s, q, n, off) /\ k \in 0..n
    BY <1>1, <1>2
  <2>2. EndIn(q, k) \in 0..n /\ line_end(s, off[k]) = off[EndIn(q, k)]
    BY ONLY <2>1, EndAt
  <2> QED
    BY <2>2
<1>7. prev_boundary(s, off[k]) = off[i]
  <2>1. prev_boundary(s, off[k]) = off[IF k > 0 THEN k - 1 ELSE 0]
    BY <1>1, <1>2, PrevAt
  <2> QED
    BY <1>3, <2>1
<1>8. next_boundary(s, off[k]) = off[j]
  <2>1. next_boundary(s, off[k]) = off[IF k < n THEN k + 1 ELSE n]
    BY <1>1, <1>2, NextAt
  <2> QED
    BY <1>4, <2>1
<1>9. Stands(left(b), q, i)
  <2>1. left(b) = [b EXCEPT !.cursor = off[i]]
    BY <1>1, <1>2, <1>7 DEF left
  <2> QED
    BY <1>1, <2>1, MoveStands
<1>10. Stands(right(b), q, j)
  <2>1. right(b) = [b EXCEPT !.cursor = off[j]]
    BY <1>1, <1>2, <1>8 DEF right
  <2> QED
    BY <1>1, <2>1, MoveStands
<1>11. Stands(home(b), q, x)
  <2>1. home(b) = [b EXCEPT !.cursor = off[x]]
    BY <1>1, <1>2, <1>5 DEF home
  <2> QED
    BY <1>1, <2>1, MoveStands
<1>12. Stands(end(b), q, e)
  <2>1. end(b) = [b EXCEPT !.cursor = off[e]]
    BY <1>1, <1>2, <1>6 DEF end
  <2> QED
    BY <1>1, <2>1, MoveStands
<1> QED
  BY <1>1, <1>3, <1>4, <1>5, <1>6, <1>9, <1>10, <1>11, <1>12

\* The lines above and below, and the column.
UpIn(q, k) ==
  LET above == StartIn(q, k) - 1
      there == StartIn(q, above) + (k - StartIn(q, k))
  IN  IF there <= above THEN there ELSE above

DownIn(q, k) ==
  LET below == EndIn(q, k) + 1
      there == below + (k - StartIn(q, k))
  IN  IF there <= EndIn(q, below) THEN there ELSE EndIn(q, below)

LEMMA UpStands ==
  ASSUME NEW b, NEW q, NEW k, Stands(b, q, k)
  PROVE  /\ StartIn(q, k) = 0 => up(b) = b
         /\ StartIn(q, k) # 0 => Stands(up(b), q, UpIn(q, k))
<1>1. PICK n, off : /\ n \in Nat /\ n = Len(q) /\ k \in 0..n /\ off = Offsets(q)
                    /\ Laid(b.buffer, q, n, off) /\ b.cursor = off[k]
  BY StandsLaid
<1>2. PICK s : s = b.buffer /\ Laid(s, q, n, off) /\ k \in 0..n
  BY <1>1
<1>3. q \in Seq(Alphabet)
  BY DEF Stands
<1>4. PICK x \in 0..n : x = StartIn(q, k) /\ x <= k /\ line_start(s, off[k]) = off[x]
  <2>1. StartIn(q, k) \in 0..n /\ StartIn(q, k) <= k /\ line_start(s, off[k]) = off[StartIn(q, k)]
    BY ONLY <1>2, StartAt
  <2> QED
    BY <2>1
<1>5. (x # 0 => q[x] = "nl") /\ (off[x] = 0 <=> x = 0)
  <2>1. x # 0 => q[x] = "nl"
    BY <1>1, <1>3, <1>4, StartIs
  <2>2. 0 \in 0..n /\ off[0] = 0
    BY <1>2 DEF Laid
  <2>3. off[x] = off[0] <=> x = 0
    BY <1>2, <2>2, OffsetsOrder
  <2> QED
    BY <2>1, <2>2, <2>3
<1>6. CASE x = 0
  <2>1. up(b) = b
    BY <1>1, <1>2, <1>4, <1>5, <1>6 DEF up
  <2> QED
    BY <1>4, <1>6, <2>1
<1>7. CASE x # 0
  <2>1. PICK y \in 0..n : y = x - 1
    BY <1>1, <1>7
  <2>2. off[x] - 1 = off[y]
    <3>1. x \in 1..n /\ q[x] = "nl"
      BY <1>5, <1>7
    <3>2. off[x] - 1 = off[x - 1]
      BY <1>2, <3>1, BreakAt
    <3> QED
      BY <2>1, <3>2
  <2>3. PICK z \in 0..n : z = StartIn(q, y) /\ z <= y /\ line_start(s, off[y]) = off[z]
    <3>1. StartIn(q, y) \in 0..n /\ StartIn(q, y) <= y /\ line_start(s, off[y]) = off[StartIn(q, y)]
      BY ONLY <1>2, <2>1, StartAt
    <3> QED
      BY <3>1
  <2>4. PICK m \in Nat : m = k - x
    BY <1>1, <1>4
  <2>5. column(b) = m
    <3>1. count(s, off[x], off[k]) = k - x
      BY <1>1, <1>2, <1>4, CountAt
    <3> QED
      BY <1>1, <1>2, <1>4, <2>4, <3>1 DEF column
  <2>6. PICK j \in 0..n : j = IF z + m <= y THEN z + m ELSE y
    BY <1>1
  <2>7. Walk(s, off[z], m, off[y]) = off[j]
    <3>1. Walk(s, off[z], m, off[y]) = off[IF z + m <= y THEN z + m ELSE y]
      BY <1>2, <2>3, WalkAt
    <3> QED
      BY <2>6, <3>1
  <2>8. up(b) = [b EXCEPT !.cursor = off[j]]
    <3>1. line_start(s, off[k]) = off[x] /\ off[x] # 0
      BY <1>4, <1>5, <1>7
    <3>2. line_start(s, off[x] - 1) = off[z]
      BY <2>2, <2>3
    <3>3. Walk(s, off[z], column(b), off[x] - 1) = off[j]
      BY <2>2, <2>5, <2>7
    <3> QED
      BY <1>1, <1>2, <3>1, <3>2, <3>3 DEF up
  <2>9. Stands(up(b), q, j)
    BY <1>1, <2>8, MoveStands
  <2>10. UpIn(q, k) = j
    BY <1>4, <2>1, <2>3, <2>4, <2>6 DEF UpIn
  <2> QED
    BY <1>4, <1>7, <2>9, <2>10
<1> QED
  BY <1>6, <1>7

LEMMA DownStands ==
  ASSUME NEW b, NEW q, NEW k, Stands(b, q, k)
  PROVE  /\ EndIn(q, k) = Len(q) => down(b) = b
         /\ EndIn(q, k) # Len(q) => Stands(down(b), q, DownIn(q, k))
<1>1. PICK n, off : /\ n \in Nat /\ n = Len(q) /\ k \in 0..n /\ off = Offsets(q)
                    /\ Laid(b.buffer, q, n, off) /\ b.cursor = off[k]
  BY StandsLaid
<1>2. PICK s : s = b.buffer /\ Laid(s, q, n, off) /\ k \in 0..n
  BY <1>1
<1>3. q \in Seq(Alphabet)
  BY DEF Stands
<1>4. PICK x \in 0..n : x = EndIn(q, k) /\ k <= x /\ line_end(s, off[k]) = off[x]
  <2>1. EndIn(q, k) \in 0..n /\ k <= EndIn(q, k) /\ line_end(s, off[k]) = off[EndIn(q, k)]
    BY ONLY <1>2, EndAt
  <2> QED
    BY <2>1
<1>5. (x # n => q[x + 1] = "nl") /\ (off[x] = Len(s) <=> x = n)
  <2>1. x # n => q[x + 1] = "nl"
    BY <1>1, <1>3, <1>4, EndIs
  <2>2. n \in 0..n /\ off[n] = Len(s)
    BY <1>2 DEF Laid
  <2>3. off[x] = off[n] <=> x = n
    BY <1>2, <2>2, OffsetsOrder
  <2> QED
    BY <2>1, <2>2, <2>3
<1>6. CASE x = n
  <2>1. down(b) = b
    BY <1>1, <1>2, <1>4, <1>5, <1>6 DEF down
  <2> QED
    BY <1>1, <1>4, <1>6, <2>1
<1>7. CASE x # n
  <2>1. PICK y \in 0..n : y = x + 1 /\ y - 1 = x /\ y \in 1..n
    BY <1>1, <1>7
  <2>2. off[x] + 1 = off[y]
    <3>1. off[y] \in 1..Len(s) /\ off[y] - 1 = off[y - 1]
      BY <1>2, <1>5, <1>7, <2>1, BreakAt
    <3> QED
      BY <2>1, <3>1
  <2>3. PICK z \in 0..n : z = EndIn(q, y) /\ y <= z /\ line_end(s, off[y]) = off[z]
    <3>1. EndIn(q, y) \in 0..n /\ y <= EndIn(q, y) /\ line_end(s, off[y]) = off[EndIn(q, y)]
      BY ONLY <1>2, <2>1, EndAt
    <3> QED
      BY <3>1
  <2>4. PICK st \in 0..n : st = StartIn(q, k) /\ st <= k /\ line_start(s, off[k]) = off[st]
    <3>1. StartIn(q, k) \in 0..n /\ StartIn(q, k) <= k /\ line_start(s, off[k]) = off[StartIn(q, k)]
      BY ONLY <1>2, StartAt
    <3> QED
      BY <3>1
  <2>5. PICK m \in Nat : m = k - st
    BY <1>1, <2>4
  <2>6. column(b) = m
    <3>1. count(s, off[st], off[k]) = k - st
      BY <1>1, <1>2, <2>4, CountAt
    <3> QED
      BY <1>1, <1>2, <2>4, <2>5, <3>1 DEF column
  <2>7. PICK j \in 0..n : j = IF y + m <= z THEN y + m ELSE z
    BY <1>1
  <2>8. Walk(s, off[y], m, off[z]) = off[j]
    <3>1. Walk(s, off[y], m, off[z]) = off[IF y + m <= z THEN y + m ELSE z]
      BY <1>2, <2>3, WalkAt
    <3> QED
      BY <2>7, <3>1
  <2>9. down(b) = [b EXCEPT !.cursor = off[j]]
    <3>1. line_end(s, off[k]) = off[x] /\ off[x] # Len(s)
      BY <1>4, <1>5, <1>7
    <3>2. line_end(s, off[x] + 1) = off[z]
      BY <2>2, <2>3
    <3>3. Walk(s, off[x] + 1, column(b), off[z]) = off[j]
      BY <2>2, <2>6, <2>8
    <3> QED
      BY <1>1, <1>2, <3>1, <3>2, <3>3 DEF down
  <2>10. Stands(down(b), q, j)
    BY <1>1, <2>9, MoveStands
  <2>11. DownIn(q, k) = j
    BY <1>4, <2>1, <2>3, <2>4, <2>5, <2>7 DEF DownIn
  <2> QED
    BY <1>1, <1>4, <1>7, <2>10, <2>11
<1> QED
  BY <1>6, <1>7

-----------------------------------------------------------------------------
(* The visual rows.                                                         *)

LEMMA NextRange ==
  ASSUME NEW s \in Seq(ByteSet), NEW n \in Nat, n = Len(s), NEW p \in 0..n
  PROVE  /\ next_boundary(s, p) \in p..n
         /\ p < n => next_boundary(s, p) > p
<1>1. CASE p = n
  BY <1>1 DEF next_boundary
<1>2. CASE p < n
  <2>1. PICK d \in 1..3 : d = seq_len(s[p + 1])
    BY Steps
  <2>2. Min({n, p + d}) = IF n <= p + d THEN n ELSE p + d
    BY LesserOf
  <2>3. next_boundary(s, p) = Min({n, p + d})
    BY <1>2, <2>1 DEF next_boundary
  <2> QED
    BY <1>2, <2>2, <2>3
<1> QED
  BY <1>1, <1>2

LEMMA WalkRange ==
  ASSUME NEW s \in Seq(ByteSet), NEW n \in Nat, n = Len(s), NEW p \in 0..n, NEW stop \in 0..n,
         NEW m \in Nat
  PROVE  /\ Walk(s, p, m, stop) \in p..n
         /\ m >= 1 /\ p < stop => Walk(s, p, m, stop) > p
<1> DEFINE U == p..n
           F == [i \in 1..m |-> [v \in U |-> IF v < stop THEN next_boundary(s, v) ELSE v]]
<1>1. \A v \in U : (IF v < stop THEN next_boundary(s, v) ELSE v) \in U
  <2> SUFFICES ASSUME NEW v \in U, v < stop PROVE next_boundary(s, v) \in U
    OBVIOUS
  <2>1. v \in 0..n
    OBVIOUS
  <2>2. next_boundary(s, v) \in v..n
    BY <2>1, NextRange
  <2> QED
    BY <2>2
<1>2. p \in U
  OBVIOUS
<1> HIDE DEF U
<1>3. F \in [1..m -> [U -> U]]
  BY <1>1
<1>4. \A i \in 1..m : \A v \in U : F[i][v] = IF v < stop THEN next_boundary(s, v) ELSE v
  OBVIOUS
<1> HIDE DEF F
<1>5. PICK w \in [0..m -> U] : Runs(w, p, m, F)
  BY <1>2, <1>3, FoldRun
<1>6. w = [i \in 0..m |-> w[i]] /\ w[0] = p /\ m \in 0..m
  BY <1>5 DEF Runs
<1>7. \A i \in 1..m : w[i] = IF w[i - 1] < stop THEN next_boundary(s, w[i - 1]) ELSE w[i - 1]
  <2> SUFFICES ASSUME NEW i \in 1..m
               PROVE  w[i] = IF w[i - 1] < stop THEN next_boundary(s, w[i - 1]) ELSE w[i - 1]
    OBVIOUS
  <2>1. i - 1 \in 0..m
    OBVIOUS
  <2>2. w[i - 1] \in U /\ w[i] = F[i][w[i - 1]]
    BY <1>5, <2>1 DEF Runs
  <2> QED
    BY <1>4, <2>2
<1>8. Walk(s, p, m, stop) = w[m]
  <2>1. Walks(w, s, p, m, stop)
    BY <1>6, <1>7 DEF Walks
  <2> QED
    BY <2>1, WalkIs
<1>9. w[m] \in p..n
  BY <1>5, <1>6 DEF U
<1>10. ASSUME m >= 1, p < stop PROVE w[m] > p
  <2> DEFINE G == {i \in 0..m : i # 0 => w[i] > p}
  <2>1. 0 \in G
    OBVIOUS
  <2>2. ASSUME NEW i \in 1..m, i - 1 \in G PROVE i \in G
    <3>1. PICK v \in p..n : v = w[i - 1]
      <4>1. i - 1 \in 0..m
        OBVIOUS
      <4> QED
        BY <1>5, <4>1 DEF U
    <3>2. w[i] = IF v < stop THEN next_boundary(s, v) ELSE v
      BY <1>7, <3>1
    <3>3. i \in 0..m /\ v \in 0..n
      OBVIOUS
    <3>4. CASE v < stop
      <4>1. v < n
        BY <3>4
      <4>2. next_boundary(s, v) > v /\ next_boundary(s, v) \in v..n
        BY <3>3, <4>1, NextRange
      <4>3. w[i] > p
        BY <3>2, <3>4, <4>2
      <4> QED
        BY <3>3, <4>3
    <3>5. CASE ~(v < stop)
      <4>1. w[i] = v /\ v > p
        BY <1>10, <3>2, <3>5
      <4> QED
        BY <3>3, <4>1
    <3> QED
      BY <3>4, <3>5
  <2>3. 0..m \subseteq G
    <3> HIDE DEF G
    <3> QED
      BY <2>1, <2>2, Climb
  <2>4. m \in 0..m /\ m # 0
    BY <1>10
  <2> QED
    BY <2>3, <2>4
<1> QED
  BY <1>8, <1>9, <1>10

LEMMA LineEndRange ==
  ASSUME NEW s \in Seq(ByteSet), NEW n \in Nat, n = Len(s), NEW p \in 0..n
  PROVE  line_end(s, p) \in p..n
<1> DEFINE S == {n} \cup {i \in p..(n - 1) : s[i + 1] = "nl"}
<1>1. S \in SUBSET (0..n) /\ S # {} /\ \A i \in S : i \in p..n
  OBVIOUS
<1>2. line_end(s, p) = Min(S)
  BY DEF line_end
<1> HIDE DEF S
<1>3. Min(S) \in S
  BY <1>1, LowestPlace
<1> QED
  BY <1>1, <1>2, <1>3

\* The windows in which a row has a column for a character and one for the cursor.
Window(width, prompt) == width \in Nat /\ prompt \in Nat /\ width > prompt + 1

LEMMA BudgetIs ==
  ASSUME NEW width, NEW prompt, Window(width, prompt), NEW col0 \in 0..prompt
  PROVE  Budget(width, col0) = width - 1 - col0 /\ Budget(width, col0) \in Nat \ {0}
<1>1. width - 1 - col0 \in Int /\ width - 1 - col0 >= 1
  BY DEF Window
<1>2. Max({1, width - 1 - col0}) = IF 1 <= width - 1 - col0 THEN width - 1 - col0 ELSE 1
  BY <1>1, GreaterOf
<1> QED
  BY <1>1, <1>2 DEF Budget

RowRec == [from : Nat, to : Nat, col0 : Nat]

\* Where the row after the one at p begins.
Onto(s, p, width, prompt) ==
  LET to == Row(s, p, width, prompt).to
  IN  IF to < line_end(s, p) THEN to ELSE to + 1

LEMMA RowRange ==
  ASSUME NEW s \in Seq(ByteSet), NEW n \in Nat, n = Len(s), NEW p \in 0..n,
         NEW width, NEW prompt, Window(width, prompt)
  PROVE  /\ Row(s, p, width, prompt) \in RowRec
         /\ Onto(s, p, width, prompt) \in p + 1..n + 1
<1>1. PICK c \in 0..prompt : c = IF p = 0 THEN prompt ELSE 0
  BY DEF Window
<1>2. PICK m \in Nat \ {0} : m = Budget(width, c)
  BY BudgetIs
<1>3. PICK e \in p..n : e = line_end(s, p)
  BY LineEndRange
<1>4. PICK t \in p..n : t = Walk(s, p, m, e) /\ (p < e => t > p)
  <2>1. e \in 0..n /\ m \in Nat /\ m >= 1
    OBVIOUS
  <2>2. Walk(s, p, m, e) \in p..n /\ (p < e => Walk(s, p, m, e) > p)
    BY <2>1, WalkRange
  <2> QED
    BY <2>2
<1>5. PICK row : row = Row(s, p, width, prompt)
  OBVIOUS
<1>6. row = [from |-> p, to |-> t, col0 |-> c]
  BY <1>1, <1>2, <1>3, <1>4, <1>5 DEF Row
<1>7. row \in RowRec /\ row.to = t
  BY <1>6 DEF RowRec, Window
<1>8. (IF t < e THEN t ELSE t + 1) \in p + 1..n + 1
  BY <1>4
<1> QED
  BY <1>3, <1>5, <1>7, <1>8 DEF Onto

RowsFrom(r, s, n, width, prompt) ==
  /\ r \in [0..(n + 1) -> Seq(RowRec)] /\ r[n + 1] = <<>>
  /\ \A p \in 0..n : r[p] = <<Row(s, p, width, prompt)>> \o r[Onto(s, p, width, prompt)]

LEMMA RowsAre ==
  ASSUME NEW s \in Seq(ByteSet), NEW n \in Nat, n = Len(s),
         NEW width, NEW prompt, Window(width, prompt)
  PROVE  \E r : RowsFrom(r, s, n, width, prompt) /\ Rows(s, width, prompt) = r[0]
<1> DEFINE row(p) == Row(s, p, width, prompt)
           next == [p \in 0..n |-> Onto(s, p, width, prompt)]
           F == [p \in 0..n |-> [v \in Seq(RowRec) |-> <<row(p)>> \o v]]
           P(f) == f = [p \in 0..(n + 1) |->
                          IF p > n THEN <<>>
                          ELSE IF row(p).to < line_end(s, p) THEN <<row(p)>> \o f[row(p).to]
                          ELSE <<row(p)>> \o f[row(p).to + 1]]
           r == CHOOSE f : P(f)
<1>0. PICK hi \in Int : hi = n + 1 /\ 0 <= hi /\ 0..n = 0..(hi - 1) /\ 0..(n + 1) = 0..hi
  OBVIOUS
<1>1. \A p \in 0..n : row(p) \in RowRec /\ next[p] \in p + 1..n + 1
  BY RowRange
<1>2. Onward(next, 0, hi)
  BY <1>0, <1>1 DEF Onward
<1>3. F \in [0..(hi - 1) -> [Seq(RowRec) -> Seq(RowRec)]]
  <2>1. \A p \in 0..n : \A v \in Seq(RowRec) : <<row(p)>> \o v \in Seq(RowRec)
    <3> SUFFICES ASSUME NEW p \in 0..n, NEW v \in Seq(RowRec)
                 PROVE  <<row(p)>> \o v \in Seq(RowRec)
      OBVIOUS
    <3>1. PICK x \in RowRec : x = row(p)
      BY <1>1
    <3>2. <<x>> \in Seq(RowRec)
      OBVIOUS
    <3>3. <<x>> \o v \in Seq(RowRec)
      BY <3>2, ConcatProperties
    <3> QED
      BY <3>1, <3>3
  <2> HIDE DEF row
  <2>2. F \in [0..n -> [Seq(RowRec) -> Seq(RowRec)]]
    BY <2>1
  <2> HIDE DEF F
  <2> QED
    BY <1>0, <2>2
<1>4. \A p \in 0..n : \A v \in Seq(RowRec) : F[p][v] = <<row(p)>> \o v
  OBVIOUS
<1>5. <<>> \in Seq(RowRec) /\ 0 \in Int /\ hi \in Int /\ 0 <= hi
  BY <1>0, EmptySeq
<1>6. \A p \in 0..n : \A f : (IF row(p).to < line_end(s, p) THEN <<row(p)>> \o f[row(p).to]
                              ELSE <<row(p)>> \o f[row(p).to + 1]) = <<row(p)>> \o f[next[p]]
  BY DEF Onto
<1>7. \E f : P(f)
  <2>1. PICK f \in [0..hi -> Seq(RowRec)] : FromTheEnd(f, 0, hi, <<>>, next, F)
    <3> HIDE DEF next, F
    <3>1. Descends(Seq(RowRec), 0, hi, <<>>, next, F)
      BY ONLY <1>2, <1>3, <1>5, DownExists
    <3> QED
      BY <3>1 DEF Descends
  <2>2. ASSUME NEW p \in 0..(n + 1)
        PROVE  f[p] = IF p > n THEN <<>>
                      ELSE IF row(p).to < line_end(s, p) THEN <<row(p)>> \o f[row(p).to]
                      ELSE <<row(p)>> \o f[row(p).to + 1]
    <3>1. CASE p > n
      <4>1. p = n + 1
        BY <3>1
      <4> QED
        BY <1>0, <2>1, <3>1, <4>1 DEF FromTheEnd
    <3>2. CASE ~(p > n)
      <4>1. p \in 0..n /\ p \in 0..(hi - 1)
        BY <1>0, <3>2
      <4>2. f[p] = F[p][f[next[p]]]
        <5> HIDE DEF F, next
        <5> QED
          BY <2>1, <4>1 DEF FromTheEnd
      <4>3. PICK m \in 0..(n + 1) : m = next[p]
        BY <1>1, <4>1
      <4>4. f[m] \in Seq(RowRec)
        BY <1>0
      <4> HIDE DEF F, next, row
      <4>5. f[p] = <<row(p)>> \o f[next[p]]
        BY <1>4, <4>1, <4>2, <4>3, <4>4
      <4> QED
        BY <1>6, <3>2, <4>1, <4>5
    <3> QED
      BY <3>1, <3>2
  <2>3. f = [p \in 0..(n + 1) |-> f[p]]
    BY <1>0
  <2>4. P(f)
    <3> HIDE DEF row
    <3>1. [p \in 0..(n + 1) |-> f[p]] =
            [p \in 0..(n + 1) |->
               IF p > n THEN <<>>
               ELSE IF row(p).to < line_end(s, p) THEN <<row(p)>> \o f[row(p).to]
               ELSE <<row(p)>> \o f[row(p).to + 1]]
      BY <2>2, Zenon
    <3> QED
      BY <2>3, <3>1, Zenon
  <2> QED
    BY <2>4
<1>8. P(r)
  <2> HIDE DEF P
  <2> QED
    BY <1>7
<1>9. Rows(s, width, prompt) = r[0]
  BY DEF Rows
<1> HIDE DEF r
<1>10. /\ r = [p \in 0..(n + 1) |-> r[p]] /\ r[n + 1] = <<>>
       /\ \A p \in 0..n : r[p] = <<row(p)>> \o r[next[p]]
  <2>1. r = [p \in 0..(n + 1) |-> r[p]]
    BY <1>8
  <2>2. n + 1 \in 0..(n + 1) /\ n + 1 > n /\ \A p \in 0..n : p \in 0..(n + 1) /\ ~(p > n)
    OBVIOUS
  <2> HIDE DEF row, next
  <2>3. r[n + 1] = <<>>
    BY <1>8, <2>2
  <2>4. \A p \in 0..n : r[p] = IF row(p).to < line_end(s, p) THEN <<row(p)>> \o r[row(p).to]
                              ELSE <<row(p)>> \o r[row(p).to + 1]
    BY <1>8, <2>2
  <2>5. \A p \in 0..n : r[p] = <<row(p)>> \o r[next[p]]
    BY <1>6, <2>4
  <2> QED
    BY <2>1, <2>3, <2>5
<1>11. r \in [0..(n + 1) -> Seq(RowRec)]
  <2> HIDE DEF P, row, next, F
  <2>1. \A p \in 0..n : r[next[p]] \in Seq(RowRec) => r[p] = F[p][r[next[p]]]
    BY <1>4, <1>10
  <2>2. DownChosen(r, Seq(RowRec), 0, hi, <<>>, next, F)
    BY <1>0, <1>10, <2>1 DEF DownChosen
  <2>3. r \in [0..hi -> Seq(RowRec)] /\ FromTheEnd(r, 0, hi, <<>>, next, F)
    BY ONLY <1>2, <1>3, <1>5, <2>2, DownIs
  <2> QED
    BY <1>0, <2>3
<1>12. RowsFrom(r, s, n, width, prompt)
  BY <1>10, <1>11 DEF RowsFrom
<1> QED
  BY <1>9, <1>12

-----------------------------------------------------------------------------
(* The chat.                                                                *)

Said == {"", "> ", "* "}

Entry == [kind : Kinds, speaker : Said, text : Seq(Nat), collapsed : BOOLEAN]

Views == [entries : Seq(Entry), scroll : Nat]

LEMMA HeightType ==
  ASSUME NEW e \in Entry
  PROVE  Height(e) \in Nat
<1>1. PICK n \in Nat : n = Len(e.text)
  BY LenProperties DEF Entry
<1>2. Max({1, n}) = IF 1 <= n THEN n ELSE 1
  BY GreaterOf
<1>3. Max({1, n}) \in Nat
  BY <1>2
<1>4. e.collapsed \in BOOLEAN
  BY DEF Entry
<1>5. CASE Collapsible(e) /\ e.collapsed
  BY <1>5 DEF Height
<1>6. CASE Collapsible(e) /\ ~e.collapsed
  <2>1. Height(e) = 1 + Max({1, n})
    BY <1>1, <1>6 DEF Height
  <2> QED
    BY <1>3, <2>1
<1>7. CASE ~Collapsible(e)
  <2>1. Height(e) = Max({1, n})
    BY <1>1, <1>7 DEF Height
  <2> QED
    BY <1>3, <2>1
<1> QED
  BY <1>4, <1>5, <1>6, <1>7

Lines(q) == FoldLeft(LAMBDA lines, entry : lines + Height(entry), 0, q)

LEMMA LinesType ==
  ASSUME NEW q \in Seq(Entry)
  PROVE  Lines(q) \in Nat
<1>1. PICK n \in Nat : n = Len(q) /\ DOMAIN q = 1..n /\ \A k \in 1..n : q[k] \in Entry
  BY LenProperties, ElementOfSeq
<1>2. \A k \in 1..n : Height(q[k]) \in Nat
  BY <1>1, HeightType
<1> DEFINE F == [k \in 1..n |-> [lines \in Nat |-> lines + Height(q[k])]]
           Eq(h) == h = [s \in SUBSET (1..n) |-> IF s = {} THEN 0
                         ELSE h[s \ {Max(s)}] + Height(q[Max(s)])]
           fold == CHOOSE h : Eq(h)
<1>3. F \in [1..n -> [Nat -> Nat]] /\ \A k \in 1..n, v \in Nat : F[k][v] = v + Height(q[k])
  BY <1>2
<1> HIDE DEF F
<1>4. PICK base \in Nat : base = 0
  OBVIOUS
<1>5. PICK g \in [SUBSET (1..n) -> Nat] : Folds(g, base, n, F)
  BY <1>3, FoldExists
<1>6. ASSUME NEW s \in SUBSET (1..n), s # {} PROVE Max(s) \in 1..n
  <2>1. \E i \in s : \A j \in s : i >= j
    BY ONLY <1>6, n \in Nat, LastPlace
  <2> QED
    BY <2>1 DEF Max
<1>7. Eq(g)
  <2> SUFFICES ASSUME NEW s \in SUBSET (1..n), s # {}
               PROVE  F[Max(s)][g[s \ {Max(s)}]] = g[s \ {Max(s)}] + Height(q[Max(s)])
    BY <1>4, <1>5 DEF Folds
  <2>1. g[s \ {Max(s)}] \in Nat
    OBVIOUS
  <2> QED
    BY <1>3, <1>6, <2>1
<1>8. Eq(fold)
  <2> HIDE DEF Eq
  <2> QED
    BY <1>7
<1>9. Lines(q) = fold[1..n]
  BY <1>1 DEF Lines, FoldLeft, MapThenFoldSet
<1> HIDE DEF fold
<1>10. fold[{}] = base
  BY <1>4, <1>8
<1>11. ASSUME NEW s \in SUBSET (1..n), s # {}, fold[s \ {Max(s)}] \in Nat
       PROVE  fold[s] = F[Max(s)][fold[s \ {Max(s)}]]
  <2>1. fold[s] = fold[s \ {Max(s)}] + Height(q[Max(s)])
    BY <1>8, <1>11
  <2>2. PICK k \in 1..n : k = Max(s)
    BY <1>6, <1>11
  <2>3. PICK v \in Nat : v = fold[s \ {Max(s)}]
    BY <1>11
  <2> QED
    BY <1>3, <2>1, <2>2, <2>3
<1>12. PICK run \in [0..n -> Nat] : Runs(run, base, n, F) /\ run[n] = fold[1..n]
  <2>1. PICK f : f = fold
    OBVIOUS
  <2>2. FoldChosen(f, Nat, base, n, F)
    BY <1>10, <1>11, <2>1 DEF FoldChosen
  <2> HIDE DEF Eq
  <2>3. FoldRuns(f, Nat, base, n, F)
    BY <1>3, <2>2, FoldOf
  <2> QED
    BY <2>1, <2>3 DEF FoldRuns
<1>13. n \in 0..n
  OBVIOUS
<1> QED
  BY <1>9, <1>12, <1>13

LEMMA TotalType ==
  ASSUME NEW v \in Views
  PROVE  Total(v) \in Nat
<1>1. PICK q \in Seq(Entry) : q = v.entries
  BY DEF Views
<1>2. PICK n \in Nat : n = Len(q)
  BY LenProperties
<1>3. Max({0, n - 1}) = IF 0 <= n - 1 THEN n - 1 ELSE 0
  BY GreaterOf
<1>4. Max({0, n - 1}) \in Nat
  BY <1>3
<1>5. Lines(q) \in Nat
  BY LinesType
<1>6. Total(v) = Lines(q) + Max({0, n - 1})
  BY <1>1, <1>2 DEF Total, Lines
<1> QED
  BY <1>4, <1>5, <1>6

LEMMA PushType ==
  ASSUME NEW v \in Views, NEW kind \in Kinds, NEW speaker \in Said, NEW text \in Seq(Nat),
         NEW collapsed \in BOOLEAN
  PROVE  Push(v, kind, speaker, text, collapsed) \in Views
<1>1. PICK e \in Entry : e = [kind |-> kind, speaker |-> speaker, text |-> text,
                              collapsed |-> collapsed]
  BY DEF Entry
<1>2. v.entries \in Seq(Entry)
  BY DEF Views
<1>3. PICK q \in Seq(Entry) : q = Append(v.entries, e)
  BY <1>2, AppendProperties
<1>4. Push(v, kind, speaker, text, collapsed) = [entries |-> q, scroll |-> 0]
  BY <1>1, <1>3 DEF Push
<1> QED
  BY <1>4 DEF Views

LEMMA Replaced ==
  ASSUME NEW v \in Views, NEW i \in DOMAIN v.entries, NEW e \in Entry, NEW scroll \in Nat,
         NEW w, w = [entries |-> [v.entries EXCEPT ![i] = e], scroll |-> scroll]
  PROVE  w \in Views
<1>1. PICK q \in Seq(Entry) : q = v.entries
  BY DEF Views
<1>2. i \in 1..Len(q)
  BY <1>1, LenProperties
<1>3. [q EXCEPT ![i] = e] \in Seq(Entry)
  BY <1>2, ExceptSeq
<1> QED
  BY <1>1, <1>3 DEF Views

LEMMA AppendToType ==
  ASSUME NEW v \in Views, NEW i, NEW text \in Seq(Nat)
  PROVE  append_to(v, i, text) \in Views
<1>1. CASE i \notin DOMAIN v.entries
  BY <1>1 DEF append_to
<1>2. CASE i \in DOMAIN v.entries
  <2>1. PICK q \in Seq(Entry) : q = v.entries
    BY DEF Views
  <2>2. PICK e \in Entry : e = q[i]
    BY <1>2, <2>1, LenProperties, ElementOfSeq
  <2>3. PICK t \in Seq(Nat) : t = e.text \o text
    <3>1. e.text \in Seq(Nat)
      BY DEF Entry
    <3> QED
      BY <3>1, ConcatProperties
  <2>4. PICK f \in Entry : f = [e EXCEPT !.text = t]
    BY DEF Entry
  <2>5. [q EXCEPT ![i].text = @ \o text] = [q EXCEPT ![i] = f]
    BY <2>2, <2>3, <2>4
  <2>6. append_to(v, i, text) = [entries |-> [v.entries EXCEPT ![i] = f], scroll |-> 0]
    BY <1>2, <2>1, <2>5 DEF append_to
  <2> QED
    BY <1>2, <2>6, Replaced
<1> QED
  BY <1>1, <1>2

LEMMA ToggleType ==
  ASSUME NEW v \in Views
  PROVE  toggle_last_collapsible(v) \in Views
<1>1. PICK q \in Seq(Entry) : q = v.entries
  BY DEF Views
<1>2. PICK n \in Nat : n = Len(q) /\ DOMAIN q = 1..n /\ DOMAIN v.entries = 1..n
  BY <1>1, LenProperties
<1> DEFINE C == {i \in DOMAIN v.entries : Collapsible(v.entries[i])}
<1>3. CASE C = {}
  BY <1>3 DEF toggle_last_collapsible
<1>4. CASE C # {}
  <2>1. PICK i \in 1..n : i = Max(C)
    <3>1. C \in SUBSET (1..n)
      BY <1>2
    <3> HIDE DEF C
    <3>2. \E i \in C : \A j \in C : i >= j
      BY <1>4, <3>1, LastPlace
    <3> QED
      BY <3>1, <3>2 DEF Max
  <2>2. PICK e \in Entry : e = q[i]
    BY <1>2, ElementOfSeq
  <2>3. PICK x \in BOOLEAN : x = ~e.collapsed
    OBVIOUS
  <2>4. PICK f \in Entry : f = [e EXCEPT !.collapsed = x]
    BY DEF Entry
  <2>5. PICK m \in Nat : v = [entries |-> q, scroll |-> m]
    BY <1>1 DEF Views
  <2>6. toggle_last_collapsible(v) = [v EXCEPT !.entries[i].collapsed = x]
    <3>1. toggle_last_collapsible(v) = [v EXCEPT !.entries[i].collapsed = ~v.entries[i].collapsed]
      BY <1>4, <2>1 DEF toggle_last_collapsible
    <3>2. x = ~v.entries[i].collapsed
      BY <1>1, <2>2, <2>3
    <3> QED
      BY <3>1, <3>2
  <2> HIDE DEF C
  <2>7. [v EXCEPT !.entries[i].collapsed = x] = [entries |-> [q EXCEPT ![i].collapsed = x], scroll |-> m]
    <3>1. v.entries = q
      BY <1>1
    <3>2. [v EXCEPT !.entries[i].collapsed = x] = [v EXCEPT !.entries = [q EXCEPT ![i].collapsed = x]]
      BY ONLY <3>1
    <3>3. PICK y : y = [q EXCEPT ![i].collapsed = x]
      OBVIOUS
    <3>4. [v EXCEPT !.entries = y] = [entries |-> y, scroll |-> m]
      BY ONLY <2>5
    <3> QED
      BY <3>2, <3>3, <3>4
  <2>8. [q EXCEPT ![i].collapsed = x] = [q EXCEPT ![i] = f]
    BY ONLY <2>2, <2>4
  <2>9. PICK w : w = toggle_last_collapsible(v)
    OBVIOUS
  <2>10. w = [entries |-> [v.entries EXCEPT ![i] = f], scroll |-> m]
    BY ONLY <1>1, <2>6, <2>7, <2>8, <2>9
  <2>11. i \in DOMAIN v.entries
    BY <1>2
  <2>12. w \in Views
    BY ONLY v \in Views, <2>10, <2>11, Replaced, m \in Nat, f \in Entry
  <2> QED
    BY <2>9, <2>12
<1> QED
  BY <1>3, <1>4

LEMMA ScrollType ==
  ASSUME NEW v \in Views, NEW m \in Nat
  PROVE  [v EXCEPT !.scroll = m] \in Views /\ [v EXCEPT !.scroll = m].scroll = m
BY DEF Views

LEMMA ClampedIs ==
  ASSUME NEW v \in Views, NEW rows \in Nat
  PROVE  /\ Clamped(v, rows) \in Views /\ Clamped(v, rows).entries = v.entries
         /\ Total(Clamped(v, rows)) = Total(v) /\ Total(v) \in Nat
         /\ Max({0, Total(v) - rows}) =
              IF 0 <= Total(v) - rows THEN Total(v) - rows ELSE 0
         /\ Clamped(v, rows).scroll =
              IF v.scroll <= Max({0, Total(v) - rows}) THEN v.scroll ELSE Max({0, Total(v) - rows})
<1>1. PICK t \in Nat : t = Total(v)
  BY TotalType
<1>2. PICK m \in Nat : m = Max({0, t - rows}) /\ m = IF 0 <= t - rows THEN t - rows ELSE 0
  BY GreaterOf
<1>3. PICK x \in Nat : x = v.scroll
  BY DEF Views
<1>4. PICK y \in Nat : y = Min({x, m}) /\ y = IF x <= m THEN x ELSE m
  BY LesserOf
<1>5. Clamped(v, rows) = [v EXCEPT !.scroll = y]
  BY <1>1, <1>2, <1>3, <1>4 DEF Clamped
<1>6. PICK w : w = Clamped(v, rows)
  OBVIOUS
<1>7. w \in Views /\ w.entries = v.entries /\ w.scroll = y
  BY <1>5, <1>6 DEF Views
<1>8. Total(w) = Total(v)
  BY <1>7 DEF Total
<1> QED
  BY <1>1, <1>2, <1>3, <1>4, <1>6, <1>7, <1>8

-----------------------------------------------------------------------------
(* The windows.                                                             *)

LEMMA WidthIs ==
  ASSUME NEW sz \in Sizes
  PROVE  Width(sz) = sz.cols - 2 /\ Window(Width(sz), PromptCols) /\ sz.lines \in Nat
<1>1. sz.cols \in Nat /\ sz.cols >= 6 /\ sz.lines \in Nat
  BY ScreenAssumption DEF ScreenAssumption
<1>2. Max({1, sz.cols - 2}) = IF 1 <= sz.cols - 2 THEN sz.cols - 2 ELSE 1
  BY <1>1, GreaterOf
<1> QED
  BY <1>1, <1>2 DEF Width, PromptCols, Window

LEMMA RowsType ==
  ASSUME NEW s \in Seq(ByteSet), NEW width, NEW prompt, Window(width, prompt)
  PROVE  Rows(s, width, prompt) \in Seq(RowRec)
<1>1. PICK n \in Nat : n = Len(s)
  BY LenProperties
<1>2. PICK r : RowsFrom(r, s, n, width, prompt) /\ Rows(s, width, prompt) = r[0]
  BY <1>1, RowsAre
<1>3. 0 \in 0..(n + 1)
  OBVIOUS
<1> QED
  BY <1>2, <1>3 DEF RowsFrom

LEMMA WindowTypes ==
  ASSUME NEW b, b.buffer \in Seq(ByteSet), NEW sz \in Sizes
  PROVE  /\ InputRows(b, sz) \in Nat \ {0}
         /\ InputRows(b, sz) = LET n == Len(Rows(b.buffer, Width(sz), PromptCols))
                               IN  IF n = 0 THEN 1 ELSE IF kMaxInputRows <= n THEN kMaxInputRows ELSE n
         /\ ChatRows(b, sz) \in Nat \ {0}
<1>1. PICK n \in Nat : n = Len(Rows(b.buffer, Width(sz), PromptCols))
  BY WidthIs, RowsType, LenProperties
<1>2. PICK most \in Nat \ {0} : most = kMaxInputRows
  BY ScreenAssumption DEF ScreenAssumption
<1>3. PICK m \in Nat : m = Min({most, n}) /\ m = IF most <= n THEN most ELSE n
  BY LesserOf
<1>4. PICK i \in Nat : i = Max({1, m}) /\ i = IF 1 <= m THEN m ELSE 1
  BY GreaterOf
<1>5. InputRows(b, sz) = i
  BY <1>1, <1>2, <1>3, <1>4 DEF InputRows, visual_line_count
<1>6. PICK l \in Nat : l = sz.lines
  BY WidthIs
<1>7. PICK x \in Nat : x = Max({3, l - 1 - (i + 2)}) /\ x >= 3
  <2>1. Max({3, l - 1 - (i + 2)}) = IF 3 <= l - 1 - (i + 2) THEN l - 1 - (i + 2) ELSE 3
    BY GreaterOf
  <2> QED
    BY <2>1
<1>8. Max({1, x - 2}) \in Nat \ {0}
  <2>1. Max({1, x - 2}) = IF 1 <= x - 2 THEN x - 2 ELSE 1
    BY GreaterOf
  <2> QED
    BY <1>7, <2>1
<1>9. ChatRows(b, sz) = Max({1, x - 2})
  BY <1>5, <1>6, <1>7 DEF ChatRows
<1> QED
  BY <1>1, <1>2, <1>3, <1>4, <1>5, <1>8, <1>9

-----------------------------------------------------------------------------
(* The prompt edits characters.                                             *)

Text == Decoded(bar.buffer)
Place_ == Len(Decoded(SubSeq(bar.buffer, 1, bar.cursor)))

LEMMA Maps ==
  ASSUME NEW q, NEW k, NEW q2, NEW k2, Stands(bar, q, k), Stands(bar', q2, k2)
  PROVE  /\ q \in Seq(Alphabet) /\ Len(q) \in Nat /\ k \in 0..Len(q)
         /\ Text = q /\ Place_ = k /\ Text' = q2 /\ Place_' = k2
<1>1. Decoded(bar.buffer) = q /\ Len(Decoded(SubSeq(bar.buffer, 1, bar.cursor))) = k
  BY Reads
<1>2. Decoded(bar'.buffer) = q2 /\ Len(Decoded(SubSeq(bar'.buffer, 1, bar'.cursor))) = k2
  BY Reads
<1>3. q \in Seq(Alphabet) /\ Len(q) \in Nat /\ k \in 0..Len(q)
  BY LenProperties DEF Stands
<1> QED
  BY <1>1, <1>2, <1>3 DEF Text, Place_

\* The operators of the libraries are the same on both sides.
LEMMA EditorUses ==
  /\ \A S : Editor!Max(S) = Max(S) /\ Editor!Min(S) = Min(S)
  /\ \A q, i : Editor!RemoveAt(q, i) = RemoveAt(q, i)
BY DEF Editor!Max, Editor!Min, Max, Min, Editor!RemoveAt, RemoveAt

LEMMA EditorLines ==
  ASSUME NEW q, Text = q, NEW p
  PROVE  Editor!Start(p) = StartIn(q, p) /\ Editor!End(p) = EndIn(q, p)
<1>1. Editor!Breaks = {j \in DOMAIN q : q[j] = "nl"}
  BY DEF Editor!Breaks, Text
<1>2. Editor!Start(p) = StartIn(q, p)
  <2>1. Editor!Start(p) = Max({0} \cup {i \in Editor!Breaks : i <= p})
    BY EditorUses DEF Editor!Start
  <2> QED
    BY <1>1, <2>1 DEF StartIn
<1>3. Editor!End(p) = EndIn(q, p)
  <2>1. Editor!End(p) = Min({Len(Text)} \cup {i - 1 : i \in {j \in Editor!Breaks : j > p}})
    BY EditorUses DEF Editor!End, Text
  <2> QED
    BY <1>1, <2>1 DEF EndIn
<1> QED
  BY <1>2, <1>3

MapStep == [Editor!Next]_<<Text, Place_>>

LEMMA SameMaps ==
  ASSUME NEW q, NEW k, Stands(bar, q, k), Stands(bar', q, k)
  PROVE  MapStep
BY Maps DEF MapStep

LEMMA TypeMaps ==
  ASSUME NEW q, NEW k, Stands(bar, q, k), NEW c \in Alphabet,
         Stands(bar', SubSeq(q, 1, k) \o <<c>> \o SubSeq(q, k + 1, Len(q)), k + 1)
  PROVE  MapStep
<1>1. PICK q2 : q2 = SubSeq(q, 1, k) \o <<c>> \o SubSeq(q, k + 1, Len(q))
  OBVIOUS
<1>2. Text = q /\ Place_ = k /\ Text' = q2 /\ Place_' = k + 1
  BY <1>1, Maps
<1>3. Editor!Type(c)
  BY <1>1, <1>2 DEF Editor!Type, Text, Place_
<1> QED
  BY <1>3 DEF MapStep, Editor!Next

LEMMA BackspaceMaps ==
  ASSUME NEW q, NEW k, Stands(bar, q, k), k > 0, Stands(bar', RemoveAt(q, k), k - 1)
  PROVE  MapStep
<1>1. PICK q2 : q2 = RemoveAt(q, k)
  OBVIOUS
<1>2. Text = q /\ Place_ = k /\ Text' = q2 /\ Place_' = k - 1
  BY <1>1, Maps
<1>3. Editor!Backspace
  BY <1>1, <1>2, EditorUses DEF Editor!Backspace, Text, Place_
<1> QED
  BY <1>3 DEF MapStep, Editor!Next

LEMMA DeleteMaps ==
  ASSUME NEW q, NEW k, Stands(bar, q, k), k < Len(q), Stands(bar', RemoveAt(q, k + 1), k)
  PROVE  MapStep
<1>1. PICK q2 : q2 = RemoveAt(q, k + 1)
  OBVIOUS
<1>2. Text = q /\ Place_ = k /\ Text' = q2 /\ Place_' = k
  BY <1>1, Maps
<1>3. Editor!Delete
  BY <1>1, <1>2, EditorUses DEF Editor!Delete, Text, Place_
<1> QED
  BY <1>3 DEF MapStep, Editor!Next

LEMMA EnterMaps ==
  ASSUME NEW q, NEW k, Stands(bar, q, k), bar' = EmptyBar
  PROVE  MapStep
<1>1. Stands(bar', <<>>, 0)
  BY EmptyStands
<1>2. PICK q2 : q2 = <<>>
  OBVIOUS
<1>3. Text' = q2 /\ Place_' = 0
  BY <1>1, <1>2, Maps
<1>4. Editor!Enter
  BY <1>2, <1>3 DEF Editor!Enter, Text, Place_
<1> QED
  BY <1>4 DEF MapStep, Editor!Next

LEMMA SidewaysMaps ==
  ASSUME NEW q, NEW k, Stands(bar, q, k), NEW k2, Stands(bar', q, k2),
         \/ k2 = IF k > 0 THEN k - 1 ELSE 0
         \/ k2 = IF k < Len(q) THEN k + 1 ELSE Len(q)
         \/ k2 = StartIn(q, k) \/ k2 = EndIn(q, k)
  PROVE  MapStep
<1>1. /\ q \in Seq(Alphabet) /\ Len(q) \in Nat /\ k \in 0..Len(q)
      /\ Text = q /\ Place_ = k /\ Text' = q /\ Place_' = k2
  BY Maps
<1>2. PICK n \in Nat : n = Len(q) /\ k \in 0..n
  BY <1>1
<1>3. Editor!Goto(k2)
  BY <1>1 DEF Editor!Goto, Text, Place_
<1>4. CASE k2 = IF k > 0 THEN k - 1 ELSE 0
  <2>1. Max({0, k - 1}) = IF 0 <= k - 1 THEN k - 1 ELSE 0
    BY <1>2, GreaterOf
  <2>2. Max({0, k - 1}) = k2
    BY <1>2, <1>4, <2>1
  <2>3. Max({0, Place_ - 1}) = k2
    BY <1>1, <2>2
  <2>4. Editor!Left
    BY <1>3, <2>3, EditorUses DEF Editor!Left, Place_
  <2> QED
    BY <2>4 DEF MapStep, Editor!Next
<1>5. CASE k2 = IF k < Len(q) THEN k + 1 ELSE Len(q)
  <2>1. Min({n, k + 1}) = IF n <= k + 1 THEN n ELSE k + 1
    BY <1>2, LesserOf
  <2>2. Min({n, k + 1}) = k2
    BY <1>2, <1>5, <2>1
  <2>3. Min({Len(Text), Place_ + 1}) = k2
    BY <1>1, <1>2, <2>2
  <2>4. Editor!Right
    BY <1>3, <2>3, EditorUses DEF Editor!Right, Place_, Text
  <2> QED
    BY <2>4 DEF MapStep, Editor!Next
<1>6. CASE k2 = StartIn(q, k)
  <2>1. Editor!Start(Place_) = k2
    BY <1>1, <1>6, EditorLines
  <2>2. Editor!Home
    BY <1>3, <2>1 DEF Editor!Home, Place_
  <2> QED
    BY <2>2 DEF MapStep, Editor!Next
<1>7. CASE k2 = EndIn(q, k)
  <2>1. Editor!End(Place_) = k2
    BY <1>1, <1>7, EditorLines
  <2>2. Editor!ToEnd
    BY <1>3, <2>1 DEF Editor!ToEnd, Place_
  <2> QED
    BY <2>2 DEF MapStep, Editor!Next
<1> QED
  BY <1>4, <1>5, <1>6, <1>7

LEMMA UpMaps ==
  ASSUME NEW q, NEW k, Stands(bar, q, k), StartIn(q, k) # 0, Stands(bar', q, UpIn(q, k))
  PROVE  MapStep
<1>1. PICK k2 : k2 = UpIn(q, k)
  OBVIOUS
<1>2. /\ q \in Seq(Alphabet) /\ Len(q) \in Nat /\ k \in 0..Len(q)
      /\ Text = q /\ Place_ = k /\ Text' = q /\ Place_' = k2
  BY <1>1, Maps
<1>3. PICK n \in Nat : n = Len(q) /\ k \in 0..n
  BY <1>2
<1>4. PICK x \in 1..k : x = StartIn(q, k)
  <2>1. StartIn(q, k) \in 0..k
    BY <1>2, <1>3, StartIs
  <2> QED
    BY <2>1
<1>5. PICK y \in 0..n : y = x - 1
  BY <1>3
<1>6. PICK z \in 0..y : z = StartIn(q, y)
  BY <1>2, <1>3, StartIs
<1>7. Editor!Start(Place_) = x /\ Editor!Start(y) = z
  BY <1>2, <1>4, <1>6, EditorLines
<1>8. Min({y, z + k - x}) = k2
  <2>1. Min({y, z + k - x}) = IF y <= z + k - x THEN y ELSE z + k - x
    BY <1>3, LesserOf
  <2>2. k2 = IF z + (k - x) <= y THEN z + (k - x) ELSE y
    BY <1>1, <1>4, <1>5, <1>6 DEF UpIn
  <2> QED
    BY <1>3, <2>1, <2>2
<1>9. Editor!Goto(k2)
  BY <1>2 DEF Editor!Goto, Text, Place_
<1>10. Editor!Up
  <2>1. Editor!Start(Place_) > 0 /\ Editor!Start(Place_) - 1 = y
    BY <1>3, <1>5, <1>7
  <2>2. Min({y, Editor!Start(y) + Place_ - Editor!Start(Place_)}) = k2
    BY <1>2, <1>7, <1>8
  <2> QED
    BY <1>9, <2>1, <2>2, EditorUses DEF Editor!Up, Place_
<1> QED
  BY <1>10 DEF MapStep, Editor!Next

LEMMA DownMaps ==
  ASSUME NEW q, NEW k, Stands(bar, q, k), EndIn(q, k) # Len(q), Stands(bar', q, DownIn(q, k))
  PROVE  MapStep
<1>1. PICK k2 : k2 = DownIn(q, k)
  OBVIOUS
<1>2. /\ q \in Seq(Alphabet) /\ Len(q) \in Nat /\ k \in 0..Len(q)
      /\ Text = q /\ Place_ = k /\ Text' = q /\ Place_' = k2
  BY <1>1, Maps
<1>3. PICK n \in Nat : n = Len(q) /\ k \in 0..n
  BY <1>2
<1>4. PICK x \in 0..k : x = StartIn(q, k)
  BY <1>2, <1>3, StartIs
<1>5. PICK e \in 0..n : e = EndIn(q, k) /\ e < n
  <2>1. EndIn(q, k) \in k..n
    BY <1>2, <1>3, EndIs
  <2> QED
    BY <1>3, <2>1
<1>6. PICK y \in 0..n : y = e + 1
  BY <1>5
<1>7. PICK z \in y..n : z = EndIn(q, y)
  BY <1>2, <1>3, EndIs
<1>8. Editor!Start(Place_) = x /\ Editor!End(Place_) = e /\ Editor!End(y) = z
  BY <1>2, <1>4, <1>5, <1>7, EditorLines
<1>9. Min({z, y + k - x}) = k2
  <2>1. Min({z, y + k - x}) = IF z <= y + k - x THEN z ELSE y + k - x
    BY <1>3, LesserOf
  <2>2. k2 = IF y + (k - x) <= z THEN y + (k - x) ELSE z
    BY <1>1, <1>4, <1>5, <1>6, <1>7 DEF DownIn
  <2> QED
    BY <1>3, <2>1, <2>2
<1>10. Editor!Goto(k2)
  BY <1>2 DEF Editor!Goto, Text, Place_
<1>11. Editor!Down
  <2>1. Editor!End(Place_) < Len(Text) /\ Editor!End(Place_) + 1 = y
    BY <1>2, <1>3, <1>5, <1>6, <1>8
  <2>2. Min({Editor!End(y), y + Place_ - Editor!Start(Place_)}) = k2
    BY <1>2, <1>8, <1>9
  <2> QED
    BY <1>10, <2>1, <2>2, EditorUses DEF Editor!Down, Place_, Text
<1> QED
  BY <1>11 DEF MapStep, Editor!Next

-----------------------------------------------------------------------------
(* The invariant.                                                           *)

\* The prompt is of whole characters, the chat is one, and it is not scrolled further
\* back than there is text for.
Held(b, v, sz) ==
  /\ \E q, k : Stands(b, q, k)
  /\ v \in Views /\ v.scroll <= LastFirst(v, b, sz)
  /\ sz \in Sizes

ScreenInv == Held(bar, chat_, size) /\ busy_ \in BOOLEAN

LEMMA StandsBuffer ==
  ASSUME NEW b, NEW q, NEW k, Stands(b, q, k)
  PROVE  b.buffer \in Seq(ByteSet)
<1>1. q \in Seq(Alphabet) /\ b.buffer = Spelled(q)
  BY DEF Stands
<1> QED
  BY <1>1, SpelledType

LEMMA ClampedHeld ==
  ASSUME NEW b, NEW q, NEW k, Stands(b, q, k), NEW v \in Views, NEW sz \in Sizes
  PROVE  Held(b, Clamped(v, ChatRows(b, sz)), sz)
<1>1. PICK rows \in Nat : rows = ChatRows(b, sz)
  BY StandsBuffer, WindowTypes
<1>2. PICK w : w = Clamped(v, rows)
  OBVIOUS
<1>3. /\ w \in Views /\ Total(w) = Total(v) /\ Total(v) \in Nat
      /\ w.scroll = IF v.scroll <= Max({0, Total(v) - rows}) THEN v.scroll
                    ELSE Max({0, Total(v) - rows})
      /\ Max({0, Total(v) - rows}) = IF 0 <= Total(v) - rows THEN Total(v) - rows ELSE 0
  BY <1>2, ClampedIs
<1>4. PICK most \in Nat : most = Max({0, Total(v) - rows})
  BY <1>3
<1>5. v.scroll \in Nat
  BY DEF Views
<1>6. w.scroll <= most
  BY <1>3, <1>4, <1>5
<1>7. LastFirst(w, b, sz) = most
  BY <1>1, <1>3, <1>4 DEF LastFirst
<1> QED
  BY <1>1, <1>2, <1>3, <1>6, <1>7 DEF Held

\* What every key does in the end.
LEMMA FrameHeld ==
  ASSUME NEW b, NEW q, NEW k, Stands(b, q, k), NEW v \in Views, NEW sz \in Sizes,
         Frame(b, v, sz), busy_' \in BOOLEAN
  PROVE  ScreenInv' /\ bar' = b
<1>1. bar' = b /\ chat_' = Clamped(v, ChatRows(b, sz)) /\ size' = sz
  BY DEF Frame
<1>2. Held(bar', chat_', size')
  BY <1>1, ClampedHeld
<1> QED
  BY <1>1, <1>2 DEF ScreenInv

LEMMA EditsHeld ==
  ASSUME ScreenInv, NEW b, NEW q, NEW k, Stands(b, q, k), Edits(b)
  PROVE  ScreenInv' /\ Stands(bar', q, k)
<1>1. chat_ \in Views /\ size \in Sizes /\ busy_' \in BOOLEAN /\ Frame(b, chat_, size)
  BY DEF ScreenInv, Held, Edits
<1> QED
  BY <1>1, FrameHeld

LEMMA ShowsHeld ==
  ASSUME ScreenInv, NEW v \in Views, Shows(v)
  PROVE  ScreenInv' /\ MapStep
<1>1. size \in Sizes /\ busy_' \in BOOLEAN /\ Frame(bar, v, size)
  BY DEF ScreenInv, Held, Shows
<1>2. PICK q, k : Stands(bar, q, k)
  BY DEF ScreenInv, Held
<1>3. ScreenInv' /\ bar' = bar
  BY <1>1, <1>2, FrameHeld
<1> QED
  BY <1>2, <1>3, SameMaps

LEMMA Saids == (\E sp \in Said : sp = "") /\ (\E sp \in Said : sp = "> ") /\ (\E sp \in Said : sp = "* ")
BY Zenon DEF Said

LEMMA AddsType ==
  ASSUME NEW v \in Views, NEW text \in Seq(Nat), NEW sp \in Said
  PROVE  /\ add(v, sp, text) \in Views /\ add_preformatted(v, text) \in Views
         /\ add_thinking(v) \in Views /\ add_tool_output(v, text) \in Views
<1>1. PICK none \in Said : none = ""
  BY Saids
<1>2. PICK empty \in Seq(Nat) : empty = <<>>
  BY EmptySeq
<1>3. /\ "Normal" \in Kinds /\ "Preformatted" \in Kinds /\ "Thinking" \in Kinds /\ "Tool" \in Kinds
      /\ TRUE \in BOOLEAN /\ FALSE \in BOOLEAN
  BY DEF Kinds
<1>4. add(v, sp, text) \in Views
  BY <1>3, PushType DEF add
<1>5. add_preformatted(v, text) \in Views
  <2>1. Push(v, "Preformatted", none, text, FALSE) \in Views
    BY <1>3, PushType
  <2> QED
    BY <1>1, <2>1, Zenon DEF add_preformatted
<1>6. add_thinking(v) \in Views
  <2>1. Push(v, "Thinking", none, empty, FALSE) \in Views
    BY <1>3, PushType
  <2> QED
    BY <1>1, <1>2, <2>1, Zenon DEF add_thinking
<1>7. add_tool_output(v, text) \in Views
  <2>1. Push(v, "Tool", none, text, TRUE) \in Views
    BY <1>3, PushType
  <2> QED
    BY <1>1, <2>1, Zenon DEF add_tool_output
<1> QED
  BY <1>4, <1>5, <1>6, <1>7

LEMMA ScrollsType ==
  ASSUME NEW v \in Views, NEW lines \in Nat
  PROVE  /\ scroll_up(v, lines) \in Views /\ scroll_down(v, lines) \in Views
         /\ scroll_to_top(v) \in Views /\ scroll_to_bottom(v) \in Views
<1>1. v.scroll \in Nat
  BY DEF Views
<1>2. scroll_up(v, lines) \in Views
  <2>1. PICK m \in Nat : m = v.scroll + lines
    BY <1>1
  <2> QED
    BY <2>1, ScrollType DEF scroll_up
<1>3. scroll_down(v, lines) \in Views
  <2>1. Max({0, v.scroll - lines}) = IF 0 <= v.scroll - lines THEN v.scroll - lines ELSE 0
    BY <1>1, GreaterOf
  <2>2. PICK m \in Nat : m = Max({0, v.scroll - lines})
    BY <1>1, <2>1
  <2> QED
    BY <2>2, ScrollType DEF scroll_down
<1>4. scroll_to_top(v) \in Views
  <2>1. PICK m \in Nat : m = 2^30 - 1
    OBVIOUS
  <2> QED
    BY <2>1, ScrollType DEF scroll_to_top
<1>5. scroll_to_bottom(v) \in Views
  BY ScrollType DEF scroll_to_bottom
<1> QED
  BY <1>2, <1>3, <1>4, <1>5

LEMMA Page ==
  ASSUME ScreenInv
  PROVE  Max({1, Rows_ - 1}) \in Nat
<1>1. PICK q, k : Stands(bar, q, k)
  BY DEF ScreenInv, Held
<1>2. PICK rows \in Nat : rows = Rows_
  BY <1>1, StandsBuffer, WindowTypes DEF Rows_, ScreenInv, Held
<1>3. Max({1, rows - 1}) = IF 1 <= rows - 1 THEN rows - 1 ELSE 1
  BY GreaterOf
<1> QED
  BY <1>2, <1>3

LEMMA InitHeld == Init => ScreenInv
<1> SUFFICES ASSUME Init PROVE ScreenInv
  OBVIOUS
<1>1. bar = EmptyBar /\ chat_ = add_preformatted(EmptyView, <<1, 2>>) /\ size \in Sizes /\ busy_ = FALSE
  BY DEF Init
<1>2. Stands(bar, <<>>, 0)
  BY <1>1, EmptyStands
<1>3. EmptyView \in Views
  BY EmptySeq DEF EmptyView, Views
<1>4. PICK none \in Said : TRUE
  BY Saids
<1>5. <<1, 2>> \in Seq(Nat)
  OBVIOUS
<1>6. chat_ \in Views
  BY <1>1, <1>3, <1>4, <1>5, AddsType
<1>7. chat_.scroll = 0
  BY <1>1 DEF add_preformatted, Push
<1>8. LastFirst(chat_, bar, size) \in Nat
  <2>1. PICK rows \in Nat : rows = ChatRows(bar, size)
    BY <1>1, <1>2, StandsBuffer, WindowTypes
  <2>2. Total(chat_) \in Nat
    BY <1>6, TotalType
  <2>3. Max({0, Total(chat_) - rows}) = IF 0 <= Total(chat_) - rows THEN Total(chat_) - rows ELSE 0
    BY <2>2, GreaterOf
  <2> QED
    BY <2>1, <2>2, <2>3 DEF LastFirst
<1>9. \E q, k : Stands(bar, q, k)
  BY <1>2
<1>10. chat_.scroll <= LastFirst(chat_, bar, size)
  BY <1>7, <1>8
<1>11. size \in Sizes /\ busy_ \in BOOLEAN
  BY <1>1
<1> QED
  BY ONLY <1>6, <1>9, <1>10, <1>11 DEF ScreenInv, Held

\* Every step keeps the invariant, and is a step of the editor of characters.
LEMMA StepHeld ==
  ASSUME ScreenInv, Next
  PROVE  ScreenInv' /\ MapStep
<1>1. PICK q, k : Stands(bar, q, k)
  BY DEF ScreenInv, Held
<1>2. chat_ \in Views /\ size \in Sizes /\ busy_ \in BOOLEAN
  BY DEF ScreenInv, Held
<1>3. Len(q) \in Nat /\ k \in 0..Len(q)
  BY <1>1, LenProperties DEF Stands
<1>4. ASSUME NEW c \in Alphabet, Edits(insert(bar, encode(c))) PROVE ScreenInv' /\ MapStep
  BY <1>1, <1>4, InsertStands, EditsHeld, TypeMaps
<1>5. CASE Character
  <2>1. PICK c \in Typed : Edits(insert(bar, encode(c)))
    BY <1>5 DEF Character
  <2>2. c \in Alphabet
    BY ScreenAssumption DEF ScreenAssumption
  <2> QED
    BY <1>4, <2>1, <2>2
<1>6. CASE AltEnter
  <2>1. "nl" \in Alphabet
    BY DEF Alphabet
  <2> QED
    BY <1>4, <1>6, <2>1 DEF AltEnter
<1>7. CASE Backspace
  <2>1. bar.cursor > 0 /\ Edits(backspace(bar))
    BY <1>7 DEF Backspace
  <2>2. k > 0 /\ Stands(backspace(bar), RemoveAt(q, k), k - 1)
    BY <1>1, <2>1, BackspaceStands
  <2> QED
    BY <1>1, <2>1, <2>2, EditsHeld, BackspaceMaps
<1>8. CASE Delete
  <2>1. bar.cursor < Len(bar.buffer) /\ Edits(delete(bar))
    BY <1>8 DEF Delete
  <2>2. k < Len(q) /\ Stands(delete(bar), RemoveAt(q, k + 1), k)
    BY <1>1, <2>1, DeleteStands
  <2> QED
    BY <1>1, <2>1, <2>2, EditsHeld, DeleteMaps
<1>9. CASE Enter
  <2>1. PICK sp \in Said : sp = "> "
    BY Saids
  <2>2. PICK v : v = add(chat_, sp, <<1>>)
    OBVIOUS
  <2>3. Frame(EmptyBar, v, size) /\ busy_' = TRUE
    BY <1>9, <2>1, <2>2, Zenon DEF Enter
  <2>4. <<1>> \in Seq(Nat)
    OBVIOUS
  <2>5. v \in Views
    BY <1>2, <2>2, <2>4, AddsType
  <2>6. Stands(EmptyBar, <<>>, 0)
    BY EmptyStands
  <2>7. ScreenInv' /\ bar' = EmptyBar
    BY <1>2, <2>3, <2>5, <2>6, FrameHeld
  <2> QED
    BY <1>1, <2>7, EnterMaps
<1>10. CASE KeyUp
  <2>1. CASE Editing
    <3>1. Edits(up(bar))
      BY <1>10, <2>1 DEF KeyUp
    <3>2. CASE StartIn(q, k) = 0
      BY <1>1, <3>1, <3>2, UpStands, EditsHeld, SameMaps
    <3>3. CASE StartIn(q, k) # 0
      BY <1>1, <3>1, <3>3, UpStands, EditsHeld, UpMaps
    <3> QED
      BY <3>2, <3>3
  <2>2. CASE ~Editing
    BY <1>2, <1>10, <2>2, ScrollsType, ShowsHeld DEF KeyUp
  <2> QED
    BY <2>1, <2>2
<1>11. CASE KeyDown
  <2>1. CASE Editing
    <3>1. Edits(down(bar))
      BY <1>11, <2>1 DEF KeyDown
    <3>2. CASE EndIn(q, k) = Len(q)
      BY <1>1, <3>1, <3>2, DownStands, EditsHeld, SameMaps
    <3>3. CASE EndIn(q, k) # Len(q)
      BY <1>1, <3>1, <3>3, DownStands, EditsHeld, DownMaps
    <3> QED
      BY <3>2, <3>3
  <2>2. CASE ~Editing
    BY <1>2, <1>11, <2>2, ScrollsType, ShowsHeld DEF KeyDown
  <2> QED
    BY <2>1, <2>2
<1>12. CASE KeyLeft
  <2>1. PICK k2 : k2 = (IF k > 0 THEN k - 1 ELSE 0) /\ Stands(left(bar), q, k2)
    BY <1>1, SidewaysStands
  <2>2. Edits(left(bar))
    BY <1>12 DEF KeyLeft
  <2>3. ScreenInv' /\ Stands(bar', q, k2)
    BY <2>1, <2>2, EditsHeld
  <2> QED
    BY <1>1, <2>1, <2>3, SidewaysMaps
<1>13. CASE KeyRight
  <2>1. PICK k2 : k2 = (IF k < Len(q) THEN k + 1 ELSE Len(q)) /\ Stands(right(bar), q, k2)
    BY <1>1, SidewaysStands
  <2>2. Edits(right(bar))
    BY <1>13 DEF KeyRight
  <2>3. ScreenInv' /\ Stands(bar', q, k2)
    BY <2>1, <2>2, EditsHeld
  <2> QED
    BY <1>1, <2>1, <2>3, SidewaysMaps
<1>14. CASE KeyHome
  <2>1. CASE Editing
    <3>1. PICK k2 : k2 = StartIn(q, k) /\ Stands(home(bar), q, k2)
      BY <1>1, SidewaysStands
    <3>2. Edits(home(bar))
      BY <1>14, <2>1 DEF KeyHome
    <3>3. ScreenInv' /\ Stands(bar', q, k2)
      BY <3>1, <3>2, EditsHeld
    <3> QED
      BY <1>1, <3>1, <3>3, SidewaysMaps
  <2>2. CASE ~Editing
    <3>1. 1 \in Nat
      OBVIOUS
    <3> QED
      BY <1>2, <1>14, <2>2, <3>1, ScrollsType, ShowsHeld DEF KeyHome
  <2> QED
    BY <2>1, <2>2
<1>15. CASE KeyEnd
  <2>1. CASE Editing
    <3>1. PICK k2 : k2 = EndIn(q, k) /\ Stands(end(bar), q, k2)
      BY <1>1, SidewaysStands
    <3>2. Edits(end(bar))
      BY <1>15, <2>1 DEF KeyEnd
    <3>3. ScreenInv' /\ Stands(bar', q, k2)
      BY <3>1, <3>2, EditsHeld
    <3> QED
      BY <1>1, <3>1, <3>3, SidewaysMaps
  <2>2. CASE ~Editing
    <3>1. 1 \in Nat
      OBVIOUS
    <3> QED
      BY <1>2, <1>15, <2>2, <3>1, ScrollsType, ShowsHeld DEF KeyEnd
  <2> QED
    BY <2>1, <2>2
<1>16. CASE PageUp \/ PageDown
  <2>1. Max({1, Rows_ - 1}) \in Nat
    BY Page
  <2>2. scroll_page_up(chat_, Rows_) \in Views /\ scroll_page_down(chat_, Rows_) \in Views
    BY <1>2, <2>1, ScrollsType DEF scroll_page_up, scroll_page_down
  <2> QED
    BY <1>16, <2>2, ShowsHeld DEF PageUp, PageDown
<1>17. CASE WheelUp \/ WheelDown
  BY <1>2, <1>17, ScrollsType, ShowsHeld DEF WheelUp, WheelDown
<1>18. CASE Tab
  BY <1>2, <1>18, ToggleType, ShowsHeld DEF Tab
<1>19. CASE Reply
  <2>1. PICK sp \in Said : sp = "* "
    BY Saids
  <2>2. PICK one \in Seq(Nat) : one = <<1>>
    <3>1. <<1>> \in Seq(Nat)
      OBVIOUS
    <3> QED
      BY <3>1
  <2>3. PICK two \in Seq(Nat) : two = <<1, 2>>
    <3>1. <<1, 2>> \in Seq(Nat)
      OBVIOUS
    <3> QED
      BY <3>1
  <2>4. PICK none \in Seq(Nat) : none = <<>>
    BY EmptySeq
  <2>5. PICK n : n = Len(chat_.entries) + 1
    OBVIOUS
  <2>6. PICK v \in Views : busy_' = busy_ /\ Frame(bar, v, size)
    <3>1. \/ Frame(bar, append_to(add_thinking(chat_), n, one), size)
          \/ Frame(bar, add_tool_output(chat_, two), size)
          \/ Frame(bar, append_to(add(chat_, sp, none), n, two), size)
      BY <1>19, <2>1, <2>2, <2>3, <2>4, <2>5, Zenon DEF Reply
    <3>2. busy_' = busy_
      BY <1>19, Zenon DEF Reply
    <3>3. /\ append_to(add_thinking(chat_), n, one) \in Views
          /\ add_tool_output(chat_, two) \in Views
          /\ append_to(add(chat_, sp, none), n, two) \in Views
      BY <1>2, AddsType, AppendToType
    <3> QED
      BY <3>1, <3>2, <3>3
  <2>7. ScreenInv' /\ bar' = bar
    BY <1>1, <1>2, <2>6, FrameHeld
  <2> QED
    BY <1>1, <2>7, SameMaps
<1>20. CASE Finish
  <2>1. ScreenInv' /\ bar' = bar
    BY <1>1, <1>2, <1>20, FrameHeld DEF Finish
  <2> QED
    BY <1>1, <2>1, SameMaps
<1>21. CASE Resize
  <2>1. PICK sz \in Sizes : Frame(bar, chat_, sz) /\ busy_' = busy_
    BY <1>21 DEF Resize
  <2>2. ScreenInv' /\ bar' = bar
    BY <1>1, <1>2, <2>1, FrameHeld
  <2> QED
    BY <1>1, <2>2, SameMaps
<1> QED
  BY <1>5, <1>6, <1>7, <1>8, <1>9, <1>10, <1>11, <1>12, <1>13, <1>14, <1>15, <1>16, <1>17,
     <1>18, <1>19, <1>20, <1>21 DEF Next

LEMMA ScreenInductive == ScreenInv /\ [Next]_vars => ScreenInv' /\ MapStep
<1> SUFFICES ASSUME ScreenInv, [Next]_vars PROVE ScreenInv' /\ MapStep
  OBVIOUS
<1>1. CASE Next
  BY <1>1, StepHeld
<1>2. CASE UNCHANGED vars
  <2>1. bar' = bar /\ chat_' = chat_ /\ size' = size /\ busy_' = busy_
    BY <1>2 DEF vars
  <2>2. PICK q, k : Stands(bar, q, k)
    BY DEF ScreenInv, Held
  <2>3. ScreenInv'
    BY <2>1 DEF ScreenInv, Held, LastFirst
  <2> QED
    BY <2>1, <2>2, <2>3, SameMaps
<1> QED
  BY <1>1, <1>2

\* Whatever is typed, scrolled and resized, the prompt spells a text, its cursor stands
\* between two characters of it, and the frame leaves the chat scrolled no further than it
\* is long (InputBar.cpp:20-118, ChatView.cpp:149-176).
THEOREM ScreenSafe == Spec => []ScreenInv
BY InitHeld, ScreenInductive, PTL DEF Spec

LEMMA ScreenInvType == ScreenInv => TypeOK
<1> SUFFICES ASSUME ScreenInv PROVE TypeOK
  OBVIOUS
<1>1. PICK q, k : Stands(bar, q, k)
  BY DEF ScreenInv, Held
<1>2. bar.buffer = Encoded(Decoded(bar.buffer))
  BY <1>1, Reads
<1>3. bar.cursor \in Boundaries
  <2>1. PICK n, off : /\ n \in Nat /\ n = Len(q) /\ k \in 0..n /\ off = Offsets(q)
                      /\ Laid(bar.buffer, q, n, off) /\ bar.cursor = off[k]
    BY <1>1, StandsLaid
  <2>2. bar.cursor \in 0..Len(bar.buffer)
    BY <2>1, OffsetsOrder
  <2>3. bar.cursor = Len(bar.buffer) \/ ~is_cont(bar.buffer[bar.cursor + 1])
    <3>1. CASE k = n
      BY <2>1, <3>1, OffsetsStep
    <3>2. CASE k # n
      <4>1. k < n
        BY <2>1, <3>2
      <4> QED
        BY <2>1, <4>1, HeadAt
    <3> QED
      BY <3>1, <3>2
  <2> QED
    BY <2>2, <2>3 DEF Boundaries
<1>4. chat_.scroll \in Nat /\ \A i \in DOMAIN chat_.entries : chat_.entries[i].kind \in Kinds
  <2>1. PICK es \in Seq(Entry) : es = chat_.entries
    BY DEF ScreenInv, Held, Views
  <2>2. \A i \in DOMAIN es : es[i] \in Entry
    BY LenProperties, ElementOfSeq
  <2>3. \A i \in DOMAIN es : es[i].kind \in Kinds
    BY <2>2 DEF Entry
  <2>4. chat_.scroll \in Nat
    BY DEF ScreenInv, Held, Views
  <2> QED
    BY <2>1, <2>3, <2>4
<1> QED
  BY <1>2, <1>3, <1>4 DEF TypeOK, ScreenInv, Held

\* The buffer is whole characters and the cursor never stands inside one, for every
\* sequence of keys (Utf8.cpp:33-44, InputBar.cpp:20-118).
THEOREM ScreenTypes == Spec => []TypeOK
BY ScreenSafe, ScreenInvType, PTL

LEMMA InitMaps == Init => Editor!Init
<1> SUFFICES ASSUME Init PROVE Editor!Init
  OBVIOUS
<1>1. bar = EmptyBar
  BY DEF Init
<1>2. Stands(bar, <<>>, 0)
  BY <1>1, EmptyStands
<1>3. PICK q : q = <<>>
  OBVIOUS
<1>4. Decoded(bar.buffer) = q /\ Len(Decoded(SubSeq(bar.buffer, 1, bar.cursor))) = 0
  BY <1>2, <1>3, Reads
<1> QED
  BY <1>3, <1>4 DEF Editor!Init

\* The bytes implement the editor of characters: a key that edits or moves does to the
\* characters what TextEditor does, or nothing (InputBar.cpp:31-123).
THEOREM ScreenEdits == Spec => EditsCharacters
<1>1. ScreenInv /\ [Next]_vars =>
        [Editor!Next]_<<Decoded(bar.buffer), Len(Decoded(SubSeq(bar.buffer, 1, bar.cursor)))>>
  BY ScreenInductive DEF MapStep, Text, Place_
<1> QED
  BY <1>1, ScreenSafe, InitMaps, PTL DEF Spec, EditsCharacters, Editor!Spec

-----------------------------------------------------------------------------
(* The wheel.                                                               *)

LEMMA FirstVisibleIs ==
  ASSUME NEW v \in Views, NEW rows \in Nat, NEW most, most = Max({0, Total(v) - rows})
  PROVE  /\ most \in Nat /\ v.scroll \in Nat /\ Total(Clamped(v, rows)) = Total(v)
         /\ Clamped(v, rows) \in Views
         /\ Clamped(v, rows).scroll = IF v.scroll <= most THEN v.scroll ELSE most
         /\ FirstVisible(v, rows) = most - Clamped(v, rows).scroll
<1>1. PICK t \in Nat : t = Total(v)
  BY TotalType
<1>2. most = IF 0 <= t - rows THEN t - rows ELSE 0
  BY <1>1, ClampedIs
<1>3. PICK x \in Nat : x = v.scroll
  BY DEF Views
<1>4. PICK y \in Nat : y = Clamped(v, rows).scroll /\ y = IF x <= most THEN x ELSE most
  <2>1. Clamped(v, rows).scroll = IF v.scroll <= most THEN v.scroll ELSE most
    BY ClampedIs
  <2>2. most \in Nat
    BY <1>1, <1>2
  <2> QED
    BY <1>3, <2>1, <2>2
<1>5. Max({0, t - rows - y}) = IF 0 <= t - rows - y THEN t - rows - y ELSE 0
  BY GreaterOf
<1>6. FirstVisible(v, rows) = Max({0, t - rows - y})
  BY <1>1, <1>4 DEF FirstVisible
<1>7. FirstVisible(v, rows) = most - y
  BY <1>2, <1>4, <1>5, <1>6
<1> QED
  BY <1>2, <1>3, <1>4, <1>7, ClampedIs

LEMMA WheelStep ==
  ASSUME ScreenInv, NEW v \in Views, v.entries = chat_.entries, Shows(v)
  PROVE  \E most, x, y \in Nat :
           /\ x = chat_.scroll /\ x <= most /\ y = IF v.scroll <= most THEN v.scroll ELSE most
           /\ LastFirst(chat_, bar, size) = most
           /\ Shown(chat_, bar, size) = most - x
           /\ Shown(chat_', bar', size') = most - y
<1>1. PICK q, k : Stands(bar, q, k)
  BY DEF ScreenInv, Held
<1>2. chat_ \in Views /\ size \in Sizes /\ chat_.scroll <= LastFirst(chat_, bar, size)
  BY DEF ScreenInv, Held
<1>3. PICK rows \in Nat : rows = ChatRows(bar, size)
  BY <1>1, <1>2, StandsBuffer, WindowTypes
<1>4. PICK most : most = Max({0, Total(chat_) - rows})
  OBVIOUS
<1>5. Total(v) = Total(chat_)
  BY DEF Total
<1>6. most \in Nat /\ most = LastFirst(chat_, bar, size)
  <2>1. most \in Nat
    BY <1>2, <1>4, FirstVisibleIs
  <2>2. most = LastFirst(chat_, bar, size)
    BY <1>3, <1>4 DEF LastFirst
  <2> QED
    BY <2>1, <2>2
<1>7. PICK x \in Nat : x = chat_.scroll /\ x <= most
  BY <1>2, <1>6 DEF Views
<1>8. Shown(chat_, bar, size) = most - x
  <2>1. /\ FirstVisible(chat_, rows) = most - Clamped(chat_, rows).scroll
        /\ Clamped(chat_, rows).scroll = IF chat_.scroll <= most THEN chat_.scroll ELSE most
    BY <1>2, <1>4, FirstVisibleIs
  <2>2. Clamped(chat_, rows).scroll = x
    BY <1>7, <2>1
  <2> QED
    BY <1>3, <2>1, <2>2 DEF Shown
<1>9. PICK w \in Views : w = Clamped(v, rows)
  BY <1>4, <1>5, FirstVisibleIs
<1>10. PICK z \in Nat : z = v.scroll
  BY DEF Views
<1>11. PICK y \in Nat : y = w.scroll /\ y <= most /\ y = IF z <= most THEN z ELSE most
  <2>1. w.scroll = IF v.scroll <= most THEN v.scroll ELSE most
    BY <1>4, <1>5, <1>9, FirstVisibleIs
  <2> QED
    BY <1>6, <1>9, <1>10, <2>1 DEF Views
<1>12. Shown(chat_', bar', size') = most - y
  <2>1. chat_' = w /\ bar' = bar /\ size' = size
    BY <1>3, <1>9 DEF Shows, Frame
  <2>2. Total(w) = Total(chat_)
    BY <1>4, <1>5, <1>9, FirstVisibleIs
  <2>3. /\ FirstVisible(w, rows) = most - Clamped(w, rows).scroll
        /\ Clamped(w, rows).scroll = IF w.scroll <= most THEN w.scroll ELSE most
    BY <1>4, <1>9, <2>2, FirstVisibleIs
  <2>4. Clamped(w, rows).scroll = y
    BY <1>11, <2>3
  <2>5. Shown(w, bar, size) = most - y
    BY <1>3, <2>3, <2>4 DEF Shown
  <2> QED
    BY <2>1, <2>5
<1> QED
  BY <1>6, <1>7, <1>8, <1>10, <1>11, <1>12

LEMMA WheelDownMoves ==
  ASSUME ScreenInv, WheelDown
  PROVE  Shown(chat_', bar', size') =
           Min({LastFirst(chat_, bar, size), Shown(chat_, bar, size) + 3})
<1>1. chat_ \in Views
  BY DEF ScreenInv, Held
<1>2. PICK v \in Views : v = scroll_down(chat_, 3) /\ Shows(v)
  BY <1>1, ScrollsType DEF WheelDown
<1>3. v.entries = chat_.entries /\ v.scroll = Max({0, chat_.scroll - 3})
  BY <1>1, <1>2 DEF scroll_down, Views
<1>4. PICK most, x, y \in Nat :
           /\ x = chat_.scroll /\ x <= most /\ y = IF v.scroll <= most THEN v.scroll ELSE most
           /\ LastFirst(chat_, bar, size) = most
           /\ Shown(chat_, bar, size) = most - x
           /\ Shown(chat_', bar', size') = most - y
  BY <1>2, <1>3, WheelStep
<1>5. v.scroll = IF 0 <= x - 3 THEN x - 3 ELSE 0
  BY <1>3, <1>4, GreaterOf
<1>6. Min({most, most - x + 3}) = IF most <= most - x + 3 THEN most ELSE most - x + 3
  BY LesserOf
<1>7. most - y = Min({most, most - x + 3})
  BY <1>4, <1>5, <1>6
<1> QED
  BY <1>4, <1>7

LEMMA WheelUpMoves ==
  ASSUME ScreenInv, WheelUp
  PROVE  Shown(chat_', bar', size') = Max({0, Shown(chat_, bar, size) - 3})
<1>1. chat_ \in Views
  BY DEF ScreenInv, Held
<1>2. PICK v \in Views : v = scroll_up(chat_, 3) /\ Shows(v)
  BY <1>1, ScrollsType DEF WheelUp
<1>3. v.entries = chat_.entries /\ v.scroll = chat_.scroll + 3
  BY <1>1, <1>2 DEF scroll_up, Views
<1>4. PICK most, x, y \in Nat :
           /\ x = chat_.scroll /\ x <= most /\ y = IF v.scroll <= most THEN v.scroll ELSE most
           /\ LastFirst(chat_, bar, size) = most
           /\ Shown(chat_, bar, size) = most - x
           /\ Shown(chat_', bar', size') = most - y
  BY <1>2, <1>3, WheelStep
<1>5. v.scroll = x + 3
  BY <1>3, <1>4
<1>6. Max({0, most - x - 3}) = IF 0 <= most - x - 3 THEN most - x - 3 ELSE 0
  BY GreaterOf
<1>7. most - y = Max({0, most - x - 3})
  BY <1>4, <1>5, <1>6
<1> QED
  BY <1>4, <1>7

\* A turn of the wheel moves the text, however long the chat and however far it was
\* turned before: no turns are lost behind an end (ChatView.hpp:70-72).
THEOREM ScreenWheel == Spec => WheelMoves
<1>1. ScreenInv /\ [Next]_vars =>
        [/\ WheelDown =>
              Shown(chat_', bar', size') =
                Min({LastFirst(chat_, bar, size), Shown(chat_, bar, size) + 3})
         /\ WheelUp =>
              Shown(chat_', bar', size') = Max({0, Shown(chat_, bar, size) - 3})]_vars
  BY WheelDownMoves, WheelUpMoves
<1> QED
  BY <1>1, ScreenSafe, PTL DEF Spec, WheelMoves

-----------------------------------------------------------------------------
(* The rows of a text, in characters.                                       *)

ColumnAt(c, prompt) == IF c = 0 THEN prompt ELSE 0

\* Where the row that begins at c stops, and where the next one begins.
StopAt(q, c, width, prompt) ==
  LET full == c + (width - 1 - ColumnAt(c, prompt))
  IN  IF full <= EndIn(q, c) THEN full ELSE EndIn(q, c)

AfterRow(q, c, width, prompt) ==
  LET stop == StopAt(q, c, width, prompt)
  IN  IF stop < EndIn(q, c) THEN stop ELSE stop + 1

\* What is known of both: a row takes what fits the window, and something unless its
\* line is empty.
RowEnds(q, n, c, width, prompt, e, t, z) ==
  /\ e = EndIn(q, c) /\ e \in c..n /\ (e # n => q[e + 1] = "nl")
  /\ t = StopAt(q, c, width, prompt) /\ t \in c..e /\ (c < e => c < t)
  /\ ColumnAt(c, prompt) \in Nat /\ ColumnAt(c, prompt) + (t - c) < width
  /\ z = AfterRow(q, c, width, prompt) /\ z \in c + 1..n + 1
  /\ (t < e => z = t) /\ (t = e => z = e + 1)

LEMMA RowEndsAt ==
  ASSUME NEW q \in Seq(Alphabet), NEW n \in Nat, n = Len(q), NEW c \in 0..n,
         NEW width, NEW prompt, Window(width, prompt)
  PROVE  \E e, t, z \in Nat : RowEnds(q, n, c, width, prompt, e, t, z)
<1>1. PICK e \in c..n : e = EndIn(q, c) /\ (e # n => q[e + 1] = "nl")
  BY EndIs
<1>2. PICK o \in Nat : o = ColumnAt(c, prompt) /\ width \in Nat /\ width > o + 1
  BY DEF ColumnAt, Window
<1>3. PICK m \in Nat : m = width - 1 - o /\ m >= 1
  BY <1>2
<1>4. PICK t \in Nat : t = IF c + m <= e THEN c + m ELSE e
  OBVIOUS
<1>5. t = StopAt(q, c, width, prompt)
  BY <1>1, <1>2, <1>3, <1>4 DEF StopAt
<1>6. t \in c..e /\ (c < e => c < t) /\ o + (t - c) < width
  <2>1. c \in Nat /\ e \in Nat /\ c <= e
    BY <1>1
  <2>2. CASE c + m <= e
    <3>1. t = c + m /\ t - c = m
      BY <1>4, <2>1, <2>2
    <3>2. o + m < width
      BY <1>2, <1>3
    <3>3. t \in c..e /\ c < t
      BY <1>3, <2>1, <2>2, <3>1
    <3> QED
      BY <3>1, <3>2, <3>3
  <2>3. CASE ~(c + m <= e)
    BY ONLY <1>2, <1>3, <1>4, <2>1, <2>3
  <2> QED
    BY <2>2, <2>3
<1>7. PICK z \in Nat : z = IF t < e THEN t ELSE t + 1
  OBVIOUS
<1>8. z = AfterRow(q, c, width, prompt)
  BY <1>1, <1>5, <1>7 DEF AfterRow
<1>9. z \in c + 1..n + 1 /\ (t < e => z = t) /\ (t = e => z = e + 1)
  BY <1>6, <1>7
<1>10. e \in Nat
  BY <1>1
<1> QED
  BY <1>1, <1>2, <1>5, <1>6, <1>8, <1>9, <1>10 DEF RowEnds

RowOf(row, q, off, c, width, prompt) ==
  row = [from |-> off[c], to |-> off[StopAt(q, c, width, prompt)], col0 |-> ColumnAt(c, prompt)]

\* The bytes at which a row begins and stops, and the next begins.
LEMMA RowAt ==
  ASSUME NEW s, NEW q, NEW n, NEW off, Laid(s, q, n, off), NEW c \in 0..n,
         NEW width, NEW prompt, Window(width, prompt)
  PROVE  /\ RowOf(Row(s, off[c], width, prompt), q, off, c, width, prompt)
         /\ AfterRow(q, c, width, prompt) \in 0..n =>
              Onto(s, off[c], width, prompt) = off[AfterRow(q, c, width, prompt)]
         /\ AfterRow(q, c, width, prompt) = n + 1 =>
              Onto(s, off[c], width, prompt) = Len(s) + 1
<1>1. n \in Nat /\ q \in Seq(Alphabet) /\ n = Len(q) /\ off[n] = Len(s) /\ off[0] = 0
  BY OffsetsStep
<1>2. PICK e, t, z \in Nat : RowEnds(q, n, c, width, prompt, e, t, z)
  BY <1>1, RowEndsAt
<1>3. /\ e = EndIn(q, c) /\ e \in c..n /\ (e # n => q[e + 1] = "nl")
      /\ t = StopAt(q, c, width, prompt) /\ t \in c..e
      /\ z = AfterRow(q, c, width, prompt)
      /\ (t < e => z = t) /\ (t = e => z = e + 1)
  BY <1>2 DEF RowEnds
<1>4. e \in 0..n /\ t \in 0..n /\ 0 \in 0..n /\ c <= e
  BY <1>1, <1>3
<1>5. line_end(s, off[c]) = off[e]
  BY <1>3, EndAt
<1>6. off[c] = 0 <=> c = 0
  BY <1>1, <1>4, OffsetsOrder
<1>7. PICK o : o = ColumnAt(c, prompt) /\ o = IF off[c] = 0 THEN prompt ELSE 0
  BY <1>6 DEF ColumnAt
<1>8. PICK m \in Nat : m = Budget(width, o) /\ m = width - 1 - o
  <2>1. o \in 0..prompt
    BY <1>7 DEF Window
  <2> QED
    BY <2>1, BudgetIs
<1>9. Walk(s, off[c], m, off[e]) = off[t]
  <2>1. Walk(s, off[c], m, off[e]) = off[IF c + m <= e THEN c + m ELSE e]
    BY <1>4, WalkAt
  <2>2. t = IF c + m <= e THEN c + m ELSE e
    BY <1>3, <1>7, <1>8 DEF StopAt
  <2> QED
    BY <2>1, <2>2
<1>10. Row(s, off[c], width, prompt) = [from |-> off[c], to |-> off[t], col0 |-> o]
  BY <1>5, <1>7, <1>8, <1>9 DEF Row
<1>11. RowOf(Row(s, off[c], width, prompt), q, off, c, width, prompt)
  BY <1>3, <1>7, <1>10 DEF RowOf
<1>12. Onto(s, off[c], width, prompt) = IF off[t] < off[e] THEN off[t] ELSE off[t] + 1
  BY <1>5, <1>10 DEF Onto
<1>13. off[t] < off[e] <=> t < e
  BY <1>4, OffsetsOrder
<1>14. CASE t < e
  BY <1>1, <1>3, <1>4, <1>11, <1>12, <1>13, <1>14
<1>15. CASE t = e
  <2>1. Onto(s, off[c], width, prompt) = off[e] + 1
    BY <1>12, <1>13, <1>15
  <2>2. z = e + 1
    BY <1>3, <1>15
  <2>3. CASE e = n
    BY <1>1, <1>3, <1>11, <2>1, <2>2, <2>3
  <2>4. CASE e # n
    <3>1. z \in 1..n /\ q[z] = "nl" /\ z - 1 = e
      BY <1>1, <1>3, <2>2, <2>4
    <3>2. off[z] - 1 = off[e] /\ off[z] \in Nat /\ off[e] \in Nat
      BY <1>4, <3>1, BreakAt, OffsetsStep
    <3>3. off[z] = off[e] + 1
      BY <3>2
    <3> QED
      BY <1>1, <1>3, <1>11, <2>1, <3>1, <3>3
  <2> QED
    BY <2>3, <2>4
<1> QED
  BY <1>3, <1>11, <1>14, <1>15

\* The rows of a text from the character c on, by the characters at which they begin.
Begins(rows, q, n, off, c, width, prompt, m, g) ==
  /\ m \in Nat \ {0} /\ g \in [1..(m + 1) -> 0..(n + 1)]
  /\ Len(rows) = m /\ g[1] = c /\ g[m + 1] = n + 1
  /\ \A i \in 1..m : /\ g[i] \in 0..n
                     /\ RowOf(rows[i], q, off, g[i], width, prompt)
                     /\ g[i + 1] = AfterRow(q, g[i], width, prompt)

Lined(rows, q, n, off, c, width, prompt) ==
  \E m, g : Begins(rows, q, n, off, c, width, prompt, m, g)

LEMMA LinedLast ==
  ASSUME NEW row, NEW q, NEW n \in Nat, NEW off, NEW c \in 0..n, NEW width, NEW prompt,
         RowOf(row, q, off, c, width, prompt), AfterRow(q, c, width, prompt) = n + 1
  PROVE  Lined(<<row>>, q, n, off, c, width, prompt)
<1>1. PICK m \in Nat \ {0} : m = 1 /\ m + 1 = 2
  OBVIOUS
<1>2. PICK g : g = [i \in 1..(m + 1) |-> IF i = 1 THEN c ELSE n + 1]
  OBVIOUS
<1>3. g \in [1..(m + 1) -> 0..(n + 1)] /\ g[1] = c /\ g[2] = n + 1 /\ g[m + 1] = n + 1
  <2>1. \A i \in 1..(m + 1) : (IF i = 1 THEN c ELSE n + 1) \in 0..(n + 1)
    OBVIOUS
  <2>2. g \in [1..(m + 1) -> 0..(n + 1)]
    BY <1>2, <2>1
  <2> QED
    BY <1>1, <1>2, <2>2
<1>4. PICK rows : rows = <<row>>
  OBVIOUS
<1>5. Len(rows) = m /\ rows[1] = row
  BY <1>1, <1>4
<1>6. ASSUME NEW i \in 1..m
      PROVE  /\ g[i] \in 0..n /\ RowOf(rows[i], q, off, g[i], width, prompt)
             /\ g[i + 1] = AfterRow(q, g[i], width, prompt)
  <2>1. i = 1 /\ i + 1 = 2
    BY <1>1
  <2> QED
    BY <1>3, <1>5, <2>1
<1>7. Begins(rows, q, n, off, c, width, prompt, m, g)
  BY <1>3, <1>5, <1>6 DEF Begins
<1> QED
  BY <1>4, <1>7 DEF Lined

LEMMA LinedMore ==
  ASSUME NEW row \in RowRec, NEW rest \in Seq(RowRec), NEW q, NEW n \in Nat, NEW off,
         NEW c \in 0..n, NEW width, NEW prompt, NEW z \in 0..n,
         RowOf(row, q, off, c, width, prompt), z = AfterRow(q, c, width, prompt),
         Lined(rest, q, n, off, z, width, prompt)
  PROVE  Lined(<<row>> \o rest, q, n, off, c, width, prompt)
<1>1. PICK m, g : Begins(rest, q, n, off, z, width, prompt, m, g)
  BY DEF Lined
<1>2. /\ m \in Nat \ {0} /\ g \in [1..(m + 1) -> 0..(n + 1)]
      /\ Len(rest) = m /\ g[1] = z /\ g[m + 1] = n + 1
      /\ \A i \in 1..m : /\ g[i] \in 0..n
                         /\ RowOf(rest[i], q, off, g[i], width, prompt)
                         /\ g[i + 1] = AfterRow(q, g[i], width, prompt)
  BY <1>1 DEF Begins
<1>3. PICK l \in Nat \ {0} : l = m + 1 /\ l - 1 = m
  BY <1>2
<1>4. PICK h : h = [i \in 1..(l + 1) |-> IF i = 1 THEN c ELSE g[i - 1]]
  OBVIOUS
<1>5. \A i \in 1..(l + 1) : i # 1 => i - 1 \in 1..(m + 1)
  BY <1>2, <1>3
<1>6. h \in [1..(l + 1) -> 0..(n + 1)]
  <2>1. ASSUME NEW i \in 1..(l + 1) PROVE (IF i = 1 THEN c ELSE g[i - 1]) \in 0..(n + 1)
    <3>1. c \in 0..(n + 1)
      OBVIOUS
    <3>2. i # 1 => g[i - 1] \in 0..(n + 1)
      BY <1>2, <1>5
    <3> QED
      BY <3>1, <3>2
  <2> QED
    BY <1>4, <2>1
<1>7. h[1] = c /\ h[l + 1] = n + 1
  <2>1. 1 \in 1..(l + 1) /\ l + 1 \in 1..(l + 1) /\ l + 1 # 1 /\ l + 1 - 1 = m + 1
    BY <1>2, <1>3
  <2> QED
    BY <1>2, <1>4, <2>1
<1>8. PICK one \in Seq(RowRec) : one = <<row>> /\ Len(one) = 1 /\ one[1] = row
  <2>1. <<row>> \in Seq(RowRec) /\ Len(<<row>>) = 1 /\ <<row>>[1] = row
    OBVIOUS
  <2> QED
    BY <2>1
<1>9. PICK rows : rows = one \o rest
  OBVIOUS
<1>10. Len(rows) = l /\ rows[1] = row /\ \A i \in 1..m : rows[1 + i] = rest[i]
  <2>1. /\ Len(one \o rest) = 1 + m
        /\ \A i \in 1..1 : (one \o rest)[i] = one[i]
        /\ \A i \in 1..m : (one \o rest)[1 + i] = rest[i]
    BY <1>2, <1>8, ConcatIs
  <2>2. 1 \in 1..1 /\ 1 + m = l
    BY <1>2, <1>3
  <2> QED
    BY <1>8, <1>9, <2>1, <2>2
<1>11. ASSUME NEW i \in 1..l
       PROVE  /\ h[i] \in 0..n /\ RowOf(rows[i], q, off, h[i], width, prompt)
              /\ h[i + 1] = AfterRow(q, h[i], width, prompt)
  <2>1. CASE i = 1
    <3>1. 2 \in 1..(l + 1) /\ i + 1 = 2 /\ 2 - 1 = 1
      BY <1>3, <2>1
    <3>2. h[2] = z
      BY <1>2, <1>4, <3>1
    <3> QED
      BY <1>7, <1>10, <2>1, <3>1, <3>2
  <2>2. CASE i # 1
    <3>1. PICK j \in 1..m : i = 1 + j /\ i - 1 = j /\ i + 1 - 1 = j + 1
      BY <1>2, <1>3, <2>2
    <3>2. i \in 1..(l + 1) /\ i + 1 \in 1..(l + 1) /\ i + 1 # 1
      BY <1>3
    <3>3. h[i] = g[j] /\ h[i + 1] = g[j + 1] /\ rows[i] = rest[j]
      BY <1>4, <1>10, <2>2, <3>1, <3>2
    <3>4. /\ g[j] \in 0..n /\ RowOf(rest[j], q, off, g[j], width, prompt)
          /\ g[j + 1] = AfterRow(q, g[j], width, prompt)
      BY <1>2
    <3> QED
      BY <3>3, <3>4
  <2> QED
    BY <2>1, <2>2
<1>12. Begins(rows, q, n, off, c, width, prompt, l, h)
  BY <1>6, <1>7, <1>10, <1>11 DEF Begins
<1> QED
  BY <1>8, <1>9, <1>12 DEF Lined

\* The rows from a character on: from the end of the text backwards.
LEMMA RowsLined ==
  ASSUME NEW s, NEW q, NEW n, NEW off, Laid(s, q, n, off), NEW r,
         NEW width, NEW prompt, Window(width, prompt), RowsFrom(r, s, Len(s), width, prompt)
  PROVE  \A c \in 0..n : Lined(r[off[c]], q, n, off, c, width, prompt)
<1>1. /\ n \in Nat /\ q \in Seq(Alphabet) /\ n = Len(q) /\ s \in Seq(ByteSet)
      /\ off \in [0..n -> Nat]
  BY OffsetsStep
<1>2. PICK N \in Nat : N = Len(s)
  BY <1>1, LenProperties
<1>3. /\ r \in [0..(N + 1) -> Seq(RowRec)] /\ r[N + 1] = <<>>
      /\ \A p \in 0..N : r[p] = <<Row(s, p, width, prompt)>> \o r[Onto(s, p, width, prompt)]
  BY <1>2 DEF RowsFrom
<1>4. ASSUME NEW c \in 0..n, \A z \in c + 1..n : Lined(r[off[z]], q, n, off, z, width, prompt)
      PROVE  Lined(r[off[c]], q, n, off, c, width, prompt)
  <2>1. off[c] \in 0..N
    BY <1>2, OffsetsOrder
  <2>2. PICK row \in RowRec : row = Row(s, off[c], width, prompt)
    BY <1>1, <1>2, <2>1, RowRange
  <2>3. RowOf(row, q, off, c, width, prompt)
    BY <2>2, RowAt
  <2>4. PICK z \in Nat : z = AfterRow(q, c, width, prompt) /\ z \in c + 1..n + 1
    BY <1>1, RowEndsAt DEF RowEnds
  <2>5. r[off[c]] = <<row>> \o r[Onto(s, off[c], width, prompt)]
    BY <1>3, <2>1, <2>2
  <2>6. CASE z = n + 1
    <3>1. Onto(s, off[c], width, prompt) = N + 1
      <4>1. AfterRow(q, c, width, prompt) = n + 1
        BY <2>4, <2>6
      <4>2. Onto(s, off[c], width, prompt) = Len(s) + 1
        BY ONLY Laid(s, q, n, off), c \in 0..n, Window(width, prompt), <4>1, RowAt
      <4> QED
        BY <1>2, <4>2
    <3>2. PICK one \in Seq(RowRec) : one = <<row>>
      <4>1. <<row>> \in Seq(RowRec)
        OBVIOUS
      <4> QED
        BY <4>1
    <3>3. one \o <<>> = one
      BY Concats
    <3>4. r[off[c]] = one
      BY <1>3, <2>5, <3>1, <3>2, <3>3
    <3>5. Lined(<<row>>, q, n, off, c, width, prompt)
      BY <1>1, <2>3, <2>4, <2>6, LinedLast
    <3> QED
      BY <3>2, <3>4, <3>5
  <2>7. CASE z # n + 1
    <3>1. z \in 0..n /\ z \in c + 1..n
      BY <1>1, <2>4, <2>7
    <3>2. Onto(s, off[c], width, prompt) = off[z]
      BY <2>4, <3>1, RowAt
    <3>3. off[z] \in 0..N
      BY <1>2, <3>1, OffsetsOrder
    <3>4. PICK rest \in Seq(RowRec) : rest = r[off[z]]
      <4>1. off[z] \in 0..(N + 1)
        BY <3>3
      <4> QED
        BY <1>3, <4>1
    <3>5. Lined(rest, q, n, off, z, width, prompt)
      BY <1>4, <3>1, <3>4
    <3>6. Lined(<<row>> \o rest, q, n, off, c, width, prompt)
      BY <1>1, <2>3, <2>4, <3>1, <3>5, LinedMore
    <3> QED
      BY <2>5, <3>2, <3>4, <3>6
  <2> QED
    BY <2>6, <2>7
<1> DEFINE G == {d \in 0..n : \A c \in 0..n : c >= n - d => Lined(r[off[c]], q, n, off, c, width, prompt)}
<1>5. 0 \in G
  <2>1. ASSUME NEW c \in 0..n, c >= n - 0
        PROVE  Lined(r[off[c]], q, n, off, c, width, prompt)
    <3>1. \A z \in c + 1..n : FALSE
      BY <1>1, <2>1
    <3> QED
      BY <1>4, <3>1
  <2> QED
    BY <1>1, <2>1
<1>6. ASSUME NEW d \in 1..n, d - 1 \in G
      PROVE  d \in G
  <2>1. ASSUME NEW c \in 0..n, c >= n - d
        PROVE  Lined(r[off[c]], q, n, off, c, width, prompt)
    <3>1. ASSUME NEW z \in c + 1..n PROVE Lined(r[off[z]], q, n, off, z, width, prompt)
      <4>1. z \in 0..n /\ z >= n - (d - 1)
        BY <1>1, <2>1
      <4> QED
        BY <1>6, <4>1
    <3> QED
      BY <1>4, <3>1
  <2> QED
    BY <1>1, <2>1
<1>7. 0..n \subseteq G
  <2> HIDE DEF G
  <2> QED
    BY <1>1, <1>5, <1>6, Climb
<1>8. ASSUME NEW c \in 0..n PROVE Lined(r[off[c]], q, n, off, c, width, prompt)
  <2>1. n \in G
    <3> HIDE DEF G
    <3>1. n \in 0..n
      BY <1>1
    <3> QED
      BY <1>7, <3>1
  <2>2. c >= n - n
    BY <1>1
  <2> QED
    BY <2>1, <2>2
<1> QED
  BY <1>8

LEMMA RowsBegin ==
  ASSUME NEW s, NEW q, NEW n, NEW off, Laid(s, q, n, off),
         NEW width, NEW prompt, Window(width, prompt)
  PROVE  Lined(Rows(s, width, prompt), q, n, off, 0, width, prompt)
<1>1. n \in Nat /\ off[0] = 0 /\ s \in Seq(ByteSet)
  BY OffsetsStep
<1>2. PICK N \in Nat : N = Len(s)
  BY <1>1, LenProperties
<1>3. PICK r : RowsFrom(r, s, N, width, prompt) /\ Rows(s, width, prompt) = r[0]
  BY <1>1, <1>2, RowsAre
<1>4. RowsFrom(r, s, Len(s), width, prompt) /\ 0 \in 0..n
  BY <1>1, <1>2, <1>3
<1>5. Lined(r[off[0]], q, n, off, 0, width, prompt)
  BY <1>4, RowsLined
<1> QED
  BY <1>1, <1>3, <1>5

-----------------------------------------------------------------------------
(* The rows are the buffer.                                                 *)

LEMMA SliceIs ==
  ASSUME NEW S, NEW s \in Seq(S), NEW N \in Nat, N = Len(s), NEW a \in 0..N, NEW b \in 0..N,
         a <= b
  PROVE  /\ SubSeq(s, a + 1, b) \in Seq(S) /\ Len(SubSeq(s, a + 1, b)) = b - a
         /\ \A i \in 1..(b - a) : SubSeq(s, a + 1, b)[i] = s[a + i]
<1>1. PICK lo \in Nat : lo = a + 1 /\ lo >= 1
  OBVIOUS
<1>2. \A i \in lo..b : i \in 1..N
  BY <1>1
<1>3. SubSeq(s, lo, b) \in Seq(S)
  BY <1>1, SliceType
<1>4. /\ Len(SubSeq(s, lo, b)) = IF lo <= b THEN b - lo + 1 ELSE 0
      /\ \A i \in 1..(b - lo + 1) : SubSeq(s, lo, b)[i] = s[lo + i - 1]
  BY <1>1, <1>2, SubSeqProperties
<1>5. (IF lo <= b THEN b - lo + 1 ELSE 0) = b - a /\ b - lo + 1 = b - a
  BY <1>1
<1>6. \A i \in 1..(b - a) : lo + i - 1 = a + i
  BY <1>1
<1> QED
  BY <1>1, <1>3, <1>4, <1>5, <1>6

LEMMA PrefixIs ==
  ASSUME NEW S, NEW s \in Seq(S), NEW N \in Nat, N = Len(s), NEW b \in 0..N
  PROVE  /\ SubSeq(s, 1, b) \in Seq(S) /\ Len(SubSeq(s, 1, b)) = b
         /\ \A i \in 1..b : SubSeq(s, 1, b)[i] = s[i]
<1>1. 0 \in 0..N /\ 0 <= b
  OBVIOUS
<1>2. /\ SubSeq(s, 0 + 1, b) \in Seq(S) /\ Len(SubSeq(s, 0 + 1, b)) = b - 0
      /\ \A i \in 1..(b - 0) : SubSeq(s, 0 + 1, b)[i] = s[0 + i]
  BY <1>1, SliceIs
<1>3. 0 + 1 = 1 /\ b - 0 = b /\ \A i \in 1..b : 0 + i = i
  OBVIOUS
<1> QED
  BY <1>2, <1>3

LEMMA SliceOfPrefix ==
  ASSUME NEW S, NEW s \in Seq(S), NEW N \in Nat, N = Len(s), NEW b \in 0..N,
         NEW a \in 0..b, NEW c \in 0..b, a <= c
  PROVE  SubSeq(SubSeq(s, 1, b), a + 1, c) = SubSeq(s, a + 1, c)
<1>1. PICK t \in Seq(S) : t = SubSeq(s, 1, b) /\ Len(t) = b /\ \A i \in 1..b : t[i] = s[i]
  <2>1. /\ SubSeq(s, 1, b) \in Seq(S) /\ Len(SubSeq(s, 1, b)) = b
        /\ \A i \in 1..b : SubSeq(s, 1, b)[i] = s[i]
    BY PrefixIs
  <2> QED
    BY <2>1
<1>2. PICK m \in Nat : m = c - a
  OBVIOUS
<1>3. a \in 0..N /\ c \in 0..N /\ b \in Nat
  OBVIOUS
<1>4. /\ SubSeq(t, a + 1, c) \in Seq(S) /\ Len(SubSeq(t, a + 1, c)) = m
      /\ \A i \in 1..m : SubSeq(t, a + 1, c)[i] = t[a + i]
  <2>1. PICK n \in Nat : n = Len(t) /\ a \in 0..n /\ c \in 0..n
    BY <1>1, <1>3
  <2>2. /\ SubSeq(t, a + 1, c) \in Seq(S) /\ Len(SubSeq(t, a + 1, c)) = c - a
        /\ \A i \in 1..(c - a) : SubSeq(t, a + 1, c)[i] = t[a + i]
    BY <2>1, SliceIs
  <2> QED
    BY <1>2, <2>2
<1>5. /\ SubSeq(s, a + 1, c) \in Seq(S) /\ Len(SubSeq(s, a + 1, c)) = m
      /\ \A i \in 1..m : SubSeq(s, a + 1, c)[i] = s[a + i]
  <2>1. /\ SubSeq(s, a + 1, c) \in Seq(S) /\ Len(SubSeq(s, a + 1, c)) = c - a
        /\ \A i \in 1..(c - a) : SubSeq(s, a + 1, c)[i] = s[a + i]
    <3>1. PICK n \in Nat : n = Len(s) /\ a \in 0..n /\ c \in 0..n
      BY <1>3
    <3> QED
      BY <3>1, SliceIs
  <2> QED
    BY <1>2, <2>1
<1>6. ASSUME NEW i \in 1..m PROVE t[a + i] = s[a + i]
  <2>1. a + i \in 1..b
    BY <1>2
  <2> QED
    BY <1>1, <2>1
<1>7. PICK x \in Seq(S) : x = SubSeq(t, a + 1, c)
  BY <1>4
<1>8. PICK y \in Seq(S) : y = SubSeq(s, a + 1, c)
  BY <1>5
<1>9. Len(x) = m /\ Len(y) = m /\ \A i \in 1..m : x[i] = y[i]
  BY <1>4, <1>5, <1>6, <1>7, <1>8
<1>10. x = y
  BY <1>9, SeqEqual
<1> QED
  BY <1>1, <1>7, <1>8, <1>10

LEMMA PrefixOfPrefix ==
  ASSUME NEW S, NEW s \in Seq(S), NEW N \in Nat, N = Len(s), NEW b \in 0..N, NEW c \in 0..b
  PROVE  SubSeq(SubSeq(s, 1, b), 1, c) = SubSeq(s, 1, c)
<1>1. 0 \in 0..b /\ 0 <= c /\ 0 + 1 = 1
  OBVIOUS
<1>2. SubSeq(SubSeq(s, 1, b), 0 + 1, c) = SubSeq(s, 0 + 1, c)
  BY <1>1, SliceOfPrefix
<1> QED
  BY <1>1, <1>2

LEMMA SliceGrows ==
  ASSUME NEW S, NEW s \in Seq(S), NEW N \in Nat, N = Len(s), NEW a \in 0..N, NEW b \in 0..N,
         a <= b
  PROVE  SubSeq(s, 1, a) \o SubSeq(s, a + 1, b) = SubSeq(s, 1, b)
<1>1. PICK l \in Seq(S) : l = SubSeq(s, 1, a) /\ Len(l) = a /\ \A i \in 1..a : l[i] = s[i]
  <2>1. /\ SubSeq(s, 1, a) \in Seq(S) /\ Len(SubSeq(s, 1, a)) = a
        /\ \A i \in 1..a : SubSeq(s, 1, a)[i] = s[i]
    BY PrefixIs
  <2> QED
    BY <2>1
<1>2. PICK t \in Seq(S) : t = SubSeq(s, 1, b) /\ Len(t) = b /\ \A i \in 1..b : t[i] = s[i]
  <2>1. /\ SubSeq(s, 1, b) \in Seq(S) /\ Len(SubSeq(s, 1, b)) = b
        /\ \A i \in 1..b : SubSeq(s, 1, b)[i] = s[i]
    BY PrefixIs
  <2> QED
    BY <2>1
<1>3. PICK m \in Nat : m = b - a /\ a + m = b
  OBVIOUS
<1>4. PICK r \in Seq(S) : r = SubSeq(s, a + 1, b) /\ Len(r) = m /\ \A i \in 1..m : r[i] = s[a + i]
  <2>1. /\ SubSeq(s, a + 1, b) \in Seq(S) /\ Len(SubSeq(s, a + 1, b)) = b - a
        /\ \A i \in 1..(b - a) : SubSeq(s, a + 1, b)[i] = s[a + i]
    BY SliceIs
  <2> QED
    BY <1>3, <2>1
<1>5. PICK j \in Seq(S) : j = l \o r
  BY ConcatProperties
<1>6. /\ Len(j) = b /\ \A i \in 1..a : j[i] = l[i]
      /\ \A i \in 1..m : j[a + i] = r[i]
  <2>1. a = Len(l) /\ m = Len(r) /\ a \in Nat
    BY <1>1, <1>4
  <2>2. /\ Len(l \o r) = a + m /\ \A i \in 1..a : (l \o r)[i] = l[i]
        /\ \A i \in 1..m : (l \o r)[a + i] = r[i]
    BY ONLY <2>1, l \in Seq(S), r \in Seq(S), m \in Nat, ConcatIs
  <2> QED
    BY <1>3, <1>5, <2>2
<1>7. ASSUME NEW i \in 1..b PROVE j[i] = t[i]
  <2>1. CASE i <= a
    <3>1. i \in 1..a
      BY <2>1
    <3> QED
      BY <1>1, <1>2, <1>6, <3>1
  <2>2. CASE ~(i <= a)
    <3>1. PICK x \in 1..m : i = a + x
      BY <1>3, <2>2
    <3> QED
      BY <1>2, <1>4, <1>6, <3>1
  <2> QED
    BY <2>1, <2>2
<1>8. j = t
  BY <1>2, <1>6, <1>7, SeqEqual
<1> QED
  BY <1>1, <1>2, <1>4, <1>5, <1>8

Edges(edge, m, N) ==
  /\ edge \in [0..m -> 0..N] /\ edge[0] = 0 /\ edge[m] = N
  /\ \A i \in 1..m : edge[i - 1] <= edge[i]

CutsOf(s, edge, m) == [k \in 1..m |-> SubSeq(s, edge[k - 1] + 1, edge[k])]

\* What is cut at edges, joined.
LEMMA SlicesJoin ==
  ASSUME NEW S, NEW s \in Seq(S), NEW N \in Nat, N = Len(s), NEW m \in Nat, NEW edge,
         Edges(edge, m, N)
  PROVE  FlattenSeq(CutsOf(s, edge, m)) = s
<1> DEFINE slice(k) == SubSeq(s, edge[k - 1] + 1, edge[k])
           run == [i \in 0..m |-> SubSeq(s, 1, edge[i])]
<1>1. /\ edge \in [0..m -> 0..N] /\ edge[0] = 0 /\ edge[m] = N
      /\ \A i \in 1..m : edge[i - 1] <= edge[i]
  BY DEF Edges
<1>2. ASSUME NEW i \in 1..m
      PROVE  slice(i) \in Seq(S) /\ run[i] = run[i - 1] \o slice(i)
  <2>1. i - 1 \in 0..m /\ i \in 0..m
    OBVIOUS
  <2>2. PICK a \in 0..N : a = edge[i - 1]
    BY <1>1, <2>1
  <2>3. PICK b \in 0..N : b = edge[i] /\ a <= b
    BY <1>1, <2>1, <2>2
  <2>4. SubSeq(s, a + 1, b) \in Seq(S)
    BY <2>3, SliceIs
  <2>5. SubSeq(s, 1, a) \o SubSeq(s, a + 1, b) = SubSeq(s, 1, b)
    BY <2>3, SliceGrows
  <2>6. run[i] = SubSeq(s, 1, b) /\ run[i - 1] = SubSeq(s, 1, a)
    BY <2>1, <2>2, <2>3
  <2> QED
    BY <2>2, <2>3, <2>4, <2>5, <2>6
<1>3. \A i \in 0..m : SubSeq(s, 1, edge[i]) \in Seq(S)
  <2>1. ASSUME NEW i \in 0..m PROVE SubSeq(s, 1, edge[i]) \in Seq(S)
    <3>1. PICK b \in 0..N : b = edge[i]
      BY <1>1
    <3>2. SubSeq(s, 1, b) \in Seq(S)
      BY SliceType
    <3> QED
      BY <3>1, <3>2
  <2> QED
    BY <2>1
<1>4. run \in [0..m -> Seq(S)]
  BY <1>3
<1>5. run[0] = <<>> /\ run[m] = s
  <2>1. SubSeq(s, 1, 0) = <<>>
    BY SubSeqProperties, EmptySeq
  <2>2. SubSeq(s, 1, N) = s
    <3>1. /\ SubSeq(s, 1, N) \in Seq(S) /\ Len(SubSeq(s, 1, N)) = N
          /\ \A i \in 1..N : SubSeq(s, 1, N)[i] = s[i]
      BY PrefixIs
    <3>4. PICK t \in Seq(S) : t = SubSeq(s, 1, N) /\ Len(t) = N /\ \A i \in 1..N : t[i] = s[i]
      BY <3>1
    <3>5. t = s
      BY <3>4, SeqEqual
    <3> QED
      BY <3>4, <3>5
  <2> QED
    BY <1>1, <2>1, <2>2
<1> HIDE DEF slice, run
<1>6. PICK cut : cut = [k \in 1..m |-> slice(k)]
  OBVIOUS
<1>7. cut \in Seq(Seq(S)) /\ Len(cut) = m /\ \A i \in 1..m : cut[i] = slice(i)
  <2>1. \A i \in 1..m : slice(i) \in Seq(S)
    BY <1>2
  <2>2. cut \in Seq(Seq(S))
    BY <1>6, <2>1, IsASeq
  <2> QED
    BY <1>6, <2>2
<1>8. JoinsUp(run, cut, m)
  BY <1>2, <1>5, <1>7 DEF JoinsUp
<1>9. FlattenSeq(cut) = run[m]
  BY <1>4, <1>7, <1>8, FlattenIs
<1> QED
  BY <1>5, <1>6, <1>9 DEF slice, CutsOf

\* The positions between characters are the offsets.
LEMMA BoundaryAt ==
  ASSUME NEW s, NEW q, NEW n, NEW off, Laid(s, q, n, off)
  PROVE  {p \in 0..Len(s) : p = Len(s) \/ ~is_cont(s[p + 1])} = {off[c] : c \in 0..n}
<1>1. n \in Nat /\ s \in Seq(ByteSet) /\ off[n] = Len(s) /\ n \in 0..n
  BY OffsetsStep
<1>2. PICK N \in Nat : N = Len(s)
  BY <1>1, LenProperties
<1>3. ASSUME NEW p \in 0..N, p = N \/ ~is_cont(s[p + 1])
      PROVE  \E c \in 0..n : p = off[c]
  <2>1. CASE p = N
    BY <1>1, <1>2, <2>1
  <2>2. CASE p # N
    <3>1. p \in Nat /\ p < Len(s) /\ ~is_cont(s[p + 1])
      BY <1>2, <1>3, <2>2
    <3> QED
      BY <3>1, HeadOnly
  <2> QED
    BY <2>1, <2>2
<1>4. ASSUME NEW c \in 0..n
      PROVE  off[c] \in 0..N /\ (off[c] = N \/ ~is_cont(s[off[c] + 1]))
  <2>1. off[c] \in 0..N
    BY <1>2, OffsetsOrder
  <2>2. CASE c = n
    BY <1>1, <1>2, <2>1, <2>2
  <2>3. CASE c # n
    <3>1. c < n
      BY <1>1, <2>3
    <3> QED
      BY <2>1, <3>1, HeadAt
  <2> QED
    BY <2>2, <2>3
<1> QED
  BY <1>2, <1>3, <1>4

\* The bytes from one position to another are the characters between them.
LEMMA SliceDecoded ==
  ASSUME NEW q \in Seq(Alphabet), NEW n \in Nat, n = Len(q), NEW i \in 0..n, NEW j \in 0..n,
         i <= j
  PROVE  Len(Decoded(SubSeq(Spelled(q), Offsets(q)[i] + 1, Offsets(q)[j]))) = j - i
<1>1. PICK s \in Seq(ByteSet) : s = Spelled(q)
  BY SpelledType
<1>2. PICK off : off = Offsets(q) /\ Laid(s, q, n, off)
  BY <1>1, Lays
<1>3. PICK N \in Nat : N = Len(s)
  BY LenProperties
<1>4. PICK a \in 0..N : a = off[i]
  BY <1>2, <1>3, OffsetsOrder
<1>5. PICK b \in 0..N : b = off[j] /\ a <= b
  BY <1>2, <1>3, <1>4, OffsetsOrder
<1>6. PICK h \in Seq(Alphabet) : h = SubSeq(q, 1, j) /\ Len(h) = j
  <2>1. SubSeq(q, 1, j) \in Seq(Alphabet) /\ Len(SubSeq(q, 1, j)) = j
    BY PrefixIs
  <2> QED
    BY <2>1
<1>7. PICK t \in Seq(ByteSet) : t = Spelled(h) /\ t = SubSeq(s, 1, b) /\ Len(t) = b
  <2>1. CutsAt(q, n, j, Spelled(q), Offsets(q)[j])
    BY CutAt
  <2>2. SubSeq(s, 1, b) = Spelled(h) /\ b = Len(Spelled(h))
    BY <1>1, <1>2, <1>5, <1>6, <2>1 DEF CutsAt
  <2> QED
    BY <2>2, SpelledType
<1>8. i \in 0..j /\ j \in Nat /\ j = Len(h) /\ SubSeq(h, 1, i) = SubSeq(q, 1, i)
  <2>1. i \in 0..j /\ j \in Nat
    OBVIOUS
  <2>2. SubSeq(SubSeq(q, 1, j), 1, i) = SubSeq(q, 1, i)
    BY <2>1, PrefixOfPrefix
  <2> QED
    BY <1>6, <2>1, <2>2
<1>a. CutsAt(h, j, i, Spelled(h), Offsets(h)[i])
  BY ONLY h \in Seq(Alphabet), <1>8, CutAt
<1>9. Offsets(h)[i] = a
  <2>1. CutsAt(q, n, i, Spelled(q), Offsets(q)[i])
    BY CutAt
  <2>2. a = Len(Spelled(SubSeq(q, 1, i)))
    BY <1>2, <1>4, <2>1 DEF CutsAt
  <2>3. Offsets(h)[i] = Len(Spelled(SubSeq(h, 1, i)))
    BY <1>a DEF CutsAt
  <2> QED
    BY <1>8, <2>2, <2>3
<1>10. SubSeq(t, a + 1, b) = Spelled(SubSeq(h, i + 1, j))
  <2>1. SubSeq(Spelled(h), Offsets(h)[i] + 1, Len(Spelled(h))) = Spelled(SubSeq(h, i + 1, j))
    BY <1>a DEF CutsAt
  <2> QED
    BY <1>7, <1>9, <2>1
<1>11. SubSeq(t, a + 1, b) = SubSeq(s, a + 1, b)
  <2>1. PICK c \in 0..N : c = b /\ a \in 0..c /\ c \in 0..c /\ a <= c
    BY <1>5
  <2>2. SubSeq(SubSeq(s, 1, c), a + 1, c) = SubSeq(s, a + 1, c)
    BY <1>3, <2>1, SliceOfPrefix
  <2> QED
    BY <1>7, <2>1, <2>2
<1>12. Decoded(Spelled(SubSeq(h, i + 1, j))) = SubSeq(h, i + 1, j) /\ Len(SubSeq(h, i + 1, j)) = j - i
  <2>1. SubSeq(h, i + 1, j) \in Seq(Alphabet) /\ Len(SubSeq(h, i + 1, j)) = j - i
    BY <1>6, <1>8, PartsOf
  <2> QED
    BY <2>1, DecodedSpelled
<1> QED
  BY <1>1, <1>2, <1>4, <1>5, <1>10, <1>11, <1>12

RowShape(row, q, n, off, width, prompt, c, e, t, z) ==
  /\ c \in 0..n /\ e \in Nat /\ t \in Nat /\ RowEnds(q, n, c, width, prompt, e, t, z)
  /\ row.from = off[c] /\ row.to = off[t] /\ row.col0 = ColumnAt(c, prompt)

LEMMA RowShapes ==
  ASSUME NEW rows, NEW q \in Seq(Alphabet), NEW n \in Nat, n = Len(q), NEW off, NEW c,
         NEW width, NEW prompt, Window(width, prompt), NEW m, NEW g,
         Begins(rows, q, n, off, c, width, prompt, m, g), NEW i \in 1..m
  PROVE  \E e, t : RowShape(rows[i], q, n, off, width, prompt, g[i], e, t, g[i + 1])
<1>1. /\ g[i] \in 0..n /\ RowOf(rows[i], q, off, g[i], width, prompt)
      /\ g[i + 1] = AfterRow(q, g[i], width, prompt)
  BY DEF Begins
<1>2. PICK x \in 0..n : x = g[i]
  BY <1>1
<1>3. PICK e, t, z \in Nat : RowEnds(q, n, x, width, prompt, e, t, z)
  BY RowEndsAt
<1>4. z = g[i + 1] /\ t = StopAt(q, x, width, prompt)
  BY <1>1, <1>2, <1>3 DEF RowEnds
<1>5. rows[i] = [from |-> off[x], to |-> off[t], col0 |-> ColumnAt(x, prompt)]
  BY <1>1, <1>2, <1>4 DEF RowOf
<1>6. RowShape(rows[i], q, n, off, width, prompt, x, e, t, z)
  BY <1>3, <1>5 DEF RowShape
<1> QED
  BY <1>2, <1>4, <1>6

\* A row after the first is not empty, but for an empty line.
LEMMA RowFresh ==
  ASSUME NEW s, NEW q, NEW n, NEW off, Laid(s, q, n, off), NEW width, NEW prompt,
         NEW row, NEW c, NEW e, NEW t, NEW z,
         NEW prev, NEW d, NEW f, NEW u,
         RowShape(row, q, n, off, width, prompt, c, e, t, z),
         RowShape(prev, q, n, off, width, prompt, d, f, u, c)
  PROVE  row.from # row.to \/ s[row.from] = "nl"
<1>1. n \in Nat /\ q \in Seq(Alphabet) /\ n = Len(q)
  BY OffsetsStep
<1>2. /\ c \in 0..n /\ e = EndIn(q, c) /\ e \in c..n /\ (e # n => q[e + 1] = "nl")
      /\ t \in c..e /\ (c < e => c < t)
      /\ row.from = off[c] /\ row.to = off[t]
  BY DEF RowShape, RowEnds
<1>3. /\ d \in 0..n /\ f = EndIn(q, d) /\ f \in d..n /\ (f # n => q[f + 1] = "nl")
      /\ u \in d..f /\ c \in d + 1..n + 1
      /\ (u < f => c = u) /\ (u = f => c = f + 1)
  BY DEF RowShape, RowEnds
<1>4. CASE u < f
  <2>1. c = u /\ c < f
    BY <1>3, <1>4
  <2>2. f <= e
    <3>1. CASE e = n
      BY <1>1, <1>3, <3>1
    <3>2. CASE e # n
      <4>1. PICK i \in d + 1..n : i = e + 1
        BY <1>1, <1>2, <1>3, <3>2
      <4>2. q[i] = "nl"
        BY <1>2, <3>2, <4>1
      <4>3. f < i
        BY <1>1, <1>3, <4>2, EndIs
      <4> QED
        BY <1>1, <1>2, <1>3, <4>1, <4>3
    <3> QED
      BY <3>1, <3>2
  <2>3. c < t /\ t \in 0..n
    BY <1>1, <1>2, <1>3, <2>1, <2>2
  <2>4. off[c] < off[t] /\ off[c] \in Nat /\ off[t] \in Nat
    BY <1>2, <2>3, OffsetsOrder
  <2> QED
    BY <1>2, <2>4
<1>5. CASE u = f
  <2>1. c \in 1..n /\ q[c] = "nl"
    <3>1. c = f + 1 /\ f # n
      BY <1>1, <1>2, <1>3, <1>5
    <3> QED
      BY <1>1, <1>2, <1>3, <3>1
  <2>2. s[off[c]] = "nl"
    BY <2>1, BreakAt
  <2> QED
    BY <1>2, <2>2
<1> QED
  BY <1>3, <1>4, <1>5

\* What is drawn of a row reaches to the beginning of the next one, or to the end.
RowReaches(s, rows, k) ==
  SubSeq(s, rows[k].from + 1, rows[k].to)
    \o (IF k < Len(rows) /\ rows[k + 1].from # rows[k].to THEN <<"nl">> ELSE <<>>)
  = SubSeq(s, rows[k].from + 1, IF k < Len(rows) THEN rows[k + 1].from ELSE Len(s))

LEMMA RowReach ==
  ASSUME NEW s, NEW q, NEW n, NEW off, Laid(s, q, n, off), NEW rows \in Seq(RowRec),
         NEW width, NEW prompt, Window(width, prompt), NEW m, NEW g,
         Begins(rows, q, n, off, 0, width, prompt, m, g), NEW k \in 1..m
  PROVE  RowReaches(s, rows, k)
<1>1. /\ n \in Nat /\ q \in Seq(Alphabet) /\ n = Len(q) /\ s \in Seq(ByteSet)
      /\ off[0] = 0 /\ off[n] = Len(s)
  BY OffsetsStep
<1>2. PICK N \in Nat : N = Len(s)
  BY <1>1, LenProperties
<1>3. m \in Nat \ {0} /\ Len(rows) = m /\ g[m + 1] = n + 1
  BY DEF Begins
<1>4. PICK e, t : RowShape(rows[k], q, n, off, width, prompt, g[k], e, t, g[k + 1])
  BY <1>1, RowShapes
<1>5. PICK c \in 0..n : c = g[k]
  BY <1>4 DEF RowShape
<1>6. PICK z \in Nat : z = g[k + 1] /\ z \in c + 1..n + 1
  BY <1>1, <1>4, <1>5 DEF RowShape, RowEnds
<1>7. /\ e \in c..n /\ (e # n => q[e + 1] = "nl") /\ t \in c..e
      /\ (t < e => z = t) /\ (t = e => z = e + 1)
      /\ rows[k].from = off[c] /\ rows[k].to = off[t]
  BY <1>4, <1>5, <1>6 DEF RowShape, RowEnds
<1>8. t \in 0..n /\ c <= t
  BY <1>1, <1>7
<1>9. PICK a \in 0..N : a = off[c]
  BY <1>2, OffsetsOrder
<1>10. PICK b \in 0..N : b = off[t] /\ a <= b
  BY <1>2, <1>8, <1>9, OffsetsOrder
<1>11. PICK drawn \in Seq(ByteSet) : drawn = SubSeq(s, a + 1, b)
  BY <1>1, <1>2, <1>10, SliceIs
<1>12. drawn \o <<>> = drawn
  BY Concats
<1>13. CASE k < m
  <2>1. k + 1 \in 1..m
    BY <1>3, <1>13
  <2>2. PICK f, u : RowShape(rows[k + 1], q, n, off, width, prompt, g[k + 1], f, u, g[k + 1 + 1])
    BY <1>1, <2>1, RowShapes
  <2>3. z \in 0..n /\ rows[k + 1].from = off[z]
    BY <1>6, <2>2 DEF RowShape
  <2>4. CASE t < e
    <3>1. rows[k + 1].from = b
      BY <1>7, <1>10, <2>3, <2>4
    <3> QED
      BY <1>3, <1>7, <1>9, <1>10, <1>11, <1>12, <1>13, <3>1 DEF RowReaches
  <2>5. CASE t = e
    <3>1. z \in 1..n /\ z - 1 = t /\ q[z] = "nl"
      BY <1>1, <1>7, <1>8, <2>3, <2>5
    <3>2. off[z] \in 1..Len(s) /\ s[off[z]] = "nl" /\ off[z] - 1 = off[z - 1]
      BY <3>1, BreakAt
    <3>3. PICK d \in 1..N : d = off[z] /\ d = b + 1 /\ s[d] = "nl"
      BY <1>2, <1>10, <3>1, <3>2
    <3>4. SubSeq(s, a + 1, d) = drawn \o <<"nl">>
      <4>1. /\ a + 1 \in 1..N /\ a + 1 <= d /\ d \in 1..N /\ d - 1 = b
        BY <1>2, <1>10, <3>3
      <4>2. PICK lo \in 1..N : lo = a + 1 /\ lo <= d
        BY <4>1
      <4>3. SubSeq(s, lo, d) = SubSeq(s, lo, d - 1) \o <<s[d]>>
        <5>0. s \in Seq(ByteSet)
          BY <1>1
        <5>1. /\ lo \in 1..Len(s) /\ d \in lo..Len(s)
          BY <1>2, <4>1, <4>2
        <5> QED
          BY ONLY <5>0, <5>1, SubSeqRecursiveSecond
      <4> QED
        BY <1>11, <3>3, <4>1, <4>2, <4>3
    <3>5. rows[k + 1].from # rows[k].to
      BY <1>7, <1>10, <2>3, <3>3
    <3> QED
      BY <1>3, <1>7, <1>9, <1>10, <1>11, <1>13, <2>3, <3>3, <3>4, <3>5 DEF RowReaches
  <2>6. t < e \/ t = e
    BY <1>1, <1>7
  <2> QED
    BY <2>4, <2>5, <2>6
<1>14. CASE ~(k < m)
  <2>1. k = m
    BY <1>3, <1>14
  <2>2. t = n
    BY <1>1, <1>3, <1>6, <1>7, <1>8, <2>1
  <2>3. b = Len(s)
    BY <1>1, <1>10, <2>2
  <2> QED
    BY <1>3, <1>7, <1>9, <1>10, <1>11, <1>12, <1>14, <2>3 DEF RowReaches
<1> QED
  BY <1>13, <1>14

\* The bytes of the rows, one row after the other.
LEMMA RowsJoin ==
  ASSUME NEW s, NEW q, NEW n, NEW off, Laid(s, q, n, off), NEW rows \in Seq(RowRec),
         NEW width, NEW prompt, Window(width, prompt), NEW m, NEW g,
         Begins(rows, q, n, off, 0, width, prompt, m, g)
  PROVE  FlattenSeq([k \in DOMAIN rows |->
           SubSeq(s, rows[k].from + 1,
                  IF k < Len(rows) THEN rows[k + 1].from ELSE Len(s))]) = s
<1>1. /\ n \in Nat /\ q \in Seq(Alphabet) /\ n = Len(q) /\ s \in Seq(ByteSet)
      /\ off[0] = 0 /\ off[n] = Len(s)
  BY OffsetsStep
<1>2. PICK N \in Nat : N = Len(s)
  BY <1>1, LenProperties
<1>3. m \in Nat \ {0} /\ Len(rows) = m /\ g[1] = 0
  BY DEF Begins
<1>4. DOMAIN rows = 1..m
  BY <1>3, LenProperties
<1>5. ASSUME NEW i \in 1..m
      PROVE  /\ g[i] \in 0..n /\ rows[i].from = off[g[i]] /\ off[g[i]] \in 0..N
             /\ g[i + 1] \in Nat /\ g[i] < g[i + 1]
  <2>1. PICK e, t : RowShape(rows[i], q, n, off, width, prompt, g[i], e, t, g[i + 1])
    BY <1>1, RowShapes
  <2>2. g[i] \in 0..n /\ rows[i].from = off[g[i]] /\ g[i + 1] \in g[i] + 1..n + 1
    BY <2>1 DEF RowShape, RowEnds
  <2>3. off[g[i]] \in 0..N
    BY <1>2, <2>2, OffsetsOrder
  <2> QED
    BY <1>1, <2>2, <2>3
<1>6. PICK edge : edge = [i \in 0..m |-> IF i < m THEN off[g[i + 1]] ELSE N]
  OBVIOUS
<1>7. ASSUME NEW i \in 1..m
      PROVE  edge[i - 1] = off[g[i]]
  <2>1. i - 1 \in 0..m /\ i - 1 < m /\ i - 1 + 1 = i
    BY <1>3
  <2> QED
    BY <1>6, <2>1
<1>8. edge[0] = 0 /\ edge[m] = N
  <2>1. 1 \in 1..m /\ 1 - 1 = 0 /\ m \in 0..m /\ ~(m < m)
    BY <1>3
  <2>2. edge[0] = off[g[1]]
    BY <1>7, <2>1
  <2> QED
    BY <1>1, <1>3, <1>6, <2>1, <2>2
<1>9. ASSUME NEW i \in 0..m PROVE edge[i] \in 0..N
  <2>1. CASE i < m
    <3>1. i + 1 \in 1..m
      BY <1>3, <2>1
    <3> QED
      BY <1>5, <1>6, <2>1, <3>1
  <2>2. CASE ~(i < m)
    BY <1>6, <2>2
  <2> QED
    BY <2>1, <2>2
<1>10. ASSUME NEW i \in 1..m PROVE edge[i - 1] <= edge[i]
  <2>1. g[i] \in 0..n /\ g[i + 1] \in Nat /\ g[i] < g[i + 1] /\ off[g[i]] \in 0..N
    BY <1>5
  <2>2. CASE i < m
    <3>1. i + 1 \in 1..m /\ i \in 0..m
      BY <1>3, <2>2
    <3>2. edge[i] = off[g[i + 1]]
      BY <1>6, <2>2, <3>1
    <3>3. g[i + 1] \in 0..n
      BY <1>5, <3>1
    <3>4. off[g[i]] < off[g[i + 1]] /\ off[g[i + 1]] \in 0..N
      BY <1>2, <2>1, <3>3, OffsetsOrder
    <3> QED
      BY <1>7, <2>1, <3>2, <3>4
  <2>3. CASE ~(i < m)
    <3>1. i = m
      BY <1>3, <2>3
    <3> QED
      BY <1>7, <1>8, <2>1, <3>1
  <2> QED
    BY <2>2, <2>3
<1>11. edge \in [0..m -> 0..N]
  <2>1. edge = [i \in 0..m |-> edge[i]]
    BY <1>6
  <2> QED
    BY <1>9, <2>1
<1>12. Edges(edge, m, N)
  BY <1>8, <1>10, <1>11 DEF Edges
<1>13. FlattenSeq(CutsOf(s, edge, m)) = s
  <2>1. m \in Nat
    BY <1>3
  <2> QED
    BY <1>1, <1>2, <1>12, <2>1, SlicesJoin
<1>14. ASSUME NEW k \in 1..m
       PROVE  /\ rows[k].from = edge[k - 1]
              /\ (IF k < Len(rows) THEN rows[k + 1].from ELSE Len(s)) = edge[k]
  <2>1. rows[k].from = edge[k - 1]
    BY <1>5, <1>7
  <2>2. CASE k < m
    <3>1. k + 1 \in 1..m /\ k \in 0..m
      BY <1>3, <2>2
    <3>2. edge[k] = off[g[k + 1]] /\ rows[k + 1].from = off[g[k + 1]]
      BY <1>5, <1>6, <2>2, <3>1
    <3> QED
      BY <1>3, <2>1, <2>2, <3>2
  <2>3. CASE ~(k < m)
    <3>1. k = m
      BY <1>3, <2>3
    <3> QED
      BY <1>2, <1>3, <1>8, <2>1, <2>3, <3>1
  <2> QED
    BY <2>2, <2>3
<1>15. [k \in DOMAIN rows |->
          SubSeq(s, rows[k].from + 1, IF k < Len(rows) THEN rows[k + 1].from ELSE Len(s))]
        = CutsOf(s, edge, m)
  BY <1>4, <1>14, Zenon DEF CutsOf
<1> QED
  BY <1>13, <1>15

\* The text of the prompt on the screen, and the characters at which its rows begin.
Drawn(q, n, off, m, g) ==
  /\ q \in Seq(Alphabet) /\ n \in Nat /\ n = Len(q) /\ off = Offsets(q)
  /\ bar.buffer \in Seq(ByteSet) /\ bar.buffer = Spelled(q) /\ Laid(bar.buffer, q, n, off)
  /\ bar = [buffer |-> bar.buffer, cursor |-> bar.cursor]
  /\ Window(Width(size), PromptCols) /\ size \in Sizes /\ RowsNow \in Seq(RowRec)
  /\ Begins(RowsNow, q, n, off, 0, Width(size), PromptCols, m, g)
  /\ Boundaries = {off[c] : c \in 0..n}

LEMMA PromptDrawn ==
  ASSUME ScreenInv
  PROVE  \E q, n, off, m, g : Drawn(q, n, off, m, g)
<1>1. PICK q, k : Stands(bar, q, k)
  BY DEF ScreenInv, Held
<1>2. PICK n, off : /\ n \in Nat /\ n = Len(q) /\ k \in 0..n /\ off = Offsets(q)
                    /\ Laid(bar.buffer, q, n, off)
  BY <1>1, StandsLaid
<1>3. size \in Sizes
  BY DEF ScreenInv, Held
<1>4. Window(Width(size), PromptCols)
  BY <1>3, WidthIs
<1>5. bar.buffer \in Seq(ByteSet)
  BY <1>1, StandsBuffer
<1>6. RowsNow \in Seq(RowRec)
  BY <1>4, <1>5, RowsType DEF RowsNow
<1>7. PICK m, g : Begins(RowsNow, q, n, off, 0, Width(size), PromptCols, m, g)
  BY <1>2, <1>4, RowsBegin DEF RowsNow, Lined
<1>8. Boundaries = {off[c] : c \in 0..n}
  <2>1. PICK s : s = bar.buffer /\ Laid(s, q, n, off)
    BY <1>2
  <2>2. {p \in 0..Len(s) : p = Len(s) \/ ~is_cont(s[p + 1])} = {off[c] : c \in 0..n}
    BY <2>1, BoundaryAt
  <2> QED
    BY <2>1, <2>2, Zenon DEF Boundaries
<1>9. /\ bar.buffer = Spelled(q) /\ q \in Seq(Alphabet)
      /\ bar = [buffer |-> bar.buffer, cursor |-> bar.cursor]
  BY <1>1 DEF Stands
<1>10. Drawn(q, n, off, m, g)
  BY <1>2, <1>3, <1>4, <1>5, <1>6, <1>7, <1>8, <1>9, Zenon DEF Drawn
<1> QED
  BY <1>10

LEMMA RowsFit == ScreenInv => RowsAreBuffer
<1> SUFFICES ASSUME ScreenInv PROVE RowsAreBuffer
  OBVIOUS
<1>0. PICK q, n, off, m, g : Drawn(q, n, off, m, g)
  BY PromptDrawn
<1>1. /\ n = Len(q) /\ off = Offsets(q) /\ Laid(bar.buffer, q, n, off)
      /\ bar.buffer = Spelled(q) /\ bar.buffer \in Seq(ByteSet) /\ q \in Seq(Alphabet)
      /\ Window(Width(size), PromptCols) /\ RowsNow \in Seq(RowRec)
      /\ Begins(RowsNow, q, n, off, 0, Width(size), PromptCols, m, g)
      /\ Boundaries = {off[c] : c \in 0..n}
  BY <1>0, Zenon DEF Drawn
<1>2. PICK rows \in Seq(RowRec) : rows = RowsNow /\ Begins(rows, q, n, off, 0, Width(size), PromptCols, m, g)
  BY <1>1
<1>3. PICK width : width = Width(size) /\ Window(width, PromptCols)
  BY <1>1
<1>4. n \in Nat
  BY <1>1, OffsetsStep
<1>6. m \in Nat \ {0} /\ DOMAIN rows = 1..m
  BY <1>2, LenProperties DEF Begins
<1>5. FlattenSeq([i \in DOMAIN rows |-> RowText(rows, i)]) = bar.buffer
  <2>1. FlattenSeq([i \in DOMAIN rows |->
          SubSeq(bar.buffer, rows[i].from + 1,
                 IF i < Len(rows) THEN rows[i + 1].from ELSE Len(bar.buffer))]) = bar.buffer
    BY <1>1, <1>2, RowsJoin
  <2>2. ASSUME NEW i \in DOMAIN rows
        PROVE  RowText(rows, i) = SubSeq(bar.buffer, rows[i].from + 1,
                 IF i < Len(rows) THEN rows[i + 1].from ELSE Len(bar.buffer))
    <3>1. RowReaches(bar.buffer, rows, i)
      BY <1>1, <1>2, <1>6, RowReach
    <3> QED
      BY <3>1 DEF RowReaches, RowText
  <2>3. [i \in DOMAIN rows |-> RowText(rows, i)]
        = [i \in DOMAIN rows |->
             SubSeq(bar.buffer, rows[i].from + 1,
                    IF i < Len(rows) THEN rows[i + 1].from ELSE Len(bar.buffer))]
    BY <2>2, Zenon
  <2> QED
    BY <2>1, <2>3
<1>7. ASSUME NEW i \in 1..m
      PROVE  /\ rows[i].from \in Boundaries /\ rows[i].to \in Boundaries
             /\ rows[i].col0 + Len(Decoded(SubSeq(bar.buffer, rows[i].from + 1, rows[i].to)))
                  < Width(size)
             /\ i > 1 => rows[i].from # rows[i].to \/ bar.buffer[rows[i].from] = "nl"
  <2>1. PICK e, t : RowShape(rows[i], q, n, off, width, PromptCols, g[i], e, t, g[i + 1])
    BY <1>1, <1>2, <1>3, <1>4, RowShapes
  <2>2. PICK c \in 0..n : c = g[i]
    BY <2>1 DEF RowShape
  <2>3. /\ e \in c..n /\ t \in c..e
        /\ ColumnAt(c, PromptCols) \in Nat /\ ColumnAt(c, PromptCols) + (t - c) < width
        /\ rows[i].from = off[c] /\ rows[i].to = off[t] /\ rows[i].col0 = ColumnAt(c, PromptCols)
    BY <2>1, <2>2 DEF RowShape, RowEnds
  <2>4. t \in 0..n /\ c <= t
    BY <1>4, <2>3
  <2>5. rows[i].from \in Boundaries /\ rows[i].to \in Boundaries
    BY <1>1, <2>3, <2>4
  <2>6. Len(Decoded(SubSeq(bar.buffer, rows[i].from + 1, rows[i].to))) = t - c
    <3>1. Len(Decoded(SubSeq(Spelled(q), Offsets(q)[c] + 1, Offsets(q)[t]))) = t - c
      BY <1>1, <1>4, <2>4, SliceDecoded
    <3> QED
      BY <1>1, <2>3, <3>1
  <2>7. ASSUME i > 1
        PROVE  rows[i].from # rows[i].to \/ bar.buffer[rows[i].from] = "nl"
    <3>1. PICK h \in 1..m : h + 1 = i
      BY <1>6, <2>7
    <3>2. PICK f, u : RowShape(rows[h], q, n, off, width, PromptCols, g[h], f, u, g[i])
      BY <1>1, <1>2, <1>3, <1>4, <3>1, RowShapes
    <3> QED
      BY <1>1, <2>1, <3>2, RowFresh
  <2>8. rows[i].col0 + Len(Decoded(SubSeq(bar.buffer, rows[i].from + 1, rows[i].to))) < Width(size)
    BY <1>3, <2>3, <2>6
  <2> QED
    BY <2>5, <2>7, <2>8
<1> QED
  BY <1>2, <1>5, <1>6, <1>7 DEF RowsAreBuffer

\* What is drawn of the rows is the prompt, whole and cut between characters, in every
\* window of at least six columns (InputBar.cpp:132-184).
THEOREM ScreenRows == Spec => []RowsAreBuffer
BY RowsFit, ScreenSafe, PTL

-----------------------------------------------------------------------------
(* The place of the cursor.                                                 *)

Rises(g, m) == \A i, j \in 1..(m + 1) : i < j => g[i] < g[j]

LEMMA BeginsRise ==
  ASSUME NEW rows, NEW q \in Seq(Alphabet), NEW n \in Nat, n = Len(q), NEW off, NEW c,
         NEW width, NEW prompt, Window(width, prompt), NEW m, NEW g,
         Begins(rows, q, n, off, c, width, prompt, m, g)
  PROVE  Rises(g, m)
<1>1. m \in Nat \ {0} /\ g \in [1..(m + 1) -> 0..(n + 1)]
  BY DEF Begins
<1>2. ASSUME NEW i \in 1..m PROVE g[i] < g[i + 1]
  <2>1. PICK e, t : RowShape(rows[i], q, n, off, width, prompt, g[i], e, t, g[i + 1])
    BY RowShapes
  <2> QED
    BY <2>1 DEF RowShape, RowEnds
<1> DEFINE G == {d \in 0..m : \A i \in 1..(m + 1) : i < d + 1 => g[i] < g[d + 1]}
<1>3. 0 \in G
  BY <1>1
<1>4. ASSUME NEW d \in 1..m, d - 1 \in G
      PROVE  d \in G
  <2>1. ASSUME NEW i \in 1..(m + 1), i < d + 1
        PROVE  g[i] < g[d + 1]
    <3>1. g[d] < g[d + 1] /\ g[i] \in Nat /\ g[d] \in Nat /\ g[d + 1] \in Nat
      <4>1. d \in 1..(m + 1) /\ d + 1 \in 1..(m + 1)
        BY <1>1
      <4> QED
        BY <1>1, <1>2, <4>1
    <3>2. CASE i = d
      BY <3>1, <3>2
    <3>3. CASE i # d
      <4>1. i < d - 1 + 1 /\ d - 1 + 1 = d
        BY <2>1, <3>3
      <4>2. g[i] < g[d]
        BY <1>4, <4>1
      <4> QED
        BY <3>1, <4>2
    <3> QED
      BY <3>2, <3>3
  <2> QED
    BY <1>1, <2>1
<1>5. 0..m \subseteq G
  <2> HIDE DEF G
  <2>1. m \in Nat
    BY <1>1
  <2> QED
    BY <1>3, <1>4, <2>1, Climb
<1>6. ASSUME NEW i \in 1..(m + 1), NEW j \in 1..(m + 1), i < j
      PROVE  g[i] < g[j]
  <2>1. PICK d \in 0..m : d + 1 = j
    <3>1. j - 1 \in 0..m /\ j - 1 + 1 = j
      BY <1>1
    <3> QED
      BY <3>1
  <2>2. d \in G
    BY <1>5
  <2> QED
    BY <1>6, <2>1, <2>2
<1> QED
  BY <1>6 DEF Rises

\* Every character but the end of the text is in one row, and so is that end.
RowHas(g, i, x) == g[i] <= x /\ x < g[i + 1]

LEMMA RowFound ==
  ASSUME NEW m \in Nat \ {0}, NEW n \in Nat, NEW g \in [1..(m + 1) -> 0..(n + 1)],
         g[1] = 0, g[m + 1] = n + 1, Rises(g, m), NEW x \in 0..n
  PROVE  \E i \in 1..m : RowHas(g, i, x) /\ \A j \in 1..m : RowHas(g, j, x) => j = i
<1> DEFINE S == {i \in 1..m : g[i] <= x}
<1>1. 1 \in S /\ S \in SUBSET (1..m) /\ S # {}
  OBVIOUS
<1>2. PICK i \in S : \A j \in S : i >= j
  <2> HIDE DEF S
  <2>1. m \in Nat
    OBVIOUS
  <2> QED
    BY <1>1, <2>1, LastPlace
<1>3. i \in 1..m /\ g[i] <= x
  OBVIOUS
<1>4. x < g[i + 1]
  <2>1. CASE i = m
    BY <2>1
  <2>2. CASE i # m
    <3>1. i + 1 \in 1..m /\ ~(i >= i + 1)
      BY <2>2
    <3>2. i + 1 \notin S
      <4> HIDE DEF S
      <4> QED
        BY <1>2, <3>1
    <3>3. ~(g[i + 1] <= x) /\ g[i + 1] \in Nat
      BY <3>1, <3>2
    <3> QED
      BY <3>3
  <2> QED
    BY <2>1, <2>2
<1>5. ASSUME NEW j \in 1..m, RowHas(g, j, x)
      PROVE  j = i
  <2>1. g[j] <= x /\ x < g[j + 1]
    BY <1>5 DEF RowHas
  <2>2. /\ j \in 1..(m + 1) /\ j + 1 \in 1..(m + 1) /\ i \in 1..(m + 1) /\ i + 1 \in 1..(m + 1)
        /\ g[i] \in Nat /\ g[i + 1] \in Nat /\ g[j] \in Nat /\ g[j + 1] \in Nat
    OBVIOUS
  <2>3. ~(j < i)
    <3>1. SUFFICES ASSUME j < i PROVE FALSE
      OBVIOUS
    <3>2. j + 1 = i \/ j + 1 < i
      BY <3>1
    <3>3. g[j + 1] <= g[i]
      BY <2>2, <3>2 DEF Rises
    <3> QED
      BY <1>3, <2>1, <2>2, <3>3
  <2>4. ~(i < j)
    <3>1. SUFFICES ASSUME i < j PROVE FALSE
      OBVIOUS
    <3>2. i + 1 = j \/ i + 1 < j
      BY <3>1
    <3>3. g[i + 1] <= g[j]
      BY <2>2, <3>2 DEF Rises
    <3> QED
      BY <1>4, <2>1, <2>2, <3>3
  <2> QED
    BY <2>3, <2>4
<1> QED
  BY <1>3, <1>4, <1>5 DEF RowHas

\* The row that holds the cursor is the one that has its character.
LEMMA HoldsAt ==
  ASSUME NEW s, NEW q, NEW n, NEW off, Laid(s, q, n, off), NEW width, NEW prompt,
         NEW row, NEW c, NEW e, NEW t, NEW z,
         RowShape(row, q, n, off, width, prompt, c, e, t, z), NEW x \in 0..n
  PROVE  Holds(s, row, off[x]) <=> c <= x /\ x < z
<1>1. /\ c \in 0..n /\ e = EndIn(q, c) /\ e \in c..n /\ t \in c..e /\ z \in c + 1..n + 1
      /\ (t < e => z = t) /\ (t = e => z = e + 1)
      /\ row.from = off[c] /\ row.to = off[t]
  BY DEF RowShape, RowEnds
<1>2. n \in Nat /\ off \in [0..n -> Nat]
  BY OffsetsStep
<1>3. e \in 0..n /\ t \in 0..n
  BY <1>1, <1>2
<1>4. line_end(s, row.from) = off[e]
  BY <1>1, EndAt
<1>5. off[c] \in Nat /\ off[t] \in Nat /\ off[x] \in Nat
  BY <1>1, <1>2, <1>3
<1>a. off[c] <= off[x] <=> c <= x
  BY <1>1, OffsetsOrder
<1>b. (off[x] <= off[t] <=> x <= t) /\ (off[x] < off[t] <=> x < t)
  BY <1>3, OffsetsOrder
<1>c. off[t] = off[e] <=> t = e
  BY <1>3, OffsetsOrder
<1>6. Holds(s, row, off[x]) <=> (c <= x /\ x <= t /\ (x < t \/ t = e))
  <2>1. Holds(s, row, off[x]) <=> (off[x] \in off[c]..off[t] /\ (off[x] < off[t] \/ off[t] = off[e]))
    BY <1>1, <1>4, Zenon DEF Holds
  <2>2. off[x] \in off[c]..off[t] <=> (off[c] <= off[x] /\ off[x] <= off[t])
    BY <1>5
  <2> QED
    BY <1>a, <1>b, <1>c, <2>1, <2>2
<1>7. (c <= x /\ x <= t /\ (x < t \/ t = e)) <=> (c <= x /\ x < z)
  <2>1. CASE t = e
    BY <1>1, <1>2, <2>1
  <2>2. CASE t < e
    BY <1>1, <1>2, <2>2
  <2> QED
    BY <1>1, <2>1, <2>2
<1> QED
  BY <1>6, <1>7

\* With the cursor before the character x, it is in the i-th row and the column col.
LaysOut(g, n, x, p, i, col) ==
  /\ g[i] \in 0..n /\ RowHas(g, i, x)
  /\ col = ColumnAt(g[i], PromptCols) + (x - g[i]) /\ col < Width(size)
  /\ wrap_layout([bar EXCEPT !.cursor = p], Width(size), PromptCols) =
       [rows |-> RowsNow, cursor_row |-> i - 1, cursor_col |-> col]

LEMMA LayoutAt ==
  ASSUME NEW q, NEW n, NEW off, NEW m, NEW g, Drawn(q, n, off, m, g), NEW x \in 0..n
  PROVE  \E i \in 1..m : \E col \in Nat : LaysOut(g, n, x, off[x], i, col)
<1>1. /\ q \in Seq(Alphabet) /\ n \in Nat /\ n = Len(q)
      /\ Laid(bar.buffer, q, n, off)
      /\ bar = [buffer |-> bar.buffer, cursor |-> bar.cursor]
  BY DEF Drawn
<1>2. PICK s : s = bar.buffer /\ Laid(s, q, n, off)
  BY <1>1
<1>3. PICK width : width = Width(size) /\ Window(width, PromptCols)
  BY DEF Drawn
<1>4. PICK rows \in Seq(RowRec) :
        /\ rows = RowsNow /\ rows = Rows(s, width, PromptCols)
        /\ Begins(rows, q, n, off, 0, width, PromptCols, m, g)
  BY <1>2, <1>3 DEF Drawn, RowsNow
<1>5. /\ m \in Nat \ {0} /\ g \in [1..(m + 1) -> 0..(n + 1)] /\ g[1] = 0 /\ g[m + 1] = n + 1
      /\ DOMAIN rows = 1..m
  BY <1>4, LenProperties DEF Begins
<1>6. Rises(g, m)
  BY <1>1, <1>3, <1>4, BeginsRise
<1>7. PICK i \in 1..m : RowHas(g, i, x) /\ \A j \in 1..m : RowHas(g, j, x) => j = i
  BY <1>1, <1>5, <1>6, RowFound
<1>8. ASSUME NEW j \in 1..m
      PROVE  Holds(s, rows[j], off[x]) <=> RowHas(g, j, x)
  <2>1. PICK e, t : RowShape(rows[j], q, n, off, width, PromptCols, g[j], e, t, g[j + 1])
    BY <1>1, <1>3, <1>4, RowShapes
  <2>2. Holds(s, rows[j], off[x]) <=> g[j] <= x /\ x < g[j + 1]
    BY <1>2, <2>1, HoldsAt
  <2> QED
    BY <2>2 DEF RowHas
<1>9. Min({j \in DOMAIN rows : Holds(s, rows[j], off[x])}) = i
  <2>1. {j \in DOMAIN rows : Holds(s, rows[j], off[x])} = {i}
    BY <1>5, <1>7, <1>8
  <2>2. Min({i}) = i
    <3>1. PICK S : S = {i}
      OBVIOUS
    <3>2. i \in S /\ \A j \in S : j \in Int /\ i <= j
      BY <1>5, <3>1
    <3>3. Min(S) = i
      BY <3>2, Least
    <3> QED
      BY <3>1, <3>3
  <2> QED
    BY <2>1, <2>2
<1>10. PICK e, t : RowShape(rows[i], q, n, off, width, PromptCols, g[i], e, t, g[i + 1])
  BY <1>1, <1>3, <1>4, RowShapes
<1>11. PICK c \in 0..n : c = g[i]
  BY <1>10 DEF RowShape
<1>12. /\ e \in c..n /\ t \in c..e /\ (t < e => g[i + 1] = t) /\ (t = e => g[i + 1] = e + 1)
       /\ ColumnAt(c, PromptCols) \in Nat /\ ColumnAt(c, PromptCols) + (t - c) < width
       /\ rows[i].from = off[c] /\ rows[i].col0 = ColumnAt(c, PromptCols)
  BY <1>10, <1>11 DEF RowShape, RowEnds
<1>13. c <= x /\ x <= t
  <2>1. c <= x /\ x < g[i + 1]
    BY <1>7, <1>11 DEF RowHas
  <2> QED
    BY <1>1, <1>12, <2>1
<1>14. count(s, rows[i].from, off[x]) = x - c
  BY <1>2, <1>12, <1>13, CountAt
<1>15. PICK o \in Nat : o = ColumnAt(c, PromptCols)
  BY <1>12
<1>16. PICK col \in Nat : col = o + (x - c) /\ col < width
  <2>1. width \in Nat
    BY <1>3 DEF Window
  <2> QED
    BY <1>12, <1>13, <1>15, <2>1
<1>17. PICK b : b = [bar EXCEPT !.cursor = off[x]] /\ b.buffer = s /\ b.cursor = off[x]
  <2>1. PICK p : p = off[x]
    OBVIOUS
  <2>2. PICK a : a = bar.cursor
    OBVIOUS
  <2>3. bar = [buffer |-> s, cursor |-> a]
    BY <1>1, <1>2, <2>2
  <2>4. [bar EXCEPT !.cursor = p] = [buffer |-> s, cursor |-> p]
    <3>1. [[buffer |-> s, cursor |-> a] EXCEPT !.cursor = p] = [buffer |-> s, cursor |-> p]
      OBVIOUS
    <3> QED
      BY <2>3, <3>1
  <2>5. [buffer |-> s, cursor |-> p].buffer = s /\ [buffer |-> s, cursor |-> p].cursor = p
    OBVIOUS
  <2> QED
    BY <2>1, <2>4, <2>5
<1>18. wrap_layout(b, width, PromptCols) =
         [rows |-> rows, cursor_row |-> i - 1, cursor_col |-> col]
  <2>1. rows[i].col0 + count(s, rows[i].from, off[x]) = col
    BY <1>12, <1>14, <1>15, <1>16
  <2> QED
    BY <1>4, <1>9, <1>17, <2>1, Zenon DEF wrap_layout
<1>19. /\ g[i] \in 0..n /\ RowHas(g, i, x)
       /\ col = ColumnAt(g[i], PromptCols) + (x - g[i]) /\ col < Width(size)
  BY <1>3, <1>7, <1>11, <1>15, <1>16
<1>20. wrap_layout([bar EXCEPT !.cursor = off[x]], Width(size), PromptCols) =
         [rows |-> RowsNow, cursor_row |-> i - 1, cursor_col |-> col]
  BY <1>3, <1>4, <1>17, <1>18
<1>21. LaysOut(g, n, x, off[x], i, col)
  BY <1>19, <1>20, Zenon DEF LaysOut
<1> QED
  BY <1>21

\* The window follows the cursor: the row it is in is one of those shown.
Opens(rows, r, col, height, first) ==
  /\ FirstRow([rows |-> rows, cursor_row |-> r, cursor_col |-> col], height) = first
  /\ r - first \in 0..(height - 1)

LEMMA FirstRowIs ==
  ASSUME NEW rows, NEW m \in Nat \ {0}, Len(rows) = m, NEW r \in 0..(m - 1), NEW col,
         NEW most \in Nat \ {0}, NEW height, height = IF most <= m THEN most ELSE m
  PROVE  \E first \in Nat : Opens(rows, r, col, height, first)
<1>1. PICK layout : layout = [rows |-> rows, cursor_row |-> r, cursor_col |-> col]
  OBVIOUS
<1>2. layout.rows = rows /\ layout.cursor_row = r
  BY <1>1
<1>a. height \in Nat \ {0} /\ height <= m
  OBVIOUS
<1>3. PICK first \in Int : first = IF m > height /\ r >= height THEN r - height + 1 ELSE 0
  <2>1. (IF m > height /\ r >= height THEN r - height + 1 ELSE 0) \in Int
    BY <1>a
  <2> QED
    BY <2>1
<1>4. FirstRow(layout, height) = first
  BY <1>2, <1>3 DEF FirstRow
<1>5. first \in Nat /\ r - first \in 0..(height - 1)
  <2>1. CASE m > height /\ r >= height
    BY <1>3, <1>a, <2>1
  <2>2. CASE ~(m > height /\ r >= height)
    <3>1. first = 0
      BY <1>3, <2>2
    <3>2. r < height
      BY <1>a, <2>2
    <3> QED
      BY <1>a, <3>1, <3>2
  <2> QED
    BY <2>1, <2>2
<1> QED
  BY <1>1, <1>4, <1>5 DEF Opens

PlaceOf(p, i, col, first) == p = [row |-> i - 1 - first, col |-> col, first |-> first]

PlacedAt(p, g, n, x, i, col, first) ==
  /\ g[i] \in 0..n /\ col = ColumnAt(g[i], PromptCols) + (x - g[i])
  /\ PlaceOf(p, i, col, first)
  /\ i - 1 - first \in 0..(InputRows(bar, size) - 1) /\ col \in 0..(Width(size) - 1)

LEMMA PlaceAt ==
  ASSUME NEW q, NEW n, NEW off, NEW m, NEW g, Drawn(q, n, off, m, g), NEW x \in 0..n
  PROVE  \E i \in 1..m, col \in Nat, first \in Nat :
           PlacedAt(Place(off[x]), g, n, x, i, col, first)
<1>1. /\ size \in Sizes /\ bar.buffer \in Seq(ByteSet)
      /\ Begins(RowsNow, q, n, off, 0, Width(size), PromptCols, m, g)
      /\ Window(Width(size), PromptCols)
  BY DEF Drawn
<1>2. m \in Nat \ {0} /\ Len(RowsNow) = m
  BY <1>1 DEF Begins
<1>a. PICK i \in 1..m : \E col \in Nat : LaysOut(g, n, x, off[x], i, col)
  BY LayoutAt
<1>b. PICK col \in Nat : LaysOut(g, n, x, off[x], i, col)
  BY <1>a
<1>3. /\ g[i] \in 0..n /\ RowHas(g, i, x)
      /\ col = ColumnAt(g[i], PromptCols) + (x - g[i]) /\ col < Width(size)
      /\ wrap_layout([bar EXCEPT !.cursor = off[x]], Width(size), PromptCols) =
           [rows |-> RowsNow, cursor_row |-> i - 1, cursor_col |-> col]
  BY <1>b DEF LaysOut
<1>4. PICK most \in Nat \ {0} : most = kMaxInputRows
  BY ScreenAssumption DEF ScreenAssumption
<1>5. PICK height \in Nat : height = InputRows(bar, size) /\ height = IF most <= m THEN most ELSE m
  <2>1. PICK l : l = Len(Rows(bar.buffer, Width(size), PromptCols))
    OBVIOUS
  <2>2. l = m
    BY <1>2, <2>1 DEF RowsNow
  <2>3. InputRows(bar, size) = IF l = 0 THEN 1 ELSE IF kMaxInputRows <= l THEN kMaxInputRows ELSE l
    BY <1>1, <2>1, WindowTypes, Zenon
  <2> QED
    BY <1>2, <1>4, <2>2, <2>3
<1>6. PICK r \in 0..(m - 1) : r = i - 1
  BY <1>2
<1>7. PICK layout : layout = [rows |-> RowsNow, cursor_row |-> r, cursor_col |-> col]
  OBVIOUS
<1>8. PICK first \in Nat : FirstRow(layout, height) = first /\ r - first \in 0..(height - 1)
  <2>a. PICK rows : rows = RowsNow /\ Len(rows) = m
    BY <1>2
  <2>1. \E first \in Nat : Opens(rows, r, col, height, first)
    BY <1>2, <1>4, <1>5, <2>a, FirstRowIs
  <2> QED
    BY <1>7, <2>a, <2>1 DEF Opens
<1>9. wrap_layout([bar EXCEPT !.cursor = off[x]], Width(size), PromptCols) = layout
  BY <1>3, <1>6, <1>7
<1>10. layout.cursor_row = r /\ layout.cursor_col = col
  BY <1>7
<1>11. Place(off[x]) = [row |-> r - first, col |-> col, first |-> first]
  BY <1>5, <1>8, <1>9, <1>10, Zenon DEF Place
<1>12. PlaceOf(Place(off[x]), i, col, first)
  BY <1>6, <1>11 DEF PlaceOf
<1>13. col \in 0..(Width(size) - 1)
  BY <1>1, <1>3 DEF Window
<1>14. i - 1 - first \in 0..(InputRows(bar, size) - 1)
  BY <1>5, <1>6, <1>8
<1>15. PlacedAt(Place(off[x]), g, n, x, i, col, first)
  BY <1>3, <1>12, <1>13, <1>14 DEF PlacedAt
<1> QED
  BY <1>15

\* Two characters are never at one place.
LEMMA PlacesApart ==
  ASSUME NEW q, NEW n, NEW off, NEW m, NEW g, Drawn(q, n, off, m, g),
         NEW x \in 0..n, NEW y \in 0..n, Place(off[x]) = Place(off[y])
  PROVE  x = y
<1>1. PICK i \in 1..m, col \in Nat, first \in Nat :
        PlacedAt(Place(off[x]), g, n, x, i, col, first)
  BY PlaceAt
<1>2. PICK j \in 1..m, c \in Nat, f \in Nat : PlacedAt(Place(off[y]), g, n, y, j, c, f)
  BY PlaceAt
<1>3. /\ g[i] \in 0..n /\ col = ColumnAt(g[i], PromptCols) + (x - g[i])
      /\ Place(off[x]) = [row |-> i - 1 - first, col |-> col, first |-> first]
  BY <1>1 DEF PlacedAt, PlaceOf
<1>4. /\ g[j] \in 0..n /\ c = ColumnAt(g[j], PromptCols) + (y - g[j])
      /\ Place(off[y]) = [row |-> j - 1 - f, col |-> c, first |-> f]
  BY <1>2 DEF PlacedAt, PlaceOf
<1>5. first = f /\ col = c /\ i - 1 - first = j - 1 - f
  <2>1. PICK p : p = Place(off[x]) /\ p = Place(off[y])
    OBVIOUS
  <2>2. PICK u : u = i - 1 - first
    OBVIOUS
  <2>3. PICK v : v = j - 1 - f
    OBVIOUS
  <2>4. p = [row |-> u, col |-> col, first |-> first] /\ p = [row |-> v, col |-> c, first |-> f]
    BY <1>3, <1>4, <2>1, <2>2, <2>3
  <2>5. p.row = u /\ p.col = col /\ p.first = first
    BY <2>4
  <2>6. p.row = v /\ p.col = c /\ p.first = f
    BY <2>4
  <2> QED
    BY <2>2, <2>3, <2>5, <2>6
<1>6. m \in Nat /\ n \in Nat
  BY DEF Drawn, Begins
<1>7. i = j
  BY <1>5, <1>6
<1>8. PICK k \in Nat : k = ColumnAt(g[i], PromptCols)
  <2>1. ColumnAt(g[i], PromptCols) \in Nat
    BY <1>3, <1>6 DEF ColumnAt, PromptCols
  <2> QED
    BY <2>1
<1>9. PICK a \in 0..n : a = g[i]
  BY <1>3
<1> QED
  BY <1>3, <1>4, <1>5, <1>6, <1>7, <1>8, <1>9

LEMMA CursorFits == ScreenInv => CursorShown
<1> SUFFICES ASSUME ScreenInv PROVE CursorShown
  OBVIOUS
<1>1. PICK q, n, off, m, g : Drawn(q, n, off, m, g)
  BY PromptDrawn
<1>2. Boundaries = {off[c] : c \in 0..n}
  BY <1>1, Zenon DEF Drawn
<1>3. ASSUME NEW p \in Boundaries
      PROVE  Place(p).row \in 0..(InputRows(bar, size) - 1) /\ Place(p).col \in 0..(Width(size) - 1)
  <2>1. PICK x \in 0..n : p = off[x]
    BY <1>2
  <2>2. PICK i \in 1..m, col \in Nat, first \in Nat :
          PlacedAt(Place(off[x]), g, n, x, i, col, first)
    BY <1>1, PlaceAt
  <2>3. /\ Place(off[x]) = [row |-> i - 1 - first, col |-> col, first |-> first]
        /\ i - 1 - first \in 0..(InputRows(bar, size) - 1) /\ col \in 0..(Width(size) - 1)
    BY <2>2 DEF PlacedAt, PlaceOf
  <2> QED
    BY <2>1, <2>3
<1> DEFINE places == {Place(p) : p \in Boundaries}
<1> DEFINE at == [p \in Boundaries |-> Place(p)]
<1>4. at \in Surjection(Boundaries, places)
  BY DEF Surjection
<1>5. IsFiniteSet(Boundaries)
  <2>1. Len(bar.buffer) \in Int
    BY <1>1, LenProperties DEF Drawn
  <2>2. IsFiniteSet(0..Len(bar.buffer))
    BY <2>1, FS_Interval
  <2>3. Boundaries \in SUBSET (0..Len(bar.buffer))
    BY DEF Boundaries
  <2> QED
    BY <2>2, <2>3, FS_Subset
<1>6. ASSUME NEW p \in Boundaries, NEW r \in Boundaries, Place(p) = Place(r)
      PROVE  p = r
  <2>1. PICK x \in 0..n : p = off[x]
    BY <1>2
  <2>2. PICK y \in 0..n : r = off[y]
    BY <1>2
  <2>3. x = y
    BY <1>1, <1>6, <2>1, <2>2, PlacesApart
  <2> QED
    BY <2>1, <2>2, <2>3
<1>7. at \in Injection(Boundaries, places)
  BY <1>6 DEF Injection, IsInjective
<1>8. Cardinality(places) = Cardinality(Boundaries)
  <2> HIDE DEF places, at
  <2> QED
    BY <1>4, <1>5, <1>7, FS_Surjection
<1> QED
  BY <1>3, <1>8, Zenon DEF CursorShown

\* Wherever the cursor is put, the frame shows it inside the window, at a place no other
\* position has, at any size of the terminal (InputBar.cpp:157-168, 203-223).
THEOREM ScreenCursor == Spec => []CursorShown
BY CursorFits, ScreenSafe, PTL
=============================================================================
