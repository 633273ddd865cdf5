---------------------------- MODULE MpcParse_proofs ----------------------------
(***************************************************************************)
(* The parsing machine of mpc: its input stays within its text, its two    *)
(* stacks fit each other and their arrays, marks are taken back in pairs,  *)
(* and every value and error has one place, for every set of parsers and   *)
(* of texts.                                                               *)
(***************************************************************************)
EXTENDS MpcParse, Recursion_proofs, SequenceTheorems, FiniteSetTheorems, TLAPS

\* The characters there are, and none.
Characters == {""} \cup UNION {Range(t) : t \in Texts}

\* What an input is made of.
Inputs ==
  [ kind : Kinds, text : Texts, pos : Nat, last : Characters,
    marks : Seq([pos : Nat, last : Characters]), backtrack : Int,
    buffer : Seq(Characters), off : Nat, eof : BOOLEAN ]

\* All that was read since the first mark of a pipe is in its buffer, and the
\* position and the marks are within it.
Buffered(i) ==
  LET first == i.marks[1].pos
      read == first + Len(i.buffer)
  IN  /\ read <= i.off
      /\ first <= i.pos /\ i.pos <= read
      /\ \A k \in 1..Len(i.marks) : first <= i.marks[k].pos /\ i.marks[k].pos <= read

\* The input is at a place in its text, and so are its marks.
Sound(i) ==
  /\ i \in Inputs
  /\ i.pos <= Len(i.text) /\ i.off <= Len(i.text)
  /\ i.eof => i.off = Len(i.text)
  /\ i.kind = "file" => i.off = i.pos
  /\ i.kind = "pipe" => i.pos <= i.off /\ (i.marks # <<>> => Buffered(i))
  /\ i.kind = "pipe" /\ i.marks = <<>> => i.buffer = <<>>
  /\ \A k \in 1..Len(i.marks) : i.marks[k].pos <= Len(i.text)

\* An error, at a place in a text of length n or before it.
IsError(e, n) ==
  /\ e = [pos |-> e.pos, failure |-> e.failure, expected |-> e.expected]
  /\ e.pos \in -1..n

\* The states that a parser goes through.
Reached(q, s) ==
  \/ s = 0
  \/ q.type \in OfOne /\ s = 1
  \/ q.type \in {"MANY", "MANY1", "COUNT"}
  \/ q.type \in {"AND", "OR"} /\ s <= Len(q.xs)

\* A parser that is under another waits for it.
Waiting ==
  /\ parsers \in Seq([p : Parsers, st : Nat])
  /\ \A k \in 1..Len(parsers) : Reached(Resolve(parsers[k].p), parsers[k].st)
  /\ \A k \in 1..(Len(parsers) - 1) : parsers[k].st > 0

\* The results, and which of them are good: a parser goes on asking for more
\* while they are, or, if it wants one of several, while they are not.
Collected ==
  /\ results \in Seq(Range(results))
  /\ \A j \in 1..Len(results) :
       results[j].ok \in BOOLEAN /\ IsError(results[j].error, Len(input.text))
  /\ \A k \in 1..Len(parsers), j \in 1..Len(results) :
       /\ Held(parsers)[k - 1] <= j
       /\ j < Held(parsers)[k - 1] + parsers[k].st - 1
       => results[j].ok = (Resolve(parsers[k].p).type # "OR")

\* When the machine has stopped there is nothing left on its stacks.
Stopped == outcome # Pending => parsers = <<>> /\ results = <<>>

Room ==
  /\ slots \in [parsers : Nat, results : Nat]
  /\ Len(parsers) <= slots.parsers /\ Len(results) <= slots.results

ParsingInv ==
  /\ Sound(input)
  /\ IsError(err, Len(input.text))
  /\ Waiting
  /\ Collected
  /\ Stopped
  /\ Room
  /\ StacksAgree
  /\ MarksBalanced
  /\ NothingLeaks
-----------------------------------------------------------------------------
(* Sequences.                                                              *)

\* The front of a sequence is what comes before its last element.
LEMMA FrontProperties ==
  ASSUME NEW S, NEW s \in Seq(S), s # <<>>
  PROVE  /\ Len(s) \in Nat \ {0}
         /\ Front(s) \in Seq(S) /\ Len(Front(s)) = Len(s) - 1
         /\ \A k \in 1..(Len(s) - 1) : Front(s)[k] = s[k]
         /\ Last(s) \in S /\ Last(s) = s[Len(s)]
<1>1. Len(s) \in Nat \ {0}
  BY EmptySeq
<1>2. \A k \in 1..Len(s) : s[k] \in S
  BY ElementOfSeq
<1>3. /\ SubSeq(s, 1, Len(s) - 1) \in Seq(S)
      /\ Len(SubSeq(s, 1, Len(s) - 1)) = Len(s) - 1
      /\ \A k \in 1..(Len(s) - 1) : SubSeq(s, 1, Len(s) - 1)[k] = s[k]
  <2>1. \A k \in 1..(Len(s) - 1) : s[k] \in S
    BY <1>1, <1>2
  <2>2. /\ SubSeq(s, 1, Len(s) - 1) \in Seq(S)
        /\ Len(SubSeq(s, 1, Len(s) - 1))
             = IF 1 <= Len(s) - 1 THEN Len(s) - 1 - 1 + 1 ELSE 0
        /\ \A k \in 1..(Len(s) - 1 - 1 + 1) : SubSeq(s, 1, Len(s) - 1)[k] = s[1 + k - 1]
    BY <1>1, <2>1, SubSeqProperties
  <2>3. Len(s) - 1 - 1 + 1 = Len(s) - 1 /\ \A k \in Int : 1 + k - 1 = k
    BY <1>1
  <2> QED
    BY <1>1, <2>2, <2>3
<1> QED
  BY <1>1, <1>2, <1>3 DEF Front, Last

\* A sequence is one of its own elements.
LEMMA SequenceOfItsOwn ==
  ASSUME NEW S, NEW s \in Seq(S)
  PROVE  s \in Seq(Range(s))
<1>1. Len(s) \in Nat /\ s \in [1..Len(s) -> S] /\ DOMAIN s = 1..Len(s)
  BY LenProperties
<1>2. s \in [1..Len(s) -> Range(s)]
  BY <1>1 DEF Range
<1> QED
  BY <1>1, <1>2, SeqDef

-----------------------------------------------------------------------------
(* The input.                                                              *)

\* Marks are all that differs.
Moved(i, j) == j.text = i.text /\ j.kind = i.kind /\ j.backtrack = i.backtrack

\* A mark is one more.
LEMMA MarkSound ==
  ASSUME NEW i, Sound(i)
  PROVE  /\ Sound(mark(i)) /\ Moved(i, mark(i))
         /\ Len(mark(i).marks) = Len(i.marks) + (IF i.backtrack < 1 THEN 0 ELSE 1)
<1> DEFINE m == [pos |-> i.pos, last |-> i.last]
<1>1. i \in Inputs /\ m \in [pos : Nat, last : Characters]
  BY DEF Sound, Inputs
<1>2. i.marks \in Seq([pos : Nat, last : Characters]) /\ Len(i.marks) \in Nat /\ i.backtrack \in Int
  BY <1>1 DEF Inputs
<1>3. CASE i.backtrack < 1
  BY <1>2, <1>3 DEF mark, Moved
<1>4. CASE ~(i.backtrack < 1)
  <2> DEFINE j == mark(i)
  <2>1. j = [i EXCEPT !.marks = Append(i.marks, m)]
    BY <1>4 DEF mark
  <2>2. /\ Append(i.marks, m) \in Seq([pos : Nat, last : Characters])
        /\ Len(Append(i.marks, m)) = Len(i.marks) + 1
        /\ \A k \in 1..Len(i.marks) : Append(i.marks, m)[k] = i.marks[k]
        /\ Append(i.marks, m)[Len(i.marks) + 1] = m
    BY <1>1, <1>2, AppendProperties
  <2>3. /\ j \in Inputs /\ j.marks = Append(i.marks, m)
        /\ j.text = i.text /\ j.kind = i.kind /\ j.backtrack = i.backtrack
        /\ j.pos = i.pos /\ j.off = i.off /\ j.eof = i.eof /\ j.buffer = i.buffer
    BY <1>1, <2>1, <2>2 DEF Inputs
  <2> HIDE DEF j
  <2>4. /\ i.pos \in Nat /\ i.off \in Nat /\ Len(i.buffer) \in Nat
    BY <1>1 DEF Inputs
  <2>5. j.marks # <<>>
    BY <1>2, <2>2, <2>3
  <2>6. ASSUME i.kind = "pipe" PROVE Buffered(j)
    <3>1. CASE i.marks = <<>>
      <4>1. i.buffer = <<>> /\ Len(i.marks) = 0 /\ Len(i.buffer) = 0 /\ i.pos <= i.off
        BY <2>6, <3>1 DEF Sound
      <4>2. j.marks[1].pos = i.pos /\ Len(j.marks) = 1 /\ Len(j.buffer) = 0
        BY <2>2, <2>3, <4>1
      <4>3. \A k \in 1..Len(j.marks) : j.marks[k].pos = i.pos
        BY <4>2
      <4> HIDE DEF m
      <4> QED
        BY <2>3, <2>4, <4>1, <4>2, <4>3 DEF Buffered
    <3>2. CASE i.marks # <<>>
      <4>1. Buffered(i) /\ Len(i.marks) >= 1
        BY <1>2, <2>6, <3>2, EmptySeq DEF Sound
      <4>2. j.marks[1] = i.marks[1] /\ i.marks[1].pos \in Nat
        <5>1. 1 \in 1..Len(i.marks)
          BY <1>2, <4>1
        <5>2. i.marks[1] \in [pos : Nat, last : Characters]
          BY <1>2, <5>1, ElementOfSeq
        <5> QED
          BY <2>2, <2>3, <5>1, <5>2
      <4>3. Len(j.marks) = Len(i.marks) + 1 /\ j.marks[Len(j.marks)].pos = i.pos
        BY <2>2, <2>3
      <4>4. ASSUME NEW k \in 1..Len(j.marks)
            PROVE  k = Len(j.marks) \/ (k \in 1..Len(i.marks) /\ j.marks[k].pos = i.marks[k].pos)
        BY <1>2, <2>2, <2>3
      <4> DEFINE first == i.marks[1].pos
                 read == first + Len(i.buffer)
      <4>5. read <= i.off /\ first <= i.pos /\ i.pos <= read
        BY <4>1 DEF Buffered
      <4>6. ASSUME NEW k \in 1..Len(j.marks)
            PROVE  first <= j.marks[k].pos /\ j.marks[k].pos <= read
        <5>1. \A l \in 1..Len(i.marks) : first <= i.marks[l].pos /\ i.marks[l].pos <= read
          BY <4>1 DEF Buffered
        <5> HIDE DEF first, read
        <5> QED
          BY <4>3, <4>4, <4>5, <5>1
      <4>7. j.marks[1].pos = first /\ first + Len(j.buffer) = read
        BY <2>3, <4>2
      <4> HIDE DEF first, read
      <4> QED
        BY <2>3, <4>5, <4>6, <4>7 DEF Buffered
    <3> QED
      BY <3>1, <3>2
  <2>7. \A k \in 1..Len(j.marks) : j.marks[k].pos <= Len(j.text)
    <3>1. i.pos <= Len(i.text) /\ \A k \in 1..Len(i.marks) : i.marks[k].pos <= Len(i.text)
      BY DEF Sound
    <3>2. \A k \in 1..Len(j.marks) : k = Len(j.marks) \/ k \in 1..Len(i.marks)
      BY <1>2, <2>2, <2>3
    <3> QED
      BY <1>2, <2>2, <2>3, <3>1, <3>2
  <2>8. Sound(j)
    BY <2>3, <2>5, <2>6, <2>7 DEF Sound
  <2>9. Len(j.marks) = Len(i.marks) + 1
    BY <2>2, <2>3
  <2>10. j = mark(i)
    BY DEF j
  <2> QED
    BY <1>4, <2>3, <2>8, <2>9, <2>10 DEF Moved
<1> QED
  BY <1>3, <1>4

\* The last mark is one less; with the first goes the buffer.
LEMMA UnmarkSound ==
  ASSUME NEW i, Sound(i), i.backtrack < 1 \/ i.marks # <<>>
  PROVE  /\ Sound(unmark(i)) /\ Moved(i, unmark(i))
         /\ Len(unmark(i).marks) = Len(i.marks) - (IF i.backtrack < 1 THEN 0 ELSE 1)
<1>1. i \in Inputs
  BY DEF Sound
<1>2. i.marks \in Seq([pos : Nat, last : Characters]) /\ Len(i.marks) \in Nat /\ i.backtrack \in Int
  BY <1>1 DEF Inputs
<1>3. CASE i.backtrack < 1
  BY <1>2, <1>3 DEF unmark, Moved
<1>4. CASE ~(i.backtrack < 1)
  <2> DEFINE j == unmark(i)
             b == IF Len(i.marks) = 1 THEN <<>> ELSE i.buffer
  <2>1. j = [i EXCEPT !.marks = Front(i.marks), !.buffer = b]
    BY <1>4 DEF unmark
  <2>2. /\ Len(i.marks) \in Nat \ {0}
        /\ Front(i.marks) \in Seq([pos : Nat, last : Characters])
        /\ Len(Front(i.marks)) = Len(i.marks) - 1
        /\ \A k \in 1..(Len(i.marks) - 1) : Front(i.marks)[k] = i.marks[k]
    BY <1>2, <1>4, FrontProperties
  <2>3. b \in Seq(Characters)
    <3>1. i.buffer \in Seq(Characters) /\ <<>> \in Seq(Characters)
      BY <1>1, EmptySeq DEF Inputs
    <3> QED
      BY <3>1
  <2> HIDE DEF b
  <2>4. /\ j \in Inputs /\ j.marks = Front(i.marks) /\ j.buffer = b
        /\ j.text = i.text /\ j.kind = i.kind /\ j.backtrack = i.backtrack
        /\ j.pos = i.pos /\ j.off = i.off /\ j.eof = i.eof
    BY <1>1, <2>1, <2>2, <2>3 DEF Inputs
  <2> HIDE DEF j
  <2>5. i.kind = "pipe" /\ j.marks = <<>> => j.buffer = <<>>
    BY <1>2, <2>2, <2>4 DEF b
  <2>6. ASSUME i.kind = "pipe", j.marks # <<>> PROVE Buffered(j)
    <3>1. Len(i.marks) > 1 /\ j.buffer = i.buffer
      <4>1. Len(j.marks) >= 1
        <5>1. Len(j.marks) \in Nat \ {0}
          BY <2>2, <2>4, <2>6, EmptySeq
        <5> QED
          BY <5>1
      <4>2. Len(j.marks) = Len(i.marks) - 1 /\ Len(i.marks) \in Nat
            /\ Len(i.marks) >= 1
        BY <2>2, <2>4
      <4>3. Len(i.marks) > 1
        BY <4>1, <4>2
      <4>4. j.buffer = b
        BY <2>4
      <4>5. Len(i.marks) # 1
        <5>1. \A n \in Nat : n > 1 => n # 1
          OBVIOUS
        <5> QED
          BY <1>2, <4>3, <5>1, Zenon
      <4>6. b = i.buffer
        BY <4>5, Zenon DEF b
      <4> QED
        BY <4>3, <4>4, <4>6
    <3>2. Buffered(i)
      BY <1>2, <2>6, <3>1 DEF Sound
    <3>3. j.marks[1] = i.marks[1]
      BY <2>2, <2>4, <3>1
    <3>4. \A k \in 1..Len(j.marks) : k \in 1..Len(i.marks) /\ j.marks[k] = i.marks[k]
      <4>1. Len(j.marks) = Len(i.marks) - 1
        BY <2>2, <2>4
      <4> QED
        BY <1>2, <2>2, <2>4, <4>1
    <3> QED
      BY <2>4, <3>1, <3>2, <3>3, <3>4 DEF Buffered
  <2>7. \A k \in 1..Len(j.marks) : j.marks[k].pos <= Len(j.text)
    <3>1. \A k \in 1..Len(i.marks) : i.marks[k].pos <= Len(i.text)
      BY DEF Sound
    <3>2. \A k \in 1..Len(j.marks) : k \in 1..Len(i.marks) /\ j.marks[k] = i.marks[k]
      <4>1. Len(j.marks) = Len(i.marks) - 1
        BY <2>2, <2>4
      <4> QED
        BY <1>2, <2>2, <2>4, <4>1
    <3> QED
      BY <2>4, <3>1, <3>2
  <2>8. Sound(j)
    BY <2>4, <2>5, <2>6, <2>7 DEF Sound
  <2>9. Len(j.marks) = Len(i.marks) - 1
    BY <2>2, <2>4
  <2>10. j = unmark(i)
    BY DEF j
  <2> QED
    BY <1>4, <2>4, <2>8, <2>9, <2>10 DEF Moved
<1> QED
  BY <1>3, <1>4

\* Going back to the last mark.
LEMMA RewindSound ==
  ASSUME NEW i, Sound(i), i.backtrack < 1 \/ i.marks # <<>>
  PROVE  /\ Sound(rewind(i)) /\ Moved(i, rewind(i))
         /\ Len(rewind(i).marks) = Len(i.marks) - (IF i.backtrack < 1 THEN 0 ELSE 1)
<1>1. i \in Inputs
  BY DEF Sound
<1>2. /\ i.marks \in Seq([pos : Nat, last : Characters]) /\ Len(i.marks) \in Nat
      /\ i.backtrack \in Int
  BY <1>1 DEF Inputs
<1>3. CASE i.backtrack < 1
  BY <1>2, <1>3 DEF rewind, Moved
<1>4. CASE ~(i.backtrack < 1)
  <2> DEFINE m == Last(i.marks)
             back == [i EXCEPT !.pos = m.pos, !.last = m.last]
             j == IF i.kind = "file" THEN [back EXCEPT !.off = back.pos, !.eof = FALSE] ELSE back
  <2>1. rewind(i) = unmark(j)
    BY <1>4 DEF rewind
  <2>2. /\ Len(i.marks) \in Nat \ {0}
        /\ m \in [pos : Nat, last : Characters]
        /\ m = i.marks[Len(i.marks)]
    BY <1>2, <1>4, FrontProperties
  <2> HIDE DEF m
  <2>3. /\ back \in Inputs /\ back.pos = m.pos /\ back.off = i.off /\ back.eof = i.eof
        /\ back.text = i.text /\ back.kind = i.kind /\ back.backtrack = i.backtrack
        /\ back.marks = i.marks /\ back.buffer = i.buffer
    BY <1>1, <2>2 DEF Inputs
  <2> HIDE DEF back
  <2>4. /\ j \in Inputs /\ j.pos = m.pos /\ j.text = i.text /\ j.kind = i.kind
        /\ j.backtrack = i.backtrack /\ j.marks = i.marks /\ j.buffer = i.buffer
        /\ IF i.kind = "file" THEN j.off = m.pos /\ j.eof = FALSE
           ELSE j.off = i.off /\ j.eof = i.eof
    BY <2>2, <2>3 DEF Inputs
  <2> HIDE DEF j
  <2>5. m.pos <= Len(i.text) /\ m.pos \in Nat
    BY <2>2 DEF Sound
  <2>6. ASSUME i.kind = "pipe" PROVE Buffered(j) /\ j.pos <= j.off
    <3>1. Buffered(i)
      BY <1>2, <1>4, <2>6 DEF Sound
    <3>2. i.off \in Nat /\ Len(i.buffer) \in Nat /\ i.marks[1].pos \in Nat
      <4>1. i.marks[1] \in [pos : Nat, last : Characters]
        <5>1. 1 \in 1..Len(i.marks)
          BY <2>2
        <5> QED
          BY <1>2, <5>1, ElementOfSeq
      <4> QED
        BY <1>1, <4>1 DEF Inputs
    <3>3. i.marks[1].pos <= m.pos /\ m.pos <= i.marks[1].pos + Len(i.buffer)
      BY <2>2, <3>1 DEF Buffered
    <3>4. i.marks[1].pos + Len(i.buffer) <= i.off
      BY <3>1 DEF Buffered
    <3>5. /\ j.marks[1].pos = i.marks[1].pos /\ Len(j.buffer) = Len(i.buffer) /\ j.off = i.off
          /\ j.pos = m.pos /\ j.marks = i.marks
      BY <2>4, <2>6
    <3>6. j.pos <= j.off
      BY <2>5, <3>2, <3>3, <3>4, <3>5
    <3> QED
      BY <3>1, <3>3, <3>5, <3>6 DEF Buffered
  <2>7. Sound(j)
    BY <1>4, <2>4, <2>5, <2>6 DEF Sound
  <2>8. Sound(unmark(j)) /\ Moved(j, unmark(j)) /\ Len(unmark(j).marks) = Len(j.marks) - 1
    BY <1>2, <1>4, <2>4, <2>7, UnmarkSound
  <2> QED
    BY <1>4, <2>1, <2>4, <2>8 DEF Moved
<1> QED
  BY <1>3, <1>4

\* What an input holds, one by one.
LEMMA InputParts ==
  ASSUME NEW i, Sound(i)
  PROVE  /\ i \in Inputs /\ i.kind \in Kinds /\ i.text \in Texts
         /\ i.text \in Seq(Characters) /\ i.pos \in Nat
         /\ i.last \in Characters /\ i.marks \in Seq([pos : Nat, last : Characters])
         /\ i.backtrack \in Int /\ i.buffer \in Seq(Characters) /\ i.off \in Nat
         /\ i.eof \in BOOLEAN /\ Len(i.text) \in Nat /\ Len(i.marks) \in Nat
         /\ Len(i.buffer) \in Nat
         /\ i.marks # <<>> => 1 \in 1..Len(i.marks) /\ i.marks[1].pos \in Nat
<1>1. i \in Inputs
  BY DEF Sound
<1>2. /\ i.kind \in Kinds /\ i.text \in Texts /\ i.pos \in Nat
      /\ i.last \in Characters /\ i.marks \in Seq([pos : Nat, last : Characters])
      /\ i.backtrack \in Int /\ i.buffer \in Seq(Characters) /\ i.off \in Nat
      /\ i.eof \in BOOLEAN
  BY <1>1 DEF Inputs
<1>3. i.text \in Seq(Characters)
  <2>1. i.text \in Seq(Range(i.text))
    BY <1>2, TextsAssumption
  <2>2. Range(i.text) \subseteq Characters
    BY <1>2 DEF Characters
  <2> QED
    BY <2>1, <2>2, SeqMonotonic
<1>4. Len(i.text) \in Nat /\ Len(i.marks) \in Nat /\ Len(i.buffer) \in Nat
  BY <1>2, <1>3, LenProperties
<1>5. ASSUME i.marks # <<>> PROVE 1 \in 1..Len(i.marks) /\ i.marks[1].pos \in Nat
  <2>1. Len(i.marks) \in Nat \ {0}
    BY <1>2, <1>5, EmptySeq
  <2>2. 1 \in 1..Len(i.marks)
    BY <2>1
  <2>3. i.marks[1] \in [pos : Nat, last : Characters]
    BY <1>2, <2>2, ElementOfSeq
  <2> QED
    BY <2>2, <2>3
<1> QED
  BY <1>1, <1>2, <1>3, <1>4, <1>5

\* The next character is one of the text or of the buffer, or none.
LEMMA NextCharKnown ==
  ASSUME NEW i, Sound(i)
  PROVE  NextChar(i) \in Characters
<1>1. \A k \in Nat : CharAt(i.text, k) \in Characters
  <2> SUFFICES ASSUME NEW k \in Nat PROVE CharAt(i.text, k) \in Characters
    OBVIOUS
  <2>1. CASE k < Len(i.text)
    <3>1. k + 1 \in 1..Len(i.text)
      BY <2>1, InputParts
    <3>2. i.text[k + 1] \in Characters
      BY <3>1, InputParts, ElementOfSeq
    <3> QED
      BY <2>1, <3>2 DEF CharAt
  <2>2. CASE ~(k < Len(i.text))
    <3>1. CharAt(i.text, k) = ""
      BY <2>2 DEF CharAt
    <3> QED
      BY <3>1 DEF Characters
  <2> QED
    BY <2>1, <2>2
<1>2. CASE i.kind = "string"
  BY <1>1, <1>2, InputParts DEF NextChar
<1>3. CASE i.kind # "string" /\ buffer_in_range(i)
  <2>1. i.kind = "pipe" /\ i.marks # <<>> /\ i.pos < i.marks[1].pos + Len(i.buffer)
    BY <1>3 DEF buffer_in_range, buffered
  <2>2. i.marks[1].pos <= i.pos
    BY <2>1 DEF Sound, Buffered
  <2>3. i.pos - i.marks[1].pos + 1 \in 1..Len(i.buffer)
    BY <2>1, <2>2, InputParts
  <2>4. i.buffer[i.pos - i.marks[1].pos + 1] \in Characters
    BY <2>3, InputParts, ElementOfSeq
  <2> QED
    BY <1>3, <2>4 DEF NextChar, buffer_get
<1>4. CASE i.kind # "string" /\ ~buffer_in_range(i)
  BY <1>1, <1>4, InputParts DEF NextChar
<1> QED
  BY <1>2, <1>3, <1>4

\* Moving past a character that is in memory.
LEMMA PassInMemory ==
  ASSUME NEW i, Sound(i), InMemory(i), ~terminated(i), NEW c \in Characters
  PROVE  Sound(success(i, c)) /\ Moved(i, success(i, c)) /\ success(i, c).marks = i.marks
<1> DEFINE j == success(i, c)
<1>1. j = [i EXCEPT !.buffer = i.buffer, !.last = c, !.pos = i.pos + 1]
  BY DEF success, InMemory, buffer_in_range, buffered
<1>2. /\ j \in Inputs /\ j.pos = i.pos + 1 /\ j.text = i.text /\ j.kind = i.kind
      /\ j.backtrack = i.backtrack /\ j.marks = i.marks /\ j.buffer = i.buffer
      /\ j.off = i.off /\ j.eof = i.eof
  <2>1. i \in Inputs /\ i.pos + 1 \in Nat
    BY InputParts
  <2> QED
    BY <1>1, <2>1 DEF Inputs
<1>3. j = success(i, c)
  OBVIOUS
<1> HIDE DEF j
<1>4. CASE i.kind = "string"
  <2>1. i.pos # Len(i.text)
    BY <1>4 DEF terminated
  <2>2. i.pos <= Len(i.text) /\ i.pos \in Nat /\ Len(i.text) \in Nat
    BY InputParts DEF Sound
  <2>3. i.pos + 1 <= Len(i.text)
    BY <2>1, <2>2
  <2> QED
    BY <1>2, <1>3, <1>4, <2>3 DEF Sound, Moved
<1>5. CASE i.kind # "string"
  <2>1. i.kind = "pipe" /\ i.marks # <<>> /\ i.pos < i.marks[1].pos + Len(i.buffer)
    BY <1>5 DEF InMemory, buffer_in_range, buffered
  <2>2. /\ i.marks[1].pos <= i.pos /\ i.marks[1].pos + Len(i.buffer) <= i.off
        /\ i.off <= Len(i.text)
    BY <2>1 DEF Sound, Buffered
  <2>3. /\ i.pos + 1 <= i.marks[1].pos + Len(i.buffer) /\ i.marks[1].pos <= i.pos + 1
        /\ i.pos + 1 <= i.off /\ i.pos + 1 <= Len(i.text)
    <3>1. /\ i.pos \in Nat /\ Len(i.buffer) \in Nat /\ i.off \in Nat /\ Len(i.text) \in Nat
          /\ i.marks[1].pos \in Nat
      BY <2>1, InputParts
    <3> QED
      BY <2>1, <2>2, <3>1, SMTT(30)
  <2>4. Buffered(j)
    <3>1. Buffered(i)
      BY <2>1 DEF Sound
    <3> QED
      BY <1>2, <2>2, <2>3, <3>1 DEF Buffered
  <2>5. Sound(j)
    BY <1>2, <2>1, <2>3, <2>4 DEF Sound
  <2> QED
    BY <1>2, <1>3, <2>5 DEF Moved
<1> QED
  BY <1>4, <1>5

\* Moving past a character that was fetched: it goes into the buffer, if there
\* is one.
LEMMA PassFetched ==
  ASSUME NEW i, Sound(i), ~InMemory(i), i.off < Len(i.text), NEW c \in Characters
  PROVE  LET j == success([i EXCEPT !.off = @ + 1], c)
         IN  Sound(j) /\ Moved(i, j) /\ j.marks = i.marks
<1> DEFINE t == [i EXCEPT !.off = i.off + 1]
           b == IF buffered(i) THEN Append(i.buffer, c) ELSE i.buffer
           j == success(t, c)
<1>1. i \in Inputs /\ i.off + 1 \in Nat
  BY InputParts
<1>2. /\ t \in Inputs /\ t.pos = i.pos /\ t.text = i.text /\ t.kind = i.kind
      /\ t.backtrack = i.backtrack /\ t.marks = i.marks /\ t.buffer = i.buffer
      /\ t.off = i.off + 1 /\ t.eof = i.eof
  BY <1>1 DEF Inputs
<1>3. t = [i EXCEPT !.off = @ + 1]
  OBVIOUS
<1> HIDE DEF t
<1>4. ~buffer_in_range(t) /\ (buffered(t) <=> buffered(i))
  BY <1>2 DEF InMemory, buffer_in_range, buffered
<1>5. j = [t EXCEPT !.buffer = b, !.last = c, !.pos = i.pos + 1]
  BY <1>2, <1>4 DEF success
<1>6. /\ Append(i.buffer, c) \in Seq(Characters)
      /\ Len(Append(i.buffer, c)) = Len(i.buffer) + 1
  BY InputParts, AppendProperties
<1>7. b \in Seq(Characters)
  BY <1>6, InputParts
<1> HIDE DEF b
<1>8. /\ j \in Inputs /\ j.pos = i.pos + 1 /\ j.text = i.text /\ j.kind = i.kind
      /\ j.backtrack = i.backtrack /\ j.marks = i.marks /\ j.buffer = b
      /\ j.off = i.off + 1 /\ j.eof = i.eof
  <2>1. i.pos + 1 \in Nat
    BY InputParts
  <2> QED
    BY <1>2, <1>5, <1>7, <2>1 DEF Inputs
<1>9. j = success([i EXCEPT !.off = @ + 1], c)
  BY <1>3
<1> HIDE DEF j
<1>10. i.eof = FALSE /\ i.off + 1 <= Len(i.text)
  BY InputParts DEF Sound
<1>11. i.kind \in {"file", "pipe"} /\ i.pos <= i.off
  <2>1. i.kind # "string"
    BY DEF InMemory
  <2>2. i.kind = "file" \/ i.kind = "pipe"
    BY <2>1, InputParts DEF Kinds
  <2>3. i.kind = "file" => i.pos = i.off
    BY DEF Sound
  <2> QED
    BY <2>2, <2>3, InputParts DEF Sound
<1>12. ASSUME i.kind = "pipe", i.marks # <<>> PROVE Buffered(j)
  <2>1. b = Append(i.buffer, c) /\ Buffered(i)
    BY <1>12 DEF b, buffered, Sound
  <2>2. ~(i.pos < i.marks[1].pos + Len(i.buffer))
    BY <1>12 DEF InMemory, buffer_in_range, buffered
  <2> DEFINE first == i.marks[1].pos
             read == first + Len(i.buffer)
  <2>3. read <= i.off /\ first <= i.pos /\ i.pos <= read /\ first \in Nat /\ read \in Nat
    BY <1>12, <2>1, InputParts, SMTT(30) DEF Buffered
  <2>4. \A k \in 1..Len(i.marks) : first <= i.marks[k].pos /\ i.marks[k].pos <= read
    BY <2>1 DEF Buffered
  <2>5. j.marks[1].pos = first /\ first + Len(j.buffer) = read + 1
    <3>1. Len(j.buffer) = Len(i.buffer) + 1 /\ Len(i.buffer) \in Nat
      BY <1>6, <1>8, <2>1, InputParts
    <3> QED
      BY <1>8, <2>3, <3>1
  <2>6. \A k \in 1..Len(i.marks) : i.marks[k].pos \in Nat
    <3> SUFFICES ASSUME NEW k \in 1..Len(i.marks) PROVE i.marks[k].pos \in Nat
      OBVIOUS
    <3>1. i.marks[k] \in [pos : Nat, last : Characters]
      BY InputParts, ElementOfSeq
    <3> QED
      BY <3>1
  <2> HIDE DEF first, read
  <2>7. /\ read + 1 <= i.off + 1 /\ first <= i.pos + 1 /\ i.pos + 1 <= read + 1
        /\ \A k \in 1..Len(i.marks) : first <= i.marks[k].pos /\ i.marks[k].pos <= read + 1
    BY <2>3, <2>4, <2>6, InputParts, SMTT(30)
  <2> QED
    BY <1>8, <2>5, <2>7 DEF Buffered
<1>13. i.kind = "pipe" /\ i.marks = <<>> => b = <<>>
  BY DEF b, buffered, Sound
<1>14. /\ i.pos + 1 <= Len(i.text)
       /\ i.kind = "file" => i.off + 1 = i.pos + 1
       /\ i.kind = "pipe" => i.pos + 1 <= i.off + 1
  BY <1>10, <1>11, InputParts DEF Sound
<1>15. Sound(j)
  BY <1>8, <1>10, <1>12, <1>13, <1>14 DEF Sound
<1> QED
  BY <1>8, <1>9, <1>15 DEF Moved

\* One character.
LEMMA TakeOneSound ==
  ASSUME NEW i, Sound(i), NEW set
  PROVE  LET taken == TakeOne(i, set)
         IN  /\ taken = [ok |-> taken.ok, input |-> taken.input]
             /\ taken.ok \in BOOLEAN /\ Sound(taken.input) /\ Moved(i, taken.input)
             /\ taken.input.marks = i.marks
<1> DEFINE c == NextChar(i)
           t == getc(i)
           taken == TakeOne(i, set)
<1>1. c \in Characters
  BY NextCharKnown
<1>2. taken = IF terminated(t) THEN [ok |-> FALSE, input |-> t]
              ELSE IF c \in set THEN [ok |-> TRUE, input |-> success(t, c)]
              ELSE [ok |-> FALSE, input |-> failure(t)]
  BY DEF TakeOne
<1> HIDE DEF c
<1>3. /\ terminated(t) => Sound(t) /\ Moved(i, t) /\ t.marks = i.marks
      /\ ~terminated(t) => /\ Sound(success(t, c)) /\ Moved(i, success(t, c))
                           /\ success(t, c).marks = i.marks
                           /\ Sound(failure(t)) /\ Moved(i, failure(t))
                           /\ failure(t).marks = i.marks
  <2>1. CASE InMemory(i)
    <3>1. t = i /\ failure(i) = i
      BY <2>1 DEF getc, failure
    <3> HIDE DEF t
    <3>2. ~terminated(t) => /\ Sound(success(t, c)) /\ Moved(i, success(t, c))
                            /\ success(t, c).marks = i.marks
      BY <1>1, <2>1, <3>1, PassInMemory
    <3> QED
      BY <3>1, <3>2 DEF Moved
  <2>2. CASE ~InMemory(i) /\ i.off = Len(i.text)
    <3>1. t = [i EXCEPT !.eof = TRUE]
      BY <2>2 DEF getc, Fetch
    <3>2. i \in Inputs
      BY InputParts
    <3> HIDE DEF t
    <3>3. /\ t \in Inputs /\ t.pos = i.pos /\ t.text = i.text /\ t.kind = i.kind
          /\ t.backtrack = i.backtrack /\ t.marks = i.marks /\ t.buffer = i.buffer
          /\ t.off = i.off /\ t.eof = TRUE
      BY <3>1, <3>2 DEF Inputs
    <3>4. terminated(t)
      BY <2>2, <3>3 DEF terminated, InMemory
    <3>5. Sound(t)
      BY <2>2, <3>3 DEF Sound, Buffered
    <3> QED
      BY <3>3, <3>4, <3>5 DEF Moved
  <2>3. CASE ~InMemory(i) /\ i.off # Len(i.text)
    <3>1. i.off < Len(i.text)
      BY <2>3, InputParts DEF Sound
    <3>2. t = [i EXCEPT !.off = @ + 1]
      BY <2>3 DEF getc, Fetch
    <3> HIDE DEF t
    <3>3. /\ Sound(success(t, c)) /\ Moved(i, success(t, c)) /\ success(t, c).marks = i.marks
      BY <1>1, <2>3, <3>1, <3>2, PassFetched
    <3>4. i \in Inputs /\ i.eof = FALSE /\ i.off + 1 \in Nat
      BY <2>3, InputParts DEF Sound
    <3>5. /\ t \in Inputs /\ t.pos = i.pos /\ t.text = i.text /\ t.kind = i.kind
          /\ t.backtrack = i.backtrack /\ t.marks = i.marks /\ t.buffer = i.buffer
          /\ t.off = i.off + 1 /\ t.eof = FALSE
      BY <3>2, <3>4 DEF Inputs
    <3>6. ~InMemory(t) /\ ~terminated(t)
      BY <2>3, <3>5 DEF InMemory, buffer_in_range, buffered, terminated
    <3> DEFINE f == failure(t)
    <3>7. f = [t EXCEPT !.off = t.off - 1, !.eof = FALSE]
      BY <3>6 DEF failure
    <3>8. t.off - 1 = i.off /\ i.off \in Nat
      BY <3>5, InputParts
    <3> HIDE DEF f
    <3>9. /\ f \in Inputs /\ f.pos = i.pos /\ f.text = i.text /\ f.kind = i.kind
          /\ f.backtrack = i.backtrack /\ f.marks = i.marks /\ f.buffer = i.buffer
          /\ f.off = i.off /\ f.eof = FALSE
      BY <3>5, <3>7, <3>8 DEF Inputs
    <3>10. Sound(f)
      BY <3>9 DEF Sound, Buffered
    <3>11. f = failure(t)
      BY DEF f
    <3> QED
      BY <3>3, <3>6, <3>9, <3>10, <3>11 DEF Moved
  <2> QED
    BY <2>1, <2>2, <2>3
<1>4. taken = TakeOne(i, set)
  OBVIOUS
<1> HIDE DEF t, taken
<1>5. /\ taken = [ok |-> taken.ok, input |-> taken.input]
      /\ taken.ok \in BOOLEAN /\ Sound(taken.input) /\ Moved(i, taken.input)
      /\ taken.input.marks = i.marks
  <2>1. CASE terminated(t)
    <3>1. taken = [ok |-> FALSE, input |-> t]
      BY <1>2, <2>1
    <3> QED
      BY <1>3, <2>1, <3>1
  <2>2. CASE ~terminated(t) /\ c \in set
    <3>1. taken = [ok |-> TRUE, input |-> success(t, c)]
      BY <1>2, <2>2
    <3> QED
      BY <1>3, <2>2, <3>1
  <2>3. CASE ~terminated(t) /\ c \notin set
    <3>1. taken = [ok |-> FALSE, input |-> failure(t)]
      BY <1>2, <2>3
    <3> QED
      BY <1>3, <2>3, <3>1
  <2> QED
    BY <2>1, <2>2, <2>3
<1> QED
  BY <1>4, <1>5

\* A character looked at.
LEMMA PeekSound ==
  ASSUME NEW i, Sound(i)
  PROVE  Sound(peekc(i)) /\ Moved(i, peekc(i)) /\ peekc(i).marks = i.marks
         /\ peekc(i).pos = i.pos
<1>1. CASE InMemory(i) \/ i.off < Len(i.text)
  BY <1>1 DEF peekc, Moved
<1>2. CASE ~(InMemory(i) \/ i.off < Len(i.text))
  <2> DEFINE t == peekc(i)
  <2>1. t = [i EXCEPT !.eof = TRUE]
    BY <1>2 DEF peekc
  <2>2. i \in Inputs /\ i.off = Len(i.text)
    BY <1>2, InputParts DEF Sound
  <2>3. t = peekc(i)
    OBVIOUS
  <2> HIDE DEF t
  <2>4. /\ t \in Inputs /\ t.pos = i.pos /\ t.text = i.text /\ t.kind = i.kind
        /\ t.backtrack = i.backtrack /\ t.marks = i.marks /\ t.buffer = i.buffer
        /\ t.off = i.off /\ t.eof = TRUE
    BY <2>1, <2>2 DEF Inputs
  <2>5. Sound(t)
    BY <2>2, <2>4 DEF Sound, Buffered
  <2> QED
    BY <2>3, <2>4, <2>5 DEF Moved
<1> QED
  BY <1>1, <1>2

\* Turning backtracking off and on.
LEMMA BacktrackSound ==
  ASSUME NEW i, Sound(i)
  PROVE  /\ Sound(backtrack_disable(i)) /\ Sound(backtrack_enable(i))
         /\ backtrack_disable(i).backtrack = i.backtrack - 1
         /\ backtrack_enable(i).backtrack = i.backtrack + 1
         /\ backtrack_disable(i).marks = i.marks /\ backtrack_disable(i).text = i.text
         /\ backtrack_enable(i).marks = i.marks /\ backtrack_enable(i).text = i.text
<1>1. i \in Inputs /\ i.backtrack - 1 \in Int /\ i.backtrack + 1 \in Int
  BY InputParts
<1>2. ASSUME NEW n \in Int
      PROVE  LET j == [i EXCEPT !.backtrack = n]
             IN  Sound(j) /\ j.backtrack = n /\ j.marks = i.marks /\ j.text = i.text
  <2> DEFINE j == [i EXCEPT !.backtrack = n]
  <2>1. /\ j \in Inputs /\ j.pos = i.pos /\ j.text = i.text /\ j.kind = i.kind
        /\ j.backtrack = n /\ j.marks = i.marks /\ j.buffer = i.buffer
        /\ j.off = i.off /\ j.eof = i.eof
    BY <1>1 DEF Inputs
  <2> HIDE DEF j
  <2>2. Sound(j)
    BY <2>1 DEF Sound, Buffered
  <2> QED
    BY <2>1, <2>2 DEF j
<1>3. backtrack_disable(i) = [i EXCEPT !.backtrack = i.backtrack - 1]
  BY DEF backtrack_disable
<1>4. backtrack_enable(i) = [i EXCEPT !.backtrack = i.backtrack + 1]
  BY DEF backtrack_enable
<1> QED
  BY <1>1, <1>2, <1>3, <1>4

\* A string: the mark set for it is gone at the end.
LEMMA TakeStringSound ==
  ASSUME NEW i, Sound(i), NEW s, s \in Seq(Range(s))
  PROVE  LET taken == TakeString(i, s)
         IN  /\ taken.ok \in BOOLEAN /\ Sound(taken.input) /\ Moved(i, taken.input)
             /\ Len(taken.input.marks) = Len(i.marks)
<1> DEFINE m == mark(i)
           V == {x \in [ok : BOOLEAN, input : Inputs] :
                   Sound(x.input) /\ Moved(i, x.input) /\ x.input.marks = m.marks}
           z == [ok |-> TRUE, input |-> m]
           step == [kx \in (1..Len(s)) \X V |->
                      IF kx[2].ok THEN TakeOne(kx[2].input, {s[kx[1]]}) ELSE kx[2]]
           Takes(f) == f = [k \in 0..Len(s) |->
                              IF k = 0 THEN [ok |-> TRUE, input |-> mark(i)]
                              ELSE IF f[k - 1].ok THEN TakeOne(f[k - 1].input, {s[k]})
                              ELSE f[k - 1]]
           took == CHOOSE f : Takes(f)
           end == took[Len(s)]
<1>1. /\ Sound(m) /\ Moved(i, m) /\ m \in Inputs
      /\ Len(m.marks) = Len(i.marks) + (IF i.backtrack < 1 THEN 0 ELSE 1)
  BY MarkSound, InputParts
<1>2. Len(s) \in Nat
  BY LenProperties
<1> HIDE DEF m
<1>3. z \in V
  BY <1>1
<1>4. step \in [(1..Len(s)) \X V -> V]
  <2>1. ASSUME NEW x \in V, NEW set
        PROVE  TakeOne(x.input, set) \in V
    <3> DEFINE t == TakeOne(x.input, set)
    <3>1. Sound(x.input) /\ Moved(i, x.input) /\ x.input.marks = m.marks
      OBVIOUS
    <3>2. /\ t = [ok |-> t.ok, input |-> t.input]
          /\ t.ok \in BOOLEAN /\ Sound(t.input) /\ Moved(x.input, t.input)
          /\ t.input.marks = x.input.marks
      BY <3>1, TakeOneSound
    <3> HIDE DEF t
    <3>3. t.input \in Inputs /\ Moved(i, t.input)
      BY <3>1, <3>2 DEF Sound, Moved
    <3>4. t \in V
      BY <3>1, <3>2, <3>3
    <3> QED
      BY <3>4 DEF t
  <2>2. ASSUME NEW kx \in (1..Len(s)) \X V
        PROVE  (IF kx[2].ok THEN TakeOne(kx[2].input, {s[kx[1]]}) ELSE kx[2]) \in V
    <3>1. kx[2] \in V
      OBVIOUS
    <3> HIDE DEF V
    <3> QED
      BY <2>1, <3>1
  <2> HIDE DEF V
  <2> QED
    BY <2>2
<1>5. \A k \in 1..Len(s), x \in V :
        step[<<k, x>>] = IF x.ok THEN TakeOne(x.input, {s[k]}) ELSE x
  <2> HIDE DEF V
  <2> QED
    OBVIOUS
<1> HIDE DEF V, step, z
<1>6. PICK f \in [0..Len(s) -> V] : RecursiveTo(Len(s), f, z, step)
  BY <1>2, <1>3, <1>4, RecursiveUpto
<1>7. Takes(f)
  <2>1. ASSUME NEW k \in 0..Len(s), k # 0
        PROVE  k \in 1..Len(s) /\ f[k - 1] \in V
    <3>1. k \in 1..Len(s) /\ k - 1 \in 0..Len(s)
      BY <1>2, <2>1
    <3> QED
      BY <3>1
  <2>2. ASSUME NEW k \in 0..Len(s)
        PROVE  (IF k = 0 THEN z ELSE step[<<k, f[k - 1]>>])
                 = IF k = 0 THEN [ok |-> TRUE, input |-> mark(i)]
                   ELSE IF f[k - 1].ok THEN TakeOne(f[k - 1].input, {s[k]}) ELSE f[k - 1]
    BY <1>5, <2>1 DEF m, z
  <2>3. ASSUME NEW k \in 0..Len(s)
        PROVE  f[k] = IF k = 0 THEN [ok |-> TRUE, input |-> mark(i)]
                      ELSE IF f[k - 1].ok THEN TakeOne(f[k - 1].input, {s[k]}) ELSE f[k - 1]
    <3>1. f[k] = IF k = 0 THEN z ELSE step[<<k, f[k - 1]>>]
      BY <1>6 DEF RecursiveTo
    <3> QED
      BY <2>2, <3>1
  <2> QED
    BY <2>3
<1>8. Takes(took)
  <2> HIDE DEF Takes
  <2> QED
    BY <1>7
<1>9. \A k \in 0..Len(s) : took[k] \in V
  <2> DEFINE S == {k \in Nat : k <= Len(s) => took[k] \in V}
  <2> HIDE DEF took
  <2>1. took[0] = z
    BY <1>2, <1>8 DEF m, z
  <2>2. 0 \in S
    BY <1>3, <2>1
  <2>3. ASSUME NEW k \in Nat, k \in S PROVE k + 1 \in S
    <3> SUFFICES ASSUME k + 1 <= Len(s) PROVE took[k + 1] \in V
      OBVIOUS
    <3>1. took[k] \in V /\ k + 1 \in 1..Len(s) /\ k + 1 \in 0..Len(s) /\ (k + 1) - 1 = k
      BY <1>2, <2>3
    <3>2. took[k + 1] = IF took[k].ok THEN TakeOne(took[k].input, {s[k + 1]}) ELSE took[k]
      <4>1. k + 1 # 0
        OBVIOUS
      <4>2. took[k + 1] = IF k + 1 = 0 THEN [ok |-> TRUE, input |-> mark(i)]
                          ELSE IF took[(k + 1) - 1].ok
                          THEN TakeOne(took[(k + 1) - 1].input, {s[k + 1]})
                          ELSE took[(k + 1) - 1]
        BY <1>8, <3>1, Zenon
      <4> QED
        BY <3>1, <4>1, <4>2, Zenon
    <3>3. took[k + 1] = step[<<k + 1, took[k]>>]
      BY <1>5, <3>1, <3>2
    <3> QED
      BY <1>4, <3>1, <3>3
  <2> HIDE DEF S
  <2>4. Nat \subseteq S
    BY <2>2, <2>3, Induction
  <2> QED
    BY <1>2, <2>4 DEF S
<1>10. end \in V
  BY <1>2, <1>9
<1>11. TakeString(i, s) = [end EXCEPT !.input = IF end.ok THEN unmark(end.input)
                                               ELSE rewind(end.input)]
  BY DEF TakeString
<1> HIDE DEF end
<1>12. /\ end = [ok |-> end.ok, input |-> end.input] /\ end.ok \in BOOLEAN
       /\ Sound(end.input) /\ Moved(i, end.input) /\ end.input.marks = m.marks
  BY <1>10 DEF V
<1>13. end.input.backtrack < 1 \/ end.input.marks # <<>>
  <2>1. Len(i.marks) \in Nat /\ i.backtrack = end.input.backtrack
    BY <1>12, InputParts DEF Moved
  <2>2. ~(i.backtrack < 1) => Len(m.marks) >= 1
    BY <1>1, <2>1
  <2> QED
    BY <1>12, <2>1, <2>2, EmptySeq
<1>14. ASSUME NEW j, j = unmark(end.input) \/ j = rewind(end.input)
       PROVE  Sound(j) /\ Moved(end.input, j)
              /\ Len(j.marks) = Len(end.input.marks)
                                  - (IF end.input.backtrack < 1 THEN 0 ELSE 1)
  BY <1>12, <1>13, <1>14, UnmarkSound, RewindSound
<1> DEFINE j == IF end.ok THEN unmark(end.input) ELSE rewind(end.input)
<1>15. TakeString(i, s) = [ok |-> end.ok, input |-> j]
  BY <1>11, <1>12
<1>16. j = unmark(end.input) \/ j = rewind(end.input)
  OBVIOUS
<1> HIDE DEF j
<1>17. Len(j.marks) = Len(i.marks) /\ Sound(j) /\ Moved(i, j)
  <2>1. Sound(j) /\ Moved(end.input, j)
        /\ Len(j.marks) = Len(end.input.marks)
                            - (IF end.input.backtrack < 1 THEN 0 ELSE 1)
    BY <1>14, <1>16
  <2>2. Len(i.marks) \in Nat /\ i.backtrack = end.input.backtrack
    BY <1>12, InputParts DEF Moved
  <2> QED
    BY <1>1, <1>12, <2>1, <2>2 DEF Moved
<1> QED
  BY <1>12, <1>15, <1>17

-----------------------------------------------------------------------------
(* The arrays.                                                             *)

\* Growing makes room for one more entry (mpc.c:802-808).
LEMMA MoreRoom ==
  ASSUME NEW n \in Nat, NEW s \in Nat, n <= s
  PROVE  ParserStack!More(n + 1, s) \in Nat /\ n + 1 <= ParserStack!More(n + 1, s)
BY DEF ParserStack!More

\* An array with more slots than the power 1.5 of one more than its entries has
\* at least half as many again as they are, and one.
LEMMA ManySlots ==
  ASSUME NEW n \in Nat, NEW s \in Nat, s * s > (n + 1) * (n + 1) * (n + 1)
  PROVE  3 * n + 2 <= 2 * s
<1>1. SUFFICES ASSUME 2 * s < 3 * n + 2 PROVE FALSE
  OBVIOUS
<1>2. 4 * (s * s) <= (3 * n + 1) * (3 * n + 1)
  <2>1. 2 * s <= 3 * n + 1
    BY <1>1
  <2>2. (2 * s) * (2 * s) <= (3 * n + 1) * (3 * n + 1)
    BY <2>1
  <2> QED
    BY <2>2
<1>3. (3 * n + 1) * (3 * n + 1) = 9 * (n * n) + 6 * n + 1
  OBVIOUS
<1>4. (n + 1) * (n + 1) * (n + 1) = n * n * n + 3 * (n * n) + 3 * n + 1
  OBVIOUS
<1>5. n * n * n + 3 * (n * n) + 3 * n + 1 >= 3 * (n * n) + 3 * n + 1
  <2>1. n * n * n >= 0
    OBVIOUS
  <2> QED
    BY <2>1
<1> QED
  BY <1>2, <1>3, <1>4, <1>5

\* Shrinking leaves room for the entries there are (mpc.c:810-816).
LEMMA LessRoom ==
  ASSUME NEW n \in Nat, NEW s \in Nat, n <= s
  PROVE  ParserStack!Less(n, s) \in Nat /\ n <= ParserStack!Less(n, s)
<1>1. CASE s * s > (n + 1) * (n + 1) * (n + 1)
  <2>1. 3 * n + 2 <= 2 * s
    BY <1>1, ManySlots
  <2>2. ParserStack!Less(n, s) = (2 * (s - 1)) \div 3
    BY <1>1 DEF ParserStack!Less
  <2> QED
    BY <2>1, <2>2
<1>2. CASE ~(s * s > (n + 1) * (n + 1) * (n + 1))
  BY <1>2 DEF ParserStack!Less
<1> QED
  BY <1>1, <1>2

\* The size of an array is a natural number.
LEMMA LessNatural ==
  ASSUME NEW n \in Nat, NEW s \in Nat
  PROVE  ParserStack!Less(n, s) \in Nat
<1>1. CASE s = 0
  <2>1. 0 <= n + 1 /\ 0 <= (n + 1) * (n + 1) /\ 0 <= (n + 1) * (n + 1) * (n + 1)
    OBVIOUS
  <2>2. ~(s * s > (n + 1) * (n + 1) * (n + 1))
    BY <1>1, <2>1
  <2> QED
    BY <2>2 DEF ParserStack!Less
<1>2. CASE s # 0
  <2>1. (2 * (s - 1)) \div 3 \in Nat
    BY <1>2
  <2> QED
    BY <2>1 DEF ParserStack!Less
<1> QED
  BY <1>1, <1>2

\* The array of results after some are taken and one is put there.
LEMMA ResultRoom ==
  ASSUME Len(results) \in Nat, slots.results \in Nat, Len(results) <= slots.results,
         NEW n \in 0..Len(results)
  PROVE  ResultSlots(n) \in Nat /\ Len(results) - n + 1 <= ResultSlots(n)
<1> DEFINE L == Len(results)
           z == slots.results
           step == [ks \in (1..n) \X Nat |-> ParserStack!Less(L - ks[1], ks[2])]
           Pops(f) == f = [k \in 0..n |-> IF k = 0 THEN slots.results
                                          ELSE ParserStack!Less(Len(results) - k, f[k - 1])]
           popped == CHOOSE f : Pops(f)
<1>1. n \in Nat /\ L \in Nat /\ n <= L
  OBVIOUS
<1>2. ASSUME NEW k \in 1..n, NEW s \in Nat
      PROVE  /\ step[<<k, s>>] = ParserStack!Less(L - k, s)
             /\ step[<<k, s>>] \in Nat
  <2>1. L - k \in Nat
    BY <1>1
  <2>2. ParserStack!Less(L - k, s) \in Nat
    BY <2>1, LessNatural
  <2>3. <<k, s>> \in (1..n) \X Nat /\ <<k, s>>[1] = k /\ <<k, s>>[2] = s
    OBVIOUS
  <2>4. step[<<k, s>>] = ParserStack!Less(L - k, s)
    BY <2>3
  <2> QED
    BY <2>2, <2>4
<1>3. step \in [(1..n) \X Nat -> Nat]
  <2>1. ASSUME NEW ks \in (1..n) \X Nat
        PROVE  ParserStack!Less(L - ks[1], ks[2]) \in Nat
    <3>1. ks[1] \in 1..n /\ ks[2] \in Nat /\ L - ks[1] \in Nat
      BY <1>1
    <3> QED
      BY <3>1, LessNatural
  <2> QED
    BY <2>1
<1> HIDE DEF step
<1>4. PICK f \in [0..n -> Nat] : RecursiveTo(n, f, z, step)
  BY <1>1, <1>3, RecursiveUpto
<1>5. Pops(f)
  <2>1. ASSUME NEW k \in 0..n
        PROVE  f[k] = IF k = 0 THEN slots.results ELSE ParserStack!Less(L - k, f[k - 1])
    <3>1. f[k] = IF k = 0 THEN z ELSE step[<<k, f[k - 1]>>]
      BY <1>4 DEF RecursiveTo
    <3>2. CASE k = 0
      BY <3>1, <3>2
    <3>3. CASE k # 0
      <4>1. k \in 1..n /\ k - 1 \in 0..n
        BY <3>3
      <4>2. f[k - 1] \in Nat
        BY <1>4, <4>1
      <4> QED
        BY <1>2, <3>1, <3>3, <4>1, <4>2
    <3> QED
      BY <3>2, <3>3
  <2> QED
    BY <2>1
<1>6. Pops(popped)
  <2> HIDE DEF Pops
  <2> QED
    BY <1>5
<1> DEFINE S == {k \in Nat : k <= n => popped[k] \in Nat /\ L - k <= popped[k]}
<1> HIDE DEF popped
<1>7. 0 \in S
  <2>1. popped[0] = slots.results
    BY <1>1, <1>6
  <2> QED
    BY <1>1, <2>1
<1>8. ASSUME NEW k \in Nat, k \in S PROVE k + 1 \in S
  <2> SUFFICES ASSUME k + 1 <= n
               PROVE  popped[k + 1] \in Nat /\ L - (k + 1) <= popped[k + 1]
    OBVIOUS
  <2>1. popped[k] \in Nat /\ L - k <= popped[k] /\ k + 1 \in 0..n /\ (k + 1) - 1 = k
    BY <1>1, <1>8
  <2>2. popped[k + 1] = IF k + 1 = 0 THEN slots.results
                        ELSE ParserStack!Less(Len(results) - (k + 1), popped[(k + 1) - 1])
    BY <1>6, <2>1, Zenon
  <2>3. popped[k + 1] = ParserStack!Less(L - (k + 1), popped[k])
    BY <2>1, <2>2
  <2>4. L - (k + 1) \in Nat /\ L - (k + 1) <= popped[k]
    BY <1>1, <2>1
  <2> HIDE DEF L
  <2>5. /\ ParserStack!Less(L - (k + 1), popped[k]) \in Nat
        /\ L - (k + 1) <= ParserStack!Less(L - (k + 1), popped[k])
    BY <2>1, <2>4, LessRoom
  <2> QED
    BY <2>3, <2>5
<1> HIDE DEF S
<1>9. Nat \subseteq S
  BY <1>7, <1>8, Induction
<1>10. popped[n] \in Nat /\ L - n <= popped[n] /\ L - n \in Nat
  BY <1>1, <1>9 DEF S
<1>11. /\ ParserStack!More(L - n + 1, popped[n]) \in Nat
       /\ L - n + 1 <= ParserStack!More(L - n + 1, popped[n])
  BY <1>10, MoreRoom
<1>12. ResultSlots(n) = ParserStack!More(L - n + 1, popped[n])
  BY DEF ResultSlots, popped
<1> QED
  BY <1>11, <1>12

-----------------------------------------------------------------------------
(* How many results there are.                                             *)

Frames == [p : Parsers, st : Nat]

\* The numbers of results, from one parser to the next.
LEMMA HeldSteps ==
  ASSUME NEW ps \in Seq(Frames)
  PROVE  /\ \A k \in 0..Len(ps) : Held(ps)[k] \in Int
         /\ Held(ps)[0] = 1
         /\ \A k \in 1..Len(ps) : Held(ps)[k] = Held(ps)[k - 1] + ps[k].st - 1
<1> DEFINE N == Len(ps)
           z == 1
           step == [kn \in (1..N) \X Int |-> kn[2] + ps[kn[1]].st - 1]
           Holds(f) == f = [k \in 0..Len(ps) |-> IF k = 0 THEN 1 ELSE f[k - 1] + ps[k].st - 1]
<1>1. N \in Nat
  BY LenProperties
<1>2. ASSUME NEW k \in 1..N PROVE ps[k].st \in Nat
  <2>1. ps[k] \in Frames
    BY ElementOfSeq
  <2> QED
    BY <2>1 DEF Frames
<1>3. ASSUME NEW k \in 1..N, NEW n \in Int PROVE step[<<k, n>>] = n + ps[k].st - 1
  <2>1. <<k, n>> \in (1..N) \X Int /\ <<k, n>>[1] = k /\ <<k, n>>[2] = n
    OBVIOUS
  <2> QED
    BY <2>1
<1>4. step \in [(1..N) \X Int -> Int]
  <2>1. ASSUME NEW kn \in (1..N) \X Int PROVE kn[2] + ps[kn[1]].st - 1 \in Int
    <3>1. kn[1] \in 1..N /\ kn[2] \in Int
      OBVIOUS
    <3>2. ps[kn[1]].st \in Nat
      BY <1>2, <3>1
    <3> QED
      BY <3>1, <3>2
  <2> QED
    BY <2>1
<1> HIDE DEF step
<1>5. PICK f \in [0..N -> Int] : RecursiveTo(N, f, z, step)
  <2>1. z \in Int
    OBVIOUS
  <2> HIDE DEF z, N
  <2> QED
    BY <1>1, <1>4, <2>1, RecursiveUpto
<1>6. \A k \in 1..N : k - 1 \in 0..N
  BY <1>1
<1>7. Holds(f)
  <2>1. ASSUME NEW k \in 0..N
        PROVE  f[k] = IF k = 0 THEN 1 ELSE f[k - 1] + ps[k].st - 1
    <3>1. f[k] = IF k = 0 THEN z ELSE step[<<k, f[k - 1]>>]
      BY <1>5 DEF RecursiveTo
    <3>2. k # 0 => k \in 1..N /\ f[k - 1] \in Int
      BY <1>5, <1>6
    <3> QED
      BY <1>3, <3>1, <3>2
  <2> QED
    BY <2>1
<1>8. Held(ps) = CHOOSE g : Holds(g)
  BY DEF Held
<1>9. Holds(Held(ps))
  <2> HIDE DEF Holds
  <2> QED
    BY <1>7, <1>8
<1> DEFINE h == Held(ps)
<1> HIDE DEF h
<1>10. \A k \in 0..N : h[k] = IF k = 0 THEN 1 ELSE h[k - 1] + ps[k].st - 1
  BY <1>9 DEF h
<1> DEFINE S == {k \in Nat : k <= N => h[k] \in Int}
<1>11. h[0] = 1
  BY <1>1, <1>10
<1>12. \A k \in 1..N : h[k] = h[k - 1] + ps[k].st - 1
  BY <1>1, <1>10
<1>13. ASSUME NEW k \in Nat, k \in S PROVE k + 1 \in S
  <2> SUFFICES ASSUME k + 1 <= N PROVE h[k + 1] \in Int
    OBVIOUS
  <2>1. h[k] \in Int /\ k + 1 \in 1..N /\ (k + 1) - 1 = k
    BY <1>1, <1>13
  <2>2. h[k + 1] = h[k] + ps[k + 1].st - 1
    BY <1>12, <2>1
  <2> QED
    BY <1>2, <2>1, <2>2
<1>14. 0 \in S
  BY <1>11
<1> HIDE DEF S
<1>15. Nat \subseteq S
  BY <1>13, <1>14, Induction
<1>16. \A k \in 0..N : h[k] \in Int
  BY <1>1, <1>15 DEF S
<1> QED
  BY <1>11, <1>12, <1>16 DEF h

\* Stacks that begin alike hold as many there.
LEMMA HeldAlike ==
  ASSUME NEW ps \in Seq(Frames), NEW qs \in Seq(Frames), NEW n \in Nat,
         n <= Len(ps), n <= Len(qs), \A k \in 1..n : ps[k].st = qs[k].st
  PROVE  \A k \in 0..n : Held(ps)[k] = Held(qs)[k]
<1> DEFINE S == {k \in Nat : k <= n => Held(ps)[k] = Held(qs)[k]}
<1>1. Len(ps) \in Nat /\ Len(qs) \in Nat
  BY LenProperties
<1>2. 0 \in S
  BY HeldSteps
<1>3. ASSUME NEW k \in Nat, k \in S PROVE k + 1 \in S
  <2> SUFFICES ASSUME k + 1 <= n PROVE Held(ps)[k + 1] = Held(qs)[k + 1]
    OBVIOUS
  <2>1. Held(ps)[k] = Held(qs)[k] /\ k + 1 \in 1..n /\ (k + 1) - 1 = k
        /\ k + 1 \in 1..Len(ps) /\ k + 1 \in 1..Len(qs)
    BY <1>1, <1>3
  <2>2. Held(ps)[k + 1] = Held(ps)[k] + ps[k + 1].st - 1
    BY <2>1, HeldSteps
  <2>3. Held(qs)[k + 1] = Held(qs)[k] + qs[k + 1].st - 1
    BY <2>1, HeldSteps
  <2> QED
    BY <2>1, <2>2, <2>3
<1> HIDE DEF S
<1>4. Nat \subseteq S
  BY <1>2, <1>3, Induction
<1> QED
  BY <1>4 DEF S

\* Parsers that wait hold what those under them do, or more.
LEMMA HeldGrows ==
  ASSUME NEW ps \in Seq(Frames), NEW n \in Nat, n <= Len(ps), \A k \in 1..n : ps[k].st > 0
  PROVE  \A k \in 0..n : Held(ps)[k] <= Held(ps)[n] /\ Held(ps)[k] >= 1
<1> DEFINE S == {k \in Nat : k <= n => \A j \in 0..k : Held(ps)[j] <= Held(ps)[k]}
<1>1. Len(ps) \in Nat /\ \A k \in 0..n : Held(ps)[k] \in Int
  <2>1. Len(ps) \in Nat
    BY LenProperties
  <2>2. \A k \in 0..n : k \in 0..Len(ps)
    BY <2>1
  <2> QED
    BY <2>1, <2>2, HeldSteps
<1>2. 0 \in S
  BY <1>1
<1>3. ASSUME NEW k \in Nat, k \in S PROVE k + 1 \in S
  <2> SUFFICES ASSUME k + 1 <= n, NEW j \in 0..(k + 1)
               PROVE  Held(ps)[j] <= Held(ps)[k + 1]
    OBVIOUS
  <2>1. /\ \A l \in 0..k : Held(ps)[l] <= Held(ps)[k]
        /\ k + 1 \in 1..n /\ (k + 1) - 1 = k /\ k + 1 \in 1..Len(ps)
    BY <1>1, <1>3
  <2>2. Held(ps)[k + 1] = Held(ps)[k] + ps[k + 1].st - 1
    BY <2>1, HeldSteps
  <2>3. ps[k + 1].st > 0 /\ ps[k + 1].st \in Nat
    <3>1. ps[k + 1] \in Frames
      BY <2>1, ElementOfSeq
    <3> QED
      BY <2>1, <3>1 DEF Frames
  <2>4. Held(ps)[k] <= Held(ps)[k + 1]
    BY <1>1, <2>1, <2>2, <2>3
  <2>5. CASE j = k + 1
    BY <1>1, <2>1, <2>5
  <2>6. CASE j # k + 1
    <3>1. j \in 0..k /\ j \in 0..n /\ k \in 0..n /\ k + 1 \in 0..n
      BY <2>1, <2>6
    <3>2. Held(ps)[j] \in Int /\ Held(ps)[k] \in Int /\ Held(ps)[k + 1] \in Int
      BY <1>1, <3>1
    <3> QED
      BY <2>1, <2>4, <3>1, <3>2
  <2> QED
    BY <2>5, <2>6
<1> HIDE DEF S
<1>4. Nat \subseteq S
  BY <1>2, <1>3, Induction
<1>5. \A k \in 0..n : Held(ps)[0] <= Held(ps)[k] /\ Held(ps)[k] <= Held(ps)[n]
  BY <1>4 DEF S
<1> QED
  BY <1>1, <1>5, HeldSteps

-----------------------------------------------------------------------------
(* Errors.                                                                 *)

\* The greatest of some numbers is one of them.
LEMMA GreatestOf ==
  ASSUME NEW n \in Nat, NEW S, S \subseteq -1..n, S # {}
  PROVE  Max(S) \in S
<1> DEFINE T == {n - x : x \in S}
<1>1. T \subseteq Nat /\ T # {}
  <2>1. ASSUME NEW x \in S PROVE n - x \in Nat
    <3>1. x \in -1..n
      OBVIOUS
    <3> QED
      BY <3>1
  <2> QED
    BY <2>1
<1>2. PICK m \in T : \A k \in T : m <= k
  <2> HIDE DEF T
  <2> QED
    BY <1>1, LeastNatural
<1>3. PICK x \in S : m = n - x
  OBVIOUS
<1>4. ASSUME NEW y \in S PROVE x >= y
  <2>1. n - y \in T
    OBVIOUS
  <2>2. n - x <= n - y
    BY <1>2, <1>3, <2>1
  <2> QED
    BY <2>2
<1> QED
  BY <1>4 DEF Max

\* So is the least.
LEMMA LeastOf ==
  ASSUME NEW S, S \subseteq Nat, S # {}
  PROVE  Min(S) \in S
<1>1. PICK m \in S : \A k \in S : m <= k
  BY LeastNatural
<1> QED
  BY <1>1 DEF Min

\* No message, or one of those of errors.
HasNone(F) == "" \in F

\* Errors at most n along, with their parts out of F and X.
Several(xs, l, n, F, X) ==
  /\ Len(xs) = l /\ DOMAIN xs = 1..l
  /\ \A k \in 1..l :
       /\ xs[k].pos \in -1..n
       /\ xs[k].failure \in F
       /\ xs[k].expected \subseteq X

\* The error put together of several is at a place of one, or before the text.
LEMMA OneOfSeveral ==
  ASSUME NEW n \in Nat, NEW F, HasNone(F), NEW X, NEW l \in Nat, NEW xs,
         Several(xs, l, n, F, X)
  PROVE  err_or(xs) \in [pos : -1..n, failure : F, expected : SUBSET X]
<1> DEFINE places == {xs[k].pos : k \in DOMAIN xs} \cup {-1}
           pos == Max(places)
           far == {k \in DOMAIN xs : xs[k].pos = pos}
           failed == {k \in far : xs[k].failure # ""}
           first == IF failed = {} THEN Len(xs) + 1 ELSE Min(failed)
           what == IF failed = {} THEN "" ELSE xs[first].failure
           expected == UNION {xs[k].expected : k \in {j \in far : j < first}}
<1>1. places \subseteq -1..n /\ places # {}
  <2>1. \A k \in DOMAIN xs : xs[k].pos \in -1..n
    BY DEF Several
  <2>2. -1 \in -1..n
    OBVIOUS
  <2> QED
    BY <2>1, <2>2
<1>2. pos \in -1..n
  <2> HIDE DEF places
  <2> QED
    BY <1>1, GreatestOf
<1> HIDE DEF pos
<1>3. failed \subseteq 1..l /\ far \subseteq 1..l
  BY DEF Several
<1>4. what \in F
  <2>1. CASE failed = {}
    BY <2>1, Zenon DEF HasNone
  <2>2. CASE failed # {}
    <3>1. 1..l \subseteq Nat
      OBVIOUS
    <3>2. failed \subseteq Nat
      BY <1>3, <3>1, Zenon
    <3> HIDE DEF failed
    <3>3. Min(failed) \in 1..l
      BY <1>3, <2>2, <3>2, LeastOf
    <3>4. xs[Min(failed)].failure \in F
      BY <3>3 DEF Several
    <3> QED
      BY <2>2, <3>4
  <2> QED
    BY <2>1, <2>2
<1> HIDE DEF first
<1>5. expected \subseteq X
  <2>1. ASSUME NEW k \in {j \in far : j < first} PROVE xs[k].expected \subseteq X
    <3>1. k \in 1..l
      BY <1>3, Zenon
    <3> QED
      BY <3>1 DEF Several
  <2> HIDE DEF far
  <2> QED
    BY <2>1, Zenon
<1>6. err_or(xs) = [pos |-> pos, failure |-> what, expected |-> expected]
  BY DEF err_or, pos, first
<1> HIDE DEF what, expected
<1> QED
  BY <1>2, <1>4, <1>5, <1>6

\* Every error there is, is one.
LEMMA ErrorsMade ==
  ASSUME NEW n \in Nat, NEW k \in -1..n, NEW m, NEW e, IsError(e, n)
  PROVE  IsError(err_new(k, m), n) /\ IsError(err_fail(k, m), n) /\ IsError(err_repeat(e, m), n)
<1>1. IsError(err_new(k, m), n)
  BY DEF err_new, IsError
<1>2. IsError(err_fail(k, m), n)
  BY DEF err_fail, IsError
<1>3. IsError(err_repeat(e, m), n)
  <2>1. e = [pos |-> e.pos, failure |-> e.failure, expected |-> e.expected]
    BY DEF IsError
  <2>2. err_repeat(e, m) = [pos |-> e.pos, failure |-> e.failure,
                            expected |-> {Expectation(m, e.expected)}]
    BY <2>1 DEF err_repeat
  <2> QED
    BY <2>2 DEF IsError
<1> QED
  BY <1>1, <1>2, <1>3

\* Several errors together are one.
LEMMA SeveralAreOne ==
  ASSUME NEW n \in Nat, NEW l \in Nat, NEW xs, Len(xs) = l, DOMAIN xs = 1..l,
         \A k \in 1..l : IsError(xs[k], n)
  PROVE  IsError(err_or(xs), n)
<1> DEFINE F == {xs[k].failure : k \in 1..l} \cup {""}
           X == UNION {xs[k].expected : k \in 1..l}
<1>1. Several(xs, l, n, F, X)
  <2>1. ASSUME NEW k \in 1..l
        PROVE  xs[k].pos \in -1..n /\ xs[k].failure \in F /\ xs[k].expected \subseteq X
    BY DEF IsError
  <2> HIDE DEF F, X
  <2> QED
    BY <2>1 DEF Several
<1>2. HasNone(F)
  BY Zenon DEF HasNone
<1> HIDE DEF F, X
<1>3. err_or(xs) \in [pos : -1..n, failure : F, expected : SUBSET X]
  BY <1>1, <1>2, OneOfSeveral
<1> QED
  BY <1>3 DEF IsError

\* Errors that are merged one by one are one at the end.
LEMMA MergedIsError ==
  ASSUME NEW n \in Nat, IsError(err, n), NEW l \in Nat, NEW es, Len(es) = l,
         \A k \in 1..l : IsError(es[k], n), Merge(es)
  PROVE  IsError(err', n)
<1> DEFINE F == {es[k].failure : k \in 1..l} \cup {"", err.failure}
           X == (UNION {es[k].expected : k \in 1..l}) \cup err.expected
           V == [pos : -1..n, failure : F, expected : SUBSET X]
           z == err
           step == [ka \in (1..l) \X V |-> err_or(<<ka[2], es[ka[1]]>>)]
           Merges(f) == f = [k \in 0..l |-> IF k = 0 THEN err ELSE err_or(<<f[k - 1], es[k]>>)]
           all == CHOOSE f : Merges(f)
<1>1. \A k \in 1..l : es[k].pos \in -1..n /\ es[k].failure \in F /\ es[k].expected \subseteq X
  BY DEF IsError
<1>2. HasNone(F)
  BY Zenon DEF HasNone
<1>3. z \in V
  <2>1. err.failure \in F
    BY Zenon
  <2>2. err.expected \subseteq X
    BY Zenon
  <2> HIDE DEF F, X
  <2> QED
    BY <2>1, <2>2 DEF IsError
<1> HIDE DEF F, X
<1>4. ASSUME NEW k \in 1..l, NEW a \in V PROVE err_or(<<a, es[k]>>) \in V
  <2> DEFINE xs == <<a, es[k]>>
  <2>1. Len(xs) = 2 /\ DOMAIN xs = 1..2 /\ xs[1] = a /\ xs[2] = es[k]
    OBVIOUS
  <2> HIDE DEF xs
  <2>2. Several(xs, 2, n, F, X)
    <3> SUFFICES ASSUME NEW j \in 1..2
                 PROVE  xs[j].pos \in -1..n /\ xs[j].failure \in F /\ xs[j].expected \subseteq X
      BY <2>1, Zenon DEF Several
    <3>1. xs[j] = a \/ xs[j] = es[k]
      BY <2>1
    <3>2. a.pos \in -1..n /\ a.failure \in F /\ a.expected \subseteq X
      OBVIOUS
    <3> QED
      BY <1>1, <3>1, <3>2
  <2>3. err_or(xs) \in V
    BY <1>2, <2>2, OneOfSeveral
  <2> QED
    BY <2>3 DEF xs
<1> HIDE DEF V
<1>5. step \in [(1..l) \X V -> V]
  <2>1. ASSUME NEW ka \in (1..l) \X V PROVE err_or(<<ka[2], es[ka[1]]>>) \in V
    <3>1. ka[1] \in 1..l /\ ka[2] \in V
      OBVIOUS
    <3> QED
      BY <1>4, <3>1
  <2> QED
    BY <2>1
<1>6. ASSUME NEW k \in 1..l, NEW a \in V PROVE step[<<k, a>>] = err_or(<<a, es[k]>>)
  <2>1. <<k, a>> \in (1..l) \X V /\ <<k, a>>[1] = k /\ <<k, a>>[2] = a
    OBVIOUS
  <2> QED
    BY <2>1
<1> HIDE DEF step, z
<1>7. PICK f \in [0..l -> V] : RecursiveTo(l, f, z, step)
  BY <1>3, <1>5, RecursiveUpto
<1>8. \A k \in 1..l : k - 1 \in 0..l
  OBVIOUS
<1>9. Merges(f)
  <2>1. ASSUME NEW k \in 0..l
        PROVE  f[k] = IF k = 0 THEN err ELSE err_or(<<f[k - 1], es[k]>>)
    <3>1. f[k] = IF k = 0 THEN z ELSE step[<<k, f[k - 1]>>]
      BY <1>7 DEF RecursiveTo
    <3>2. CASE k = 0
      BY <3>1, <3>2 DEF z
    <3>3. CASE k # 0
      <4>1. k \in 1..l /\ f[k - 1] \in V
        BY <1>7, <1>8, <3>3, SMTT(30)
      <4> QED
        BY <1>6, <3>1, <3>3, <4>1
    <3> QED
      BY <3>2, <3>3
  <2> QED
    BY <2>1
<1>10. Merges(all)
  <2> HIDE DEF Merges
  <2> QED
    BY <1>9
<1> DEFINE S == {k \in Nat : k <= l => all[k] \in V}
<1>11. err' = all[l]
  BY DEF Merge
<1> HIDE DEF all
<1>12. 0 \in S
  <2>1. all[0] = z
    BY <1>10 DEF z
  <2> QED
    BY <1>3, <2>1
<1>13. ASSUME NEW k \in Nat, k \in S PROVE k + 1 \in S
  <2> SUFFICES ASSUME k + 1 <= l PROVE all[k + 1] \in V
    OBVIOUS
  <2>1. all[k] \in V /\ k + 1 \in 0..l /\ k + 1 \in 1..l /\ (k + 1) - 1 = k /\ k + 1 # 0
    BY <1>13
  <2>2. all[k + 1] = IF k + 1 = 0 THEN err ELSE err_or(<<all[(k + 1) - 1], es[k + 1]>>)
    BY <1>10, <2>1, Zenon
  <2>3. all[k + 1] = err_or(<<all[k], es[k + 1]>>)
    BY <2>1, <2>2, Zenon
  <2> QED
    BY <1>4, <2>1, <2>3
<1> HIDE DEF S
<1>14. Nat \subseteq S
  BY <1>12, <1>13, Induction
<1>15. err' \in V
  BY <1>11, <1>14 DEF S
<1> QED
  BY <1>15 DEF V, IsError

-----------------------------------------------------------------------------
(* Results taken off the stack, and one put on it.                         *)

Taken(rs, n, x) == Append(SubSeq(rs, 1, Len(rs) - n), x)

\* How many results are good, or are not.
Tally(rs, v) == Cardinality({k \in DOMAIN rs : rs[k].ok = v})

\* What is left, and the new one above it.
LEMMA TakenProperties ==
  ASSUME NEW S, NEW rs \in Seq(S), NEW n \in 0..Len(rs), NEW x
  PROVE  LET qs == Taken(rs, n, x)
         IN  /\ qs \in Seq(Range(qs))
             /\ Len(qs) = Len(rs) - n + 1 /\ DOMAIN qs = 1..(Len(rs) - n + 1)
             /\ \A k \in 1..(Len(rs) - n) : qs[k] = rs[k]
             /\ qs[Len(rs) - n + 1] = x
<1> DEFINE m == Len(rs) - n
           rest == SubSeq(rs, 1, m)
           qs == Append(rest, x)
           T == S \cup {x}
<1>1. Len(rs) \in Nat /\ m \in Nat /\ m <= Len(rs)
  BY LenProperties
<1>2. \A k \in 1..m : rs[k] \in T
  BY <1>1, ElementOfSeq
<1> HIDE DEF m
<1>3. /\ rest \in Seq(T)
      /\ Len(rest) = IF 1 <= m THEN m - 1 + 1 ELSE 0
      /\ \A k \in 1..(m - 1 + 1) : rest[k] = rs[1 + k - 1]
  BY <1>1, <1>2, SubSeqProperties
<1>4. Len(rest) = m /\ \A k \in 1..m : rest[k] = rs[k]
  <2>1. m - 1 + 1 = m /\ \A k \in 1..m : 1 + k - 1 = k
    BY <1>1
  <2> QED
    BY <1>1, <1>3, <2>1
<1> HIDE DEF rest
<1>5. x \in T
  OBVIOUS
<1> HIDE DEF T
<1>6. /\ qs \in Seq(T) /\ Len(qs) = m + 1
      /\ \A k \in 1..m : qs[k] = rest[k]
      /\ qs[m + 1] = x
  BY <1>3, <1>4, <1>5, AppendProperties
<1> HIDE DEF qs
<1>7. qs \in Seq(Range(qs)) /\ DOMAIN qs = 1..(m + 1)
  BY <1>6, SequenceOfItsOwn, LenProperties
<1>8. Taken(rs, n, x) = qs
  BY DEF Taken, qs, rest, m
<1> QED
  BY <1>4, <1>6, <1>7, <1>8 DEF m

\* All that is taken but the last is b.
TallyChange(rs, n, x, b, v) ==
  /\ Tally(rs, v) \in Nat /\ Tally(Taken(rs, n, x), v) \in Nat
  /\ Tally(Taken(rs, n, x), v)
       = Tally(rs, v) - (IF n > 0 /\ b = v THEN n - 1 ELSE 0)
                      - (IF n > 0 /\ rs[Len(rs)].ok = v THEN 1 ELSE 0)
                      + (IF x.ok = v THEN 1 ELSE 0)

\* How the tallies change when all that is taken but the last is alike.
LEMMA TallyTaken ==
  ASSUME NEW S, NEW rs \in Seq(S), NEW n \in 0..Len(rs), NEW x, NEW b, NEW v,
         \A j \in (Len(rs) - n + 1)..(Len(rs) - 1) : rs[j].ok = b
  PROVE  TallyChange(rs, n, x, b, v)
<1> DEFINE L == Len(rs)
           m == L - n
           qs == Taken(rs, n, x)
           A == {k \in 1..m : rs[k].ok = v}
           M == IF n > 0 /\ b = v THEN (m + 1)..(L - 1) ELSE {}
           T == IF n > 0 /\ rs[L].ok = v THEN {L} ELSE {}
           X == IF x.ok = v THEN {m + 1} ELSE {}
<1>1. L \in Nat /\ DOMAIN rs = 1..L /\ n \in Nat /\ n <= L /\ m \in Nat /\ m = L - n
  BY LenProperties
<1>2. /\ Len(qs) = m + 1 /\ DOMAIN qs = 1..(m + 1)
      /\ \A k \in 1..m : qs[k] = rs[k]
      /\ qs[m + 1] = x
  <2>1. LET taken == Taken(rs, n, x)
        IN  /\ taken \in Seq(Range(taken))
            /\ Len(taken) = Len(rs) - n + 1 /\ DOMAIN taken = 1..(Len(rs) - n + 1)
            /\ \A k \in 1..(Len(rs) - n) : taken[k] = rs[k]
            /\ taken[Len(rs) - n + 1] = x
    BY TakenProperties
  <2> QED
    BY <2>1 DEF qs, m, L
<1>3. \A j \in (m + 1)..(L - 1) : rs[j].ok = b
  OBVIOUS
<1> HIDE DEF m, L, qs
<1>4. {k \in DOMAIN qs : qs[k].ok = v} = A \cup X
  <2>1. 1..(m + 1) = 1..m \cup {m + 1}
    BY <1>1
  <2>2. m + 1 \notin 1..m
    BY <1>1
  <2>3. ASSUME NEW k \in 1..m PROVE qs[k].ok = v <=> rs[k].ok = v
    BY <1>2
  <2>4. qs[m + 1].ok = v <=> x.ok = v
    BY <1>2
  <2> QED
    BY <1>2, <2>1, <2>2, <2>3, <2>4
<1>5. {k \in DOMAIN rs : rs[k].ok = v} = (A \cup M) \cup T
  <2>1. CASE n = 0
    <3>1. m = L /\ M = {} /\ T = {}
      BY <1>1, <2>1
    <3> QED
      BY <1>1, <3>1
  <2>2. CASE n # 0
    <3>1. n > 0 /\ 1..L = (1..m \cup (m + 1)..(L - 1)) \cup {L} /\ m < L
      BY <1>1, <2>2
    <3>2. ASSUME NEW k \in (m + 1)..(L - 1) PROVE (rs[k].ok = v) <=> (b = v)
      BY <1>3
    <3>3. M = {k \in (m + 1)..(L - 1) : rs[k].ok = v}
      BY <3>1, <3>2
    <3>4. T = {k \in {L} : rs[k].ok = v}
      BY <3>1
    <3> HIDE DEF M, T
    <3> QED
      BY <1>1, <3>1, <3>3, <3>4
  <2> QED
    BY <2>1, <2>2
<1>6. IsFiniteSet(1..m) /\ IsFiniteSet((m + 1)..(L - 1))
      /\ Cardinality((m + 1)..(L - 1)) = IF m + 1 > L - 1 THEN 0 ELSE L - 1 - (m + 1) + 1
  <2>1. 1 \in Int /\ m \in Int /\ m + 1 \in Int /\ L - 1 \in Int
    BY <1>1
  <2> QED
    BY <2>1, FS_Interval
<1>7. IsFiniteSet(A) /\ Cardinality(A) \in Nat
  BY <1>6, FS_Subset, FS_CardinalityType
<1>8. IsFiniteSet(M) /\ Cardinality(M) = IF n > 0 /\ b = v THEN n - 1 ELSE 0
  <2>1. CASE n > 0 /\ b = v
    <3>1. (IF m + 1 > L - 1 THEN 0 ELSE L - 1 - (m + 1) + 1) = n - 1
      BY <1>1, <2>1
    <3> QED
      BY <1>6, <2>1, <3>1
  <2>2. CASE ~(n > 0 /\ b = v)
    BY <2>2, FS_EmptySet
  <2> QED
    BY <2>1, <2>2
<1>9. A \cap M = {}
  <2>1. \A k \in 1..m : k \notin (m + 1)..(L - 1)
    BY <1>1
  <2> QED
    BY <2>1
<1>10. L \notin A \cup M \/ n = 0
  BY <1>1
<1>11. m + 1 \notin A
  BY <1>1
<1> DEFINE a == Cardinality(A)
<1> HIDE DEF A, M
<1>12. IsFiniteSet(A \cup M) /\ Cardinality(A \cup M) = Cardinality(A) + Cardinality(M)
  <2>1. Cardinality(A \cap M) = 0
    BY <1>9, FS_EmptySet
  <2>2. IsFiniteSet(A \cup M)
        /\ Cardinality(A \cup M) = Cardinality(A) + Cardinality(M) - Cardinality(A \cap M)
    BY <1>7, <1>8, FS_Union
  <2>3. Cardinality(M) \in Nat
    BY <1>8, FS_CardinalityType
  <2> QED
    BY <1>7, <2>1, <2>2, <2>3
<1>13. Cardinality((A \cup M) \cup T)
         = Cardinality(A \cup M) + (IF n > 0 /\ rs[L].ok = v THEN 1 ELSE 0)
       /\ IsFiniteSet((A \cup M) \cup T)
  <2>1. CASE n > 0 /\ rs[L].ok = v
    <3>1. T = {L} /\ L \notin A \cup M
      BY <1>1, <1>10, <2>1
    <3> QED
      BY <1>12, <2>1, <3>1, FS_AddElement
  <2>2. CASE ~(n > 0 /\ rs[L].ok = v)
    <3>1. (A \cup M) \cup T = A \cup M
      BY <2>2
    <3>2. Cardinality(A \cup M) + 0 = Cardinality(A \cup M)
      BY <1>12, FS_CardinalityType
    <3> QED
      BY <1>12, <2>2, <3>1, <3>2, Zenon
  <2> QED
    BY <2>1, <2>2
<1>14. Cardinality(A \cup X) = Cardinality(A) + (IF x.ok = v THEN 1 ELSE 0)
       /\ IsFiniteSet(A \cup X)
  <2>1. CASE x.ok = v
    BY <1>7, <1>11, <2>1, FS_AddElement
  <2>2. CASE x.ok # v
    <3>1. A \cup X = A
      BY <2>2
    <3>2. Cardinality(A) + 0 = Cardinality(A)
      BY <1>7
    <3> QED
      BY <1>7, <2>2, <3>1, <3>2, Zenon
  <2> QED
    BY <2>1, <2>2
<1>15. Tally(rs, v) = Cardinality((A \cup M) \cup T) /\ Tally(qs, v) = Cardinality(A \cup X)
  BY <1>4, <1>5 DEF Tally
<1>16. Tally(rs, v) \in Nat /\ Tally(qs, v) \in Nat
  BY <1>13, <1>14, <1>15, FS_CardinalityType
<1> DEFINE em == IF n > 0 /\ b = v THEN n - 1 ELSE 0
           et == IF n > 0 /\ rs[L].ok = v THEN 1 ELSE 0
           ex == IF x.ok = v THEN 1 ELSE 0
<1>17. /\ Tally(rs, v) = Cardinality(A) + em + et
       /\ Tally(qs, v) = Cardinality(A) + ex
       /\ em \in Int /\ et \in Int /\ ex \in Int
  <2>1. em \in Int /\ et \in Int /\ ex \in Int
    BY <1>1
  <2> QED
    BY <1>8, <1>12, <1>13, <1>14, <1>15, <2>1
<1> HIDE DEF em, et, ex
<1>18. Tally(qs, v) = Tally(rs, v) - em - et + ex
  BY <1>7, <1>17
<1> QED
  BY <1>16, <1>18 DEF em, et, ex, L, qs, TallyChange

-----------------------------------------------------------------------------
(* How many marks there are.                                               *)

\* The predictive parsers under way among the first n, and the parsers that
\* have set a mark.
Predicting(ps, n) ==
  {k \in 1..n : ps[k].st > 0 /\ Resolve(ps[k].p).type = "PREDICT"}
Marking(ps, n) ==
  {k \in 1..n : /\ ps[k].st > 0 /\ Resolve(ps[k].p).type \in {"AND", "COUNT", "NOT"}
                /\ \A j \in Predicting(ps, n) : j > k}

Balanced(i, ps) ==
  /\ i.backtrack = 1 - Cardinality(Predicting(ps, Len(ps)))
  /\ Len(i.marks) = Cardinality(Marking(ps, Len(ps)))

\* The same, from what is under the top: predictive parsers and b marks, and a
\* parser q that has got to state s.
Marked(i, a, b, q, s) ==
  /\ i.backtrack = 1 - a - (IF s > 0 /\ q.type = "PREDICT" THEN 1 ELSE 0)
  /\ Len(i.marks) = b + (IF s > 0 /\ q.type \in {"AND", "COUNT", "NOT"} /\ a = 0 THEN 1 ELSE 0)

\* What MarksBalanced says, of any input and stack.
MarksFit(i, ps) ==
  LET type(k) == Resolve(ps[k].p).type
      begun == {k \in DOMAIN ps : ps[k].st > 0}
      predictive == {k \in begun : type(k) = "PREDICT"}
      marking == {k \in begun : /\ type(k) \in {"AND", "COUNT", "NOT"}
                                /\ \A j \in predictive : j > k}
  IN  /\ i.backtrack = 1 - Cardinality(predictive)
      /\ Len(i.marks) = Cardinality(marking)

\* It is said of the positions in the stack.
LEMMA FitIsBalanced ==
  ASSUME NEW i, NEW ps \in Seq(Frames)
  PROVE  MarksFit(i, ps) <=> Balanced(i, ps)
<1> DEFINE begun == {k \in DOMAIN ps : ps[k].st > 0}
           predictive == {k \in begun : Resolve(ps[k].p).type = "PREDICT"}
           marking == {k \in begun : /\ Resolve(ps[k].p).type \in {"AND", "COUNT", "NOT"}
                                     /\ \A j \in predictive : j > k}
<1>1. DOMAIN ps = 1..Len(ps)
  BY LenProperties
<1>2. predictive = Predicting(ps, Len(ps))
  BY <1>1 DEF Predicting
<1>3. marking = Marking(ps, Len(ps))
  <2> HIDE DEF predictive
  <2> QED
    BY <1>1, <1>2 DEF Marking
<1>4. MarksFit(i, ps) <=> /\ i.backtrack = 1 - Cardinality(predictive)
                          /\ Len(i.marks) = Cardinality(marking)
  BY Zenon DEF MarksFit
<1> HIDE DEF predictive, marking
<1> QED
  BY <1>2, <1>3, <1>4 DEF Balanced

\* Parsers that are alike set the same marks.
LEMMA AlikeMark ==
  ASSUME NEW ps, NEW qs, NEW n \in Nat, \A k \in 1..n : qs[k] = ps[k]
  PROVE  Predicting(qs, n) = Predicting(ps, n) /\ Marking(qs, n) = Marking(ps, n)
<1>1. Predicting(qs, n) = Predicting(ps, n)
  BY DEF Predicting
<1> QED
  BY <1>1 DEF Marking

\* There are as many as there are.
LEMMA MarkingTypes ==
  ASSUME NEW ps, NEW n \in Nat
  PROVE  /\ IsFiniteSet(Predicting(ps, n)) /\ Cardinality(Predicting(ps, n)) \in Nat
         /\ IsFiniteSet(Marking(ps, n)) /\ Cardinality(Marking(ps, n)) \in Nat
         /\ Cardinality(Predicting(ps, n)) = 0 <=> Predicting(ps, n) = {}
<1>1. IsFiniteSet(1..n)
  BY FS_Interval
<1>2. Predicting(ps, n) \subseteq 1..n /\ Marking(ps, n) \subseteq 1..n
  BY DEF Predicting, Marking
<1>3. IsFiniteSet(Predicting(ps, n)) /\ IsFiniteSet(Marking(ps, n))
  BY <1>1, <1>2, FS_Subset
<1> QED
  BY <1>3, FS_CardinalityType, FS_EmptySet

\* What the parser on top adds to them.
LEMMA MarkingOnTop ==
  ASSUME NEW i, NEW ps \in Seq(Frames), NEW n \in Nat, Len(ps) = n + 1
  PROVE  Balanced(i, ps) <=>
           Marked(i, Cardinality(Predicting(ps, n)), Cardinality(Marking(ps, n)),
                  Resolve(ps[n + 1].p), ps[n + 1].st)
<1> DEFINE t == Resolve(ps[n + 1].p).type
           s == ps[n + 1].st
           P == Predicting(ps, n)
           M == Marking(ps, n)
           N == n + 1
<1>1. 1..N = (1..n) \cup {N} /\ N \notin 1..n /\ \A k \in 1..n : N > k
  OBVIOUS
<1>2. P \subseteq 1..n /\ M \subseteq 1..n
  BY DEF Predicting, Marking
<1>3. /\ IsFiniteSet(P) /\ Cardinality(P) \in Nat /\ IsFiniteSet(M) /\ Cardinality(M) \in Nat
      /\ Cardinality(P) = 0 <=> P = {}
  BY MarkingTypes
<1>4. Predicting(ps, N) = IF s > 0 /\ t = "PREDICT" THEN P \cup {N} ELSE P
  <2> HIDE DEF N
  <2> QED
    BY <1>1 DEF Predicting, N
<1>5. Marking(ps, N) = IF s > 0 /\ t \in {"AND", "COUNT", "NOT"} /\ P = {}
                       THEN M \cup {N} ELSE M
  <2> DEFINE Sets(k) == ps[k].st > 0 /\ Resolve(ps[k].p).type \in {"AND", "COUNT", "NOT"}
  <2>1. Marking(ps, N) = {k \in 1..N : Sets(k) /\ \A j \in Predicting(ps, N) : j > k}
    BY DEF Marking
  <2>2. M = {k \in 1..n : Sets(k) /\ \A j \in P : j > k}
    BY DEF Marking
  <2>3. ASSUME NEW k \in 1..n
        PROVE  (\A j \in Predicting(ps, N) : j > k) <=> (\A j \in P : j > k)
    BY <1>1, <1>4
  <2>4. (\A j \in P : j > N) <=> P = {}
    <3>1. \A j \in P : ~(j > N)
      BY <1>2
    <3> QED
      BY <3>1
  <2>5. ASSUME Sets(N) PROVE Predicting(ps, N) = P
    BY <1>4, <2>5
  <2>6. Sets(N) <=> s > 0 /\ t \in {"AND", "COUNT", "NOT"}
    OBVIOUS
  <2> HIDE DEF Sets, P, M, N, s, t
  <2> QED
    BY <1>1, <2>1, <2>2, <2>3, <2>4, <2>5, <2>6
<1> DEFINE a == Cardinality(P)
           b == Cardinality(M)
<1>6. N \notin P /\ N \notin M
  BY <1>1, <1>2
<1> HIDE DEF P, M, N
<1>7. Cardinality(Predicting(ps, N)) = a + (IF s > 0 /\ t = "PREDICT" THEN 1 ELSE 0)
  <2>1. CASE s > 0 /\ t = "PREDICT"
    BY <1>3, <1>4, <1>6, <2>1, FS_AddElement
  <2>2. CASE ~(s > 0 /\ t = "PREDICT")
    <3>1. a + 0 = a
      BY <1>3
    <3> QED
      BY <1>4, <2>2, <3>1, Zenon
  <2> QED
    BY <2>1, <2>2
<1> DEFINE sets == s > 0 /\ t \in {"AND", "COUNT", "NOT"} /\ a = 0
<1>8. Marking(ps, N) = IF sets THEN M \cup {N} ELSE M
  BY <1>3, <1>5
<1> HIDE DEF sets
<1>9. Cardinality(Marking(ps, N)) = b + (IF sets THEN 1 ELSE 0)
  <2>1. CASE sets
    BY <1>3, <1>6, <1>8, <2>1, FS_AddElement
  <2>2. CASE ~sets
    <3>1. b + 0 = b
      BY <1>3
    <3> QED
      BY <1>8, <2>2, <3>1, Zenon
  <2> QED
    BY <2>1, <2>2
<1>10. Balanced(i, ps) <=> /\ i.backtrack = 1 - Cardinality(Predicting(ps, N))
                           /\ Len(i.marks) = Cardinality(Marking(ps, N))
  BY DEF Balanced, N
<1>11. (1 - (a + (IF s > 0 /\ t = "PREDICT" THEN 1 ELSE 0)))
         = 1 - a - (IF s > 0 /\ t = "PREDICT" THEN 1 ELSE 0)
  BY <1>3
<1>12. Marked(i, a, b, Resolve(ps[n + 1].p), ps[n + 1].st) <=>
         /\ i.backtrack = 1 - a - (IF s > 0 /\ t = "PREDICT" THEN 1 ELSE 0)
         /\ Len(i.marks) = b + (IF sets THEN 1 ELSE 0)
  BY DEF Marked, sets, s, t
<1> HIDE DEF a, b, s, t
<1>13. Balanced(i, ps) <=> Marked(i, a, b, Resolve(ps[n + 1].p), ps[n + 1].st)
  BY <1>7, <1>9, <1>10, <1>11, <1>12
<1> QED
  BY <1>13 DEF a, b, P, M

\* With no parser there is no mark.
LEMMA NothingMarked ==
  ASSUME NEW i, NEW ps \in Seq(Frames), Len(ps) = 0
  PROVE  Balanced(i, ps) <=> i.backtrack = 1 /\ Len(i.marks) = 0
<1>1. Predicting(ps, 0) = {} /\ Marking(ps, 0) = {}
  BY DEF Predicting, Marking
<1>2. Cardinality({}) = 0
  BY FS_EmptySet
<1>3. Cardinality(Predicting(ps, 0)) = 0 /\ Cardinality(Marking(ps, 0)) = 0
  BY <1>1, <1>2
<1> QED
  BY <1>3 DEF Balanced

-----------------------------------------------------------------------------
(* The parser on top.                                                      *)

\* What a name stands for is a parser of those it is made of, or undefined.
LEMMA Resolved ==
  ASSUME NEW q \in Parsers
  PROVE  /\ Resolve(q).s \in Seq(Range(Resolve(q).s))
         /\ Resolve(q).xs \in Seq(Parsers)
         /\ Resolve(q).type \in OfOne => Len(Resolve(q).xs) = 1
<1>1. CASE Resolve(q) \in Parsers
  BY <1>1, ParsersAssumption
<1>2. CASE Resolve(q) \notin Parsers
  <2>1. Resolve(q) = Undefined
    BY <1>2, ParsersAssumption DEF Resolve
  <2>2. Undefined.s = <<>> /\ Undefined.xs = <<>> /\ Undefined.type = "UNDEFINED"
    BY DEF Undefined
  <2>3. "UNDEFINED" \notin OfOne
    BY DEF OfOne
  <2>4. <<>> \in Seq(Parsers) /\ <<>> \in Seq(Range(<<>>))
    OBVIOUS
  <2> QED
    BY <2>1, <2>2, <2>3, <2>4
<1> QED
  BY <1>1, <1>2

\* The parser on top, where it has got to, and the results it holds.
Topmost(n, h) ==
  /\ n \in Nat \ {0} /\ Len(parsers) = n /\ Last(parsers) = parsers[n]
  /\ Last(parsers) \in Frames /\ st \in Nat /\ Reached(p, st)
  /\ h \in Int /\ h = Held(parsers)[n - 1] /\ h >= 1
  /\ Len(results) \in Nat /\ Len(results) = h + st - 1 /\ st <= Len(results)
  /\ st > 0 => /\ r = results[Len(results)] /\ Len(results) >= 1
               /\ r.ok \in BOOLEAN /\ IsError(r.error, Len(input.text))
  /\ \A j \in h..(Len(results) - 1) : results[j].ok = (p.type # "OR")

\* Of the parser on top: what it is, the state it has got to, and the results
\* that are its own, which the invariant speaks of for every parser.
LEMMA OnTop ==
  ASSUME ParsingInv, parsers # <<>>
  PROVE  outcome = Pending /\ Topmost(Len(parsers), Held(parsers)[Len(parsers) - 1])
<1> DEFINE n == Len(parsers)
           h == Held(parsers)[n - 1]
<1>1. outcome = Pending
  BY DEF ParsingInv, Stopped
<1>2. parsers \in Seq(Frames)
  BY DEF ParsingInv, Waiting, Frames
<1>3. n \in Nat \ {0} /\ Last(parsers) \in Frames /\ Last(parsers) = parsers[n]
  BY <1>2, FrontProperties
<1>4. st \in Nat /\ st = parsers[n].st
  BY <1>3 DEF st, Frames
<1>5. Reached(p, st)
  <2>1. Reached(Resolve(parsers[n].p), parsers[n].st)
    BY <1>3 DEF ParsingInv, Waiting
  <2> QED
    BY <1>3, <2>1 DEF p, st
<1>6. \A k \in 1..(n - 1) : parsers[k].st > 0
  BY DEF ParsingInv, Waiting
<1>7. n - 1 \in Nat /\ n - 1 <= Len(parsers) /\ n - 1 \in 0..(n - 1) /\ n - 1 \in 0..Len(parsers)
      /\ n \in 1..Len(parsers)
  BY <1>3
<1>8. h >= 1 /\ h \in Int
  <2>1. \A k \in 0..(n - 1) : Held(parsers)[k] <= Held(parsers)[n - 1] /\ Held(parsers)[k] >= 1
    BY <1>2, <1>6, <1>7, HeldGrows
  <2>2. \A k \in 0..Len(parsers) : Held(parsers)[k] \in Int
    BY <1>2, HeldSteps
  <2> QED
    BY <1>7, <2>1, <2>2
<1>9. Len(results) = h + st - 1
  <2>1. Len(results) = Held(parsers)[n]
    BY <1>1 DEF ParsingInv, StacksAgree
  <2>2. \A k \in 1..Len(parsers) : Held(parsers)[k] = Held(parsers)[k - 1] + parsers[k].st - 1
    BY <1>2, HeldSteps
  <2> QED
    BY <1>4, <1>7, <2>1, <2>2
<1>10. results \in Seq(Range(results))
       /\ \A j \in 1..Len(results) : results[j].ok \in BOOLEAN
                                     /\ IsError(results[j].error, Len(input.text))
  BY DEF ParsingInv, Collected
<1>11. Len(results) \in Nat
  BY <1>10, LenProperties
<1>12. st <= Len(results)
  BY <1>4, <1>8, <1>9
<1>13. ASSUME st > 0
       PROVE  /\ r = results[Len(results)] /\ Len(results) >= 1
              /\ r.ok \in BOOLEAN /\ IsError(r.error, Len(input.text))
  <2>1. Len(results) >= 1 /\ Len(results) \in 1..Len(results)
    BY <1>4, <1>11, <1>12, <1>13
  <2>2. r = results[Len(results)]
    BY DEF r, Last
  <2> QED
    BY <1>10, <2>1, <2>2
<1>14. ASSUME NEW j \in h..(Len(results) - 1) PROVE results[j].ok = (p.type # "OR")
  <2>1. j \in 1..Len(results) /\ h <= j /\ j < h + parsers[n].st - 1
    BY <1>4, <1>8, <1>9, <1>11
  <2>2. \A k \in 1..Len(parsers), jj \in 1..Len(results) :
          /\ Held(parsers)[k - 1] <= jj
          /\ jj < Held(parsers)[k - 1] + parsers[k].st - 1
          => results[jj].ok = (Resolve(parsers[k].p).type # "OR")
    BY DEF ParsingInv, Collected
  <2>3. results[j].ok = (Resolve(parsers[n].p).type # "OR")
    BY <1>7, <2>1, <2>2
  <2> QED
    BY <1>3, <2>3 DEF p
<1> QED
  BY <1>1, <1>3, <1>4, <1>5, <1>8, <1>9, <1>11, <1>12, <1>13, <1>14 DEF Topmost

\* Which parsers there are on top.
LEMMA TopParser ==
  ASSUME ParsingInv, parsers # <<>>
  PROVE  /\ p.s \in Seq(Range(p.s)) /\ p.xs \in Seq(Parsers) /\ Len(p.xs) \in Nat
         /\ \A k \in 1..Len(p.xs) : p.xs[k] \in Parsers
         /\ p.type \in OfOne => Len(p.xs) = 1 /\ p.xs[1] \in Parsers
<1>1. Last(parsers).p \in Parsers
  BY OnTop DEF Topmost, Frames
<1>2. /\ p.s \in Seq(Range(p.s)) /\ p.xs \in Seq(Parsers)
      /\ p.type \in OfOne => Len(p.xs) = 1
  BY <1>1, Resolved DEF p
<1>3. Len(p.xs) \in Nat /\ \A k \in 1..Len(p.xs) : p.xs[k] \in Parsers
  BY <1>2, LenProperties, ElementOfSeq
<1> QED
  BY <1>2, <1>3

\* The latest errors, in a sequence.
LEMMA LatestErrors ==
  ASSUME ParsingInv, NEW n \in 0..Len(results)
  PROVE  /\ Len(errors(n)) = n /\ DOMAIN errors(n) = 1..n
         /\ \A k \in 1..n : IsError(errors(n)[k], Len(input.text))
<1>1. results \in Seq(Range(results))
      /\ \A j \in 1..Len(results) : IsError(results[j].error, Len(input.text))
  BY DEF ParsingInv, Collected
<1>2. Len(results) \in Nat /\ n \in Nat /\ n <= Len(results)
  BY <1>1, LenProperties
<1>3. DOMAIN errors(n) = 1..n
  BY DEF errors
<1>4. Len(errors(n)) = n
  <2>1. errors(n) \in [1..n -> {errors(n)[k] : k \in 1..n}]
    BY DEF errors
  <2>2. errors(n) \in Seq({errors(n)[k] : k \in 1..n})
    BY <1>2, <2>1, SeqDef
  <2> HIDE DEF errors
  <2> QED
    BY <1>2, <1>3, <2>2, LenProperties
<1>5. ASSUME NEW k \in 1..n PROVE IsError(errors(n)[k], Len(input.text))
  <2>1. Len(results) - n + k \in 1..Len(results)
    BY <1>2
  <2>2. errors(n)[k] = results[Len(results) - n + k].error
    BY DEF errors
  <2> QED
    BY <1>1, <2>1, <2>2
<1> QED
  BY <1>3, <1>4, <1>5

\* How many marks there are, from what is under the parser on top.
LEMMA TopMarked ==
  ASSUME ParsingInv, parsers # <<>>
  PROVE  Marked(input, Cardinality(Predicting(parsers, Len(parsers) - 1)),
                Cardinality(Marking(parsers, Len(parsers) - 1)), p, st)
<1> DEFINE n == Len(parsers)
<1>1. parsers \in Seq(Frames)
  BY DEF ParsingInv, Waiting, Frames
<1>2. Topmost(n, Held(parsers)[n - 1])
  BY OnTop
<1>3. n \in Nat \ {0} /\ Last(parsers) = parsers[n]
  BY <1>2 DEF Topmost
<1>4. st = parsers[n].st /\ p = Resolve(parsers[n].p)
  BY <1>3 DEF st, p
<1>5. n - 1 \in Nat /\ (n - 1) + 1 = n
  BY <1>3
<1>6. Balanced(input, parsers)
  <2>1. MarksFit(input, parsers)
    BY DEF ParsingInv, MarksBalanced, MarksFit
  <2> QED
    BY <1>1, <2>1, FitIsBalanced
<1>7. Balanced(input, parsers) <=>
        Marked(input, Cardinality(Predicting(parsers, n - 1)),
               Cardinality(Marking(parsers, n - 1)),
               Resolve(parsers[(n - 1) + 1].p), parsers[(n - 1) + 1].st)
  BY <1>1, <1>5, MarkingOnTop
<1> QED
  BY <1>4, <1>5, <1>6, <1>7

\* The marks are those of a parser that has gone on to state s, or has returned
\* when s is 0.
MarksGoTo(s) ==
  \A a \in Nat, b \in Nat : Marked(input, a, b, p, st) => Marked(input', a, b, p, s)

\* A result.
IsResult(x, n) == x.ok \in BOOLEAN /\ IsError(x.error, n)

\* What has become of the input and of the error when it has.
Moves(s) ==
  /\ Sound(input') /\ input'.text = input.text /\ IsError(err', Len(input.text))
  /\ MarksGoTo(s)

-----------------------------------------------------------------------------
(* A parser asks for another.                                              *)

\* The stack with the parser on top in another state and a new one over it.
Pushed(ps, s, x) ==
  Append(Front(ps) \o <<[Last(ps) EXCEPT !.st = s]>>, [p |-> x, st |-> 0])

\* The stack with one parser more differs from the stack before in the state of
\* the one that asked and in the new one.
LEMMA PushedProperties ==
  ASSUME NEW ps \in Seq(Frames), ps # <<>>, NEW s \in Nat, NEW x \in Parsers
  PROVE  /\ Pushed(ps, s, x) \in Seq(Frames)
         /\ Len(Pushed(ps, s, x)) = Len(ps) + 1
         /\ \A k \in 1..(Len(ps) - 1) : Pushed(ps, s, x)[k] = ps[k]
         /\ Pushed(ps, s, x)[Len(ps)].p = Last(ps).p
         /\ Pushed(ps, s, x)[Len(ps)].st = s
         /\ Pushed(ps, s, x)[Len(ps) + 1] = [p |-> x, st |-> 0]
<1> DEFINE n == Len(ps)
           f == Front(ps)
           g == [Last(ps) EXCEPT !.st = s]
           new == [p |-> x, st |-> 0]
           qs == f \o <<g>>
<1>1. /\ n \in Nat \ {0} /\ f \in Seq(Frames) /\ Len(f) = n - 1
      /\ \A k \in 1..(n - 1) : f[k] = ps[k]
      /\ Last(ps) \in Frames
  BY FrontProperties
<1>2. g \in Frames /\ g.p = Last(ps).p /\ g.st = s /\ new \in Frames
  BY <1>1 DEF Frames
<1>3. n - 1 \in Nat /\ (n - 1) + 1 = n
  BY <1>1
<1> HIDE DEF n, f, g, new
<1>4. /\ qs \in Seq(Frames) /\ Len(qs) = n
      /\ \A k \in 1..(n - 1) : qs[k] = f[k]
      /\ qs[n] = g
  <2>1. <<g>> \in Seq(Frames) /\ Len(<<g>>) = 1 /\ <<g>>[1] = g
    BY <1>2
  <2>2. /\ qs \in Seq(Frames) /\ Len(qs) = Len(f) + Len(<<g>>)
        /\ \A k \in 1..(Len(f) + Len(<<g>>)) :
             qs[k] = IF k <= Len(f) THEN f[k] ELSE <<g>>[k - Len(f)]
    BY <1>1, <2>1, ConcatProperties
  <2> HIDE DEF qs
  <2>3. /\ Len(qs) = n
        /\ \A k \in 1..n : qs[k] = IF k <= n - 1 THEN f[k] ELSE <<g>>[k - (n - 1)]
    BY <1>1, <1>3, <2>1, <2>2
  <2>4. /\ n \in 1..n /\ ~(n <= n - 1) /\ n - (n - 1) = 1
        /\ \A k \in 1..(n - 1) : k \in 1..n /\ k <= n - 1
    BY <1>1
  <2>5. qs[n] = g
    BY <2>1, <2>3, <2>4
  <2>6. \A k \in 1..(n - 1) : qs[k] = f[k]
    BY <2>3, <2>4
  <2> QED
    BY <2>2, <2>3, <2>5, <2>6
<1> HIDE DEF qs
<1>5. /\ Append(qs, new) \in Seq(Frames) /\ Len(Append(qs, new)) = n + 1
      /\ \A k \in 1..n : Append(qs, new)[k] = qs[k]
      /\ Append(qs, new)[n + 1] = new
  BY <1>2, <1>4, AppendProperties
<1>6. \A k \in 1..(n - 1) : k \in 1..n
  BY <1>1
<1>7. n \in 1..n
  BY <1>1
<1>8. Pushed(ps, s, x) = Append(qs, new)
  BY DEF Pushed, qs, f, g, new
<1> QED
  BY <1>1, <1>2, <1>4, <1>5, <1>6, <1>7, <1>8 DEF n, new

\* A turn that asks for another parser keeps the invariant, provided that it does
\* what it does to the input as Moves says (mpc.c:960).
LEMMA ContinueKeeps ==
  ASSUME ParsingInv, parsers # <<>>, NEW x \in Parsers, Continue(st + 1, x),
         Reached(p, st + 1), st > 0 => r.ok = (p.type # "OR"),
         Moves(st + 1), live' = live
  PROVE  ParsingInv'
<1> DEFINE n == Len(parsers)
           h == Held(parsers)[n - 1]
           L == Len(results)
<1>1. Sound(input') /\ input'.text = input.text /\ IsError(err', Len(input.text))
  BY DEF Moves
<1>2. outcome = Pending /\ Topmost(n, h)
  BY OnTop
<1>3. /\ parsers' = Pushed(parsers, st + 1, x)
      /\ slots' = [slots EXCEPT !.parsers = ParserStack!More(n + 1, @)]
      /\ results' = results /\ outcome' = outcome
  BY DEF Continue, Pushed
<1>4. parsers \in Seq(Frames)
  BY DEF ParsingInv, Waiting, Frames
<1>5. /\ n \in Nat \ {0} /\ st \in Nat /\ st + 1 \in Nat /\ h \in Int /\ h >= 1
      /\ L \in Nat /\ L = h + st - 1
      /\ Last(parsers) = parsers[n] /\ Last(parsers).p \in Parsers /\ st = Last(parsers).st
      /\ p = Resolve(Last(parsers).p)
  <2>1. st = Last(parsers).st /\ p = Resolve(Last(parsers).p)
    BY DEF st, p
  <2> QED
    BY <1>2, <2>1 DEF Topmost, Frames
<1>6. /\ parsers' \in Seq(Frames) /\ Len(parsers') = n + 1
      /\ \A k \in 1..(n - 1) : parsers'[k] = parsers[k]
      /\ parsers'[n].p = Last(parsers).p /\ parsers'[n].st = st + 1
      /\ parsers'[n + 1] = [p |-> x, st |-> 0]
  <2>1. /\ Pushed(parsers, st + 1, x) \in Seq(Frames)
        /\ Len(Pushed(parsers, st + 1, x)) = Len(parsers) + 1
        /\ \A k \in 1..(Len(parsers) - 1) : Pushed(parsers, st + 1, x)[k] = parsers[k]
        /\ Pushed(parsers, st + 1, x)[Len(parsers)].p = Last(parsers).p
        /\ Pushed(parsers, st + 1, x)[Len(parsers)].st = st + 1
        /\ Pushed(parsers, st + 1, x)[Len(parsers) + 1] = [p |-> x, st |-> 0]
    <3>1. parsers \in Seq(Frames) /\ parsers # <<>> /\ st + 1 \in Nat /\ x \in Parsers
      BY <1>4, <1>5
    <3> HIDE DEF n, h, L
    <3> QED
      BY ONLY <3>1, PushedProperties
  <2> QED
    BY <1>3, <2>1
<1>7. parsers'[n + 1].p = x /\ parsers'[n + 1].st = 0
  BY <1>6
<1>8. n - 1 \in Nat /\ (n + 1) - 1 = n /\ n \in 1..(n + 1) /\ n + 1 \in 1..(n + 1)
      /\ 1..(n + 1) = (1..(n - 1)) \cup {n, n + 1}
      /\ \A k \in 1..(n - 1) : k \in 1..n /\ k - 1 \in 0..(n - 1)
  BY <1>5, SMTT(30)
<1>9. \A k \in 1..n : Reached(Resolve(parsers[k].p), parsers[k].st)
  BY DEF ParsingInv, Waiting
<1>10. \A k \in 1..(n - 1) : parsers[k].st > 0
  BY DEF ParsingInv, Waiting
<1>11. Waiting'
  <2>1. ASSUME NEW k \in 1..(n + 1) PROVE Reached(Resolve(parsers'[k].p), parsers'[k].st)
    <3>1. CASE k \in 1..(n - 1)
      BY <1>6, <1>8, <1>9, <3>1
    <3>2. CASE k = n
      BY <1>5, <1>6, <3>2
    <3>3. CASE k = n + 1
      BY <1>7, <3>3 DEF Reached
    <3> QED
      BY <1>8, <3>1, <3>2, <3>3
  <2>2. ASSUME NEW k \in 1..n PROVE parsers'[k].st > 0
    <3>1. CASE k \in 1..(n - 1)
      BY <1>6, <1>10, <3>1
    <3>2. CASE k = n
      BY <1>5, <1>6, <3>2
    <3> QED
      BY <1>8, <3>1, <3>2
  <2> QED
    BY <1>6, <1>8, <2>1, <2>2 DEF Waiting, Frames
<1>12. /\ \A k \in 0..(n - 1) : Held(parsers')[k] = Held(parsers)[k]
       /\ Held(parsers')[n] = h + st
       /\ Held(parsers')[n + 1] = h + st - 1
  <2>1. \A k \in 1..(n - 1) : parsers'[k].st = parsers[k].st
    BY <1>6
  <2>2. n - 1 <= Len(parsers) /\ n - 1 <= Len(parsers')
    BY <1>5, <1>6
  <2>3. \A k \in 0..(n - 1) : Held(parsers')[k] = Held(parsers)[k]
    BY <1>4, <1>6, <1>8, <2>1, <2>2, HeldAlike
  <2>4. \A k \in 1..(n + 1) : Held(parsers')[k] = Held(parsers')[k - 1] + parsers'[k].st - 1
    BY <1>6, HeldSteps
  <2>5. Held(parsers')[n - 1] = h
    <3>1. n - 1 \in 0..(n - 1)
      BY <1>8
    <3> QED
      BY <2>3, <3>1
  <2>6. Held(parsers')[n] = h + (st + 1) - 1
    BY <1>6, <1>8, <2>4, <2>5
  <2>7. Held(parsers')[n] = h + st
    BY <1>5, <2>6
  <2>8. Held(parsers')[n + 1] = h + st + 0 - 1
    BY <1>7, <1>8, <2>4, <2>7
  <2>9. Held(parsers')[n + 1] = h + st - 1
    BY <1>5, <2>8
  <2> QED
    BY <2>3, <2>7, <2>9
<1>13. StacksAgree'
  BY <1>3, <1>5, <1>6, <1>12 DEF StacksAgree
<1>14. /\ results \in Seq(Range(results))
       /\ \A j \in 1..L : results[j].ok \in BOOLEAN /\ IsError(results[j].error, Len(input.text))
       /\ \A k \in 1..n, j \in 1..L :
            /\ Held(parsers)[k - 1] <= j
            /\ j < Held(parsers)[k - 1] + parsers[k].st - 1
            => results[j].ok = (Resolve(parsers[k].p).type # "OR")
  BY DEF ParsingInv, Collected
<1>15. ASSUME NEW k \in 1..(n + 1), NEW j \in 1..L,
              Held(parsers')[k - 1] <= j,
              j < Held(parsers')[k - 1] + parsers'[k].st - 1
       PROVE  results[j].ok = (Resolve(parsers'[k].p).type # "OR")
  <2>1. CASE k \in 1..(n - 1)
    <3>1. parsers'[k] = parsers[k] /\ Held(parsers')[k - 1] = Held(parsers)[k - 1] /\ k \in 1..n
      BY <1>6, <1>8, <1>12, <2>1
    <3> QED
      BY <1>14, <1>15, <3>1
  <2>2. CASE k = n
    <3>1. Held(parsers')[k - 1] = h /\ parsers'[k].st = st + 1
      BY <1>6, <1>8, <1>12, <2>2
    <3>2. h <= j /\ j <= L /\ j \in Int
      BY <1>15, <3>1
    <3>3. Resolve(parsers'[k].p).type = p.type
      BY <1>5, <1>6, <2>2
    <3>4. CASE j < L
      <4>1. j \in h..(L - 1)
        BY <1>5, <3>2, <3>4
      <4>2. results[j].ok = (p.type # "OR")
        BY <1>2, <4>1 DEF Topmost
      <4> QED
        BY <3>3, <4>2
    <3>5. CASE j = L
      <4>1. st > 0
        BY <1>5, <3>2, <3>5, SMTT(30)
      <4>2. r = results[L]
        BY <1>2, <4>1 DEF Topmost
      <4> QED
        BY <3>3, <3>5, <4>1, <4>2
    <3> QED
      <4>1. j < L \/ j = L
        <5>1. L \in Nat
          BY <1>5
        <5> HIDE DEF L
        <5> QED
          BY <3>2, <5>1
      <4> QED
        BY <3>4, <3>5, <4>1
  <2>3. CASE k = n + 1
    <3>1. Held(parsers')[k - 1] = h + st
      BY <1>8, <1>12, <2>3
    <3> QED
      BY <1>5, <1>15, <3>1, SMTT(30)
  <2> QED
    BY <1>8, <2>1, <2>2, <2>3
<1>16. Collected'
  <2> HIDE DEF n, h, L
  <2>1. /\ results' \in Seq(Range(results'))
        /\ \A j \in 1..Len(results') : results'[j].ok \in BOOLEAN
                                       /\ IsError(results'[j].error, Len(input'.text))
    BY <1>1, <1>3, <1>14 DEF L
  <2>2. ASSUME NEW k \in 1..Len(parsers'), NEW j \in 1..Len(results'),
               Held(parsers')[k - 1] <= j,
               j < Held(parsers')[k - 1] + parsers'[k].st - 1
        PROVE  results'[j].ok = (Resolve(parsers'[k].p).type # "OR")
    BY <1>3, <1>6, <1>15, <2>2 DEF L
  <2> QED
    BY <2>1, <2>2 DEF Collected
<1>17. Room'
  <2>1. /\ slots \in [parsers : Nat, results : Nat]
        /\ Len(parsers) <= slots.parsers /\ Len(results) <= slots.results
    BY DEF ParsingInv, Room
  <2>2. ParserStack!More(n + 1, slots.parsers) \in Nat
        /\ n + 1 <= ParserStack!More(n + 1, slots.parsers)
    BY <1>5, <2>1, MoreRoom
  <2>3. /\ slots' \in [parsers : Nat, results : Nat]
        /\ slots'.parsers = ParserStack!More(n + 1, slots.parsers)
        /\ slots'.results = slots.results
    BY <1>3, <2>1, <2>2
  <2> QED
    BY <1>3, <1>6, <2>1, <2>2, <2>3 DEF Room
<1>18. MarksBalanced'
  <2> DEFINE a == Cardinality(Predicting(parsers, n - 1))
             b == Cardinality(Marking(parsers, n - 1))
             c == Cardinality(Predicting(parsers', n))
             d == Cardinality(Marking(parsers', n))
  <2>1. a \in Nat /\ b \in Nat /\ c \in Nat /\ d \in Nat
    BY <1>5, <1>8, MarkingTypes
  <2>2. Marked(input, a, b, p, st)
    BY TopMarked
  <2>3. Marked(input', a, b, p, st + 1)
    BY <2>1, <2>2 DEF Moves, MarksGoTo
  <2>4. /\ Predicting(parsers', n - 1) = Predicting(parsers, n - 1)
        /\ Marking(parsers', n - 1) = Marking(parsers, n - 1)
    BY <1>6, <1>8, AlikeMark
  <2> DEFINE qs == SubSeq(parsers', 1, n)
  <2>5. /\ qs \in Seq(Frames) /\ Len(qs) = (n - 1) + 1
        /\ \A k \in 1..n : qs[k] = parsers'[k]
    <3>1. \A k \in 1..n : parsers'[k] \in Frames
      <4>1. \A k \in 1..n : k \in 1..Len(parsers')
        BY <1>5, <1>6
      <4> QED
        BY <1>6, <4>1, ElementOfSeq
    <3>2. /\ qs \in Seq(Frames)
          /\ Len(qs) = IF 1 <= n THEN n - 1 + 1 ELSE 0
          /\ \A k \in 1..(n - 1 + 1) : qs[k] = parsers'[1 + k - 1]
      BY <1>5, <3>1, SubSeqProperties
    <3>3. 1 <= n /\ n - 1 + 1 = n /\ \A k \in 1..n : 1 + k - 1 = k
      BY <1>5
    <3> QED
      BY <3>2, <3>3
  <2> HIDE DEF qs
  <2>6. Balanced(input', qs)
    <3>1. (n - 1) + 1 = n /\ n \in 1..n /\ \A k \in 1..(n - 1) : k \in 1..n
      BY <1>5
    <3>2. Predicting(qs, n - 1) = Predicting(parsers, n - 1)
          /\ Marking(qs, n - 1) = Marking(parsers, n - 1)
      <4>1. \A k \in 1..(n - 1) : qs[k] = parsers'[k]
        BY <2>5, <3>1
      <4> QED
        BY <1>8, <2>4, <4>1, AlikeMark
    <3>3. qs[(n - 1) + 1].st = st + 1 /\ Resolve(qs[(n - 1) + 1].p) = p
      BY <1>5, <1>6, <2>5, <3>1
    <3>4. Balanced(input', qs) <=>
            Marked(input', Cardinality(Predicting(qs, n - 1)), Cardinality(Marking(qs, n - 1)),
                   Resolve(qs[(n - 1) + 1].p), qs[(n - 1) + 1].st)
      BY <1>8, <2>5, MarkingOnTop
    <3> QED
      BY <2>3, <3>2, <3>3, <3>4
  <2>7. input'.backtrack = 1 - c /\ Len(input'.marks) = d
    <3>1. Len(qs) = n
      BY <1>5, <2>5
    <3>2. Predicting(parsers', n) = Predicting(qs, n) /\ Marking(parsers', n) = Marking(qs, n)
      BY <1>5, <2>5, AlikeMark
    <3> QED
      BY <2>6, <3>1, <3>2 DEF Balanced
  <2>8. Marked(input', c, d, Resolve(parsers'[n + 1].p), parsers'[n + 1].st)
    <3>1. ~(parsers'[n + 1].st > 0)
      BY <1>7
    <3>2. 1 - c - 0 = 1 - c /\ d + 0 = d
      BY <2>1
    <3> HIDE DEF c, d
    <3> QED
      BY <2>7, <3>1, <3>2, Zenon DEF Marked
  <2>9. Balanced(input', parsers')
    BY <1>5, <1>6, <2>8, MarkingOnTop
  <2>10. MarksFit(input', parsers')
    BY <1>6, <2>9, FitIsBalanced
  <2> QED
    BY <2>10 DEF MarksBalanced, MarksFit
<1>19. NothingLeaks'
  BY <1>3 DEF ParsingInv, NothingLeaks
<1>20. IsError(err', Len(input'.text))
  BY <1>1
<1>21. Stopped'
  BY <1>2, <1>3 DEF Stopped
<1> QED
  BY <1>11, <1>13, <1>16, <1>17, <1>18, <1>1, <1>19, <1>20, <1>21 DEF ParsingInv

-----------------------------------------------------------------------------
(* A parser returns.                                                       *)

\* How many of the values, or of the errors, that a parser held are spent when
\* it returns.
Spent(ok) == (IF st > 0 /\ (p.type # "OR") = ok THEN st - 1 ELSE 0)
             + (IF st > 0 /\ r.ok = ok THEN 1 ELSE 0)

SpentValues == Spent(TRUE)
SpentErrors == Spent(FALSE)

\* It is put in place of the results it is made from.
Returned(x) ==
  /\ parsers' = Front(parsers) /\ results' = Taken(results, st, x) /\ outcome' = outcome
  /\ Room'
  /\ live' = [ vals |-> live.vals - SpentValues + (IF x.ok THEN 1 ELSE 0),
               errs |-> live.errs - SpentErrors + (IF x.ok THEN 0 ELSE 1) ]

\* A turn that returns a result keeps the invariant, provided that it frees, merges
\* or hands on as many values and errors as it takes (mpc.c:961-962).
LEMMA ReturnKeeps ==
  ASSUME ParsingInv, parsers # <<>>, NEW x, IsResult(x, Len(input.text)), Returned(x), Moves(0)
  PROVE  ParsingInv'
<1> DEFINE n == Len(parsers)
           h == Held(parsers)[n - 1]
           L == Len(results)
<1>1. /\ Sound(input') /\ input'.text = input.text /\ IsError(err', Len(input.text))
      /\ x.ok \in BOOLEAN /\ IsError(x.error, Len(input.text))
      /\ parsers' = Front(parsers) /\ results' = Taken(results, st, x) /\ outcome' = outcome
      /\ Room'
  BY DEF Moves, IsResult, Returned
<1>2. outcome = Pending /\ Topmost(n, h)
  BY OnTop
<1>3. parsers \in Seq(Frames)
  BY DEF ParsingInv, Waiting, Frames
<1>4. /\ n \in Nat \ {0} /\ st \in Nat /\ h \in Int /\ h >= 1
      /\ L \in Nat /\ L = h + st - 1 /\ st \in 0..L /\ L - st + 1 = h /\ L - st = h - 1
      /\ Last(parsers) = parsers[n] /\ st = parsers[n].st /\ p = Resolve(parsers[n].p)
  <2>1. st = Last(parsers).st /\ p = Resolve(Last(parsers).p)
    BY DEF st, p
  <2>2. /\ n \in Nat \ {0} /\ st \in Nat /\ h \in Int /\ h >= 1
        /\ L \in Nat /\ L = h + st - 1 /\ Last(parsers) = parsers[n]
    BY <1>2 DEF Topmost
  <2>3. parsers[n] = Last(parsers)
    BY <2>2
  <2>4. st = parsers[n].st /\ p = Resolve(parsers[n].p)
    BY <2>1, <2>3, Zenon
  <2> HIDE DEF n, h, L
  <2>5. st \in 0..L /\ L - st + 1 = h /\ L - st = h - 1
    BY <2>2
  <2> QED
    BY <2>2, <2>4, <2>5
<1>5. /\ parsers' \in Seq(Frames) /\ Len(parsers') = n - 1
      /\ \A k \in 1..(n - 1) : parsers'[k] = parsers[k]
  BY <1>1, <1>3, FrontProperties
<1>6. n - 1 \in Nat /\ \A k \in 1..(n - 1) : k \in 1..n /\ k - 1 \in 0..(n - 1) /\ k \in 0..(n - 1)
  <2>1. n \in Nat \ {0}
    BY <1>4
  <2> HIDE DEF n
  <2> QED
    BY <2>1
<1>7. /\ results \in Seq(Range(results))
      /\ \A j \in 1..L : results[j].ok \in BOOLEAN /\ IsError(results[j].error, Len(input.text))
      /\ \A k \in 1..n, j \in 1..L :
           /\ Held(parsers)[k - 1] <= j
           /\ j < Held(parsers)[k - 1] + parsers[k].st - 1
           => results[j].ok = (Resolve(parsers[k].p).type # "OR")
  BY DEF ParsingInv, Collected
<1>8. /\ results' \in Seq(Range(results')) /\ Len(results') = h
      /\ \A k \in 1..(h - 1) : results'[k] = results[k]
      /\ results'[h] = x
  <2>1. LET taken == Taken(results, st, x)
        IN  /\ taken \in Seq(Range(taken))
            /\ Len(taken) = Len(results) - st + 1 /\ DOMAIN taken = 1..(Len(results) - st + 1)
            /\ \A k \in 1..(Len(results) - st) : taken[k] = results[k]
            /\ taken[Len(results) - st + 1] = x
    <3>1. st \in 0..Len(results)
      BY <1>4
    <3> QED
      BY <1>7, <3>1, TakenProperties
  <2> QED
    BY <1>1, <1>4, <2>1
<1>9. /\ \A k \in 1..n : Reached(Resolve(parsers[k].p), parsers[k].st)
      /\ \A k \in 1..(n - 1) : parsers[k].st > 0
  BY DEF ParsingInv, Waiting
<1>10. Waiting'
  <2>1. \A k \in 1..(n - 1) : Reached(Resolve(parsers'[k].p), parsers'[k].st)
    BY <1>5, <1>6, <1>9
  <2>2. \A k \in 1..((n - 1) - 1) : k \in 1..(n - 1)
    BY <1>6
  <2>3. \A k \in 1..((n - 1) - 1) : parsers'[k].st > 0
    BY <1>5, <1>9, <2>2
  <2> QED
    BY <1>5, <2>1, <2>3 DEF Waiting, Frames
<1>11. \A k \in 0..(n - 1) : Held(parsers')[k] = Held(parsers)[k]
  <2>1. \A k \in 1..(n - 1) : parsers'[k].st = parsers[k].st
    BY <1>5
  <2>2. n - 1 <= Len(parsers) /\ n - 1 <= Len(parsers')
    BY <1>4, <1>5
  <2> QED
    BY <1>3, <1>5, <1>6, <2>1, <2>2, HeldAlike
<1>12. StacksAgree'
  <2>1. Held(parsers')[n - 1] = h
    BY <1>6, <1>11
  <2> QED
    BY <1>1, <1>5, <1>8, <2>1 DEF StacksAgree
<1>13. \A k \in 0..(n - 1) : Held(parsers)[k] <= h /\ Held(parsers)[k] >= 1
                             /\ Held(parsers)[k] \in Int
  <2>1. n - 1 <= Len(parsers)
    BY <1>4
  <2>2. \A k \in 0..(n - 1) : Held(parsers)[k] <= Held(parsers)[n - 1] /\ Held(parsers)[k] >= 1
    BY <1>3, <1>6, <1>9, <2>1, HeldGrows
  <2>3. \A k \in 0..Len(parsers) : Held(parsers)[k] \in Int
    BY <1>3, HeldSteps
  <2>4. \A k \in 0..(n - 1) : k \in 0..Len(parsers)
    BY <1>4
  <2> QED
    BY <2>2, <2>3, <2>4
<1>14. ASSUME NEW k \in 1..(n - 1), NEW j \in 1..h,
              Held(parsers')[k - 1] <= j,
              j < Held(parsers')[k - 1] + parsers'[k].st - 1
       PROVE  results'[j].ok = (Resolve(parsers'[k].p).type # "OR")
  <2>1. parsers'[k] = parsers[k] /\ Held(parsers')[k - 1] = Held(parsers)[k - 1] /\ k \in 1..n
    BY <1>5, <1>6, <1>11
  <2>2. Held(parsers)[k] = Held(parsers)[k - 1] + parsers[k].st - 1
    BY <1>3, <2>1, HeldSteps
  <2>3. Held(parsers)[k] <= h /\ Held(parsers)[k] \in Int
    BY <1>6, <1>13
  <2>4. j < Held(parsers)[k]
    BY <1>14, <2>1, <2>2
  <2>5. j \in 1..(h - 1) /\ j \in 1..L
    <3>1. j \in Int /\ 1 <= j /\ h \in Int /\ L \in Int /\ h - 1 <= L
      BY <1>4
    <3> HIDE DEF h, L
    <3> QED
      BY <2>3, <2>4, <3>1
  <2>6. results[j].ok = (Resolve(parsers[k].p).type # "OR")
    BY <1>7, <1>14, <2>1, <2>5
  <2> QED
    BY <1>8, <2>1, <2>5, <2>6
<1>15. ASSUME NEW j \in 1..h
       PROVE  results'[j].ok \in BOOLEAN /\ IsError(results'[j].error, Len(input'.text))
  <2>1. CASE j = h
    BY <1>1, <1>8, <2>1
  <2>2. CASE j # h
    <3>1. j \in 1..(h - 1) /\ j \in 1..L
      <4>1. j \in Int /\ 1 <= j /\ j <= h /\ h \in Int /\ L \in Int /\ h - 1 <= L
        BY <1>4
      <4> HIDE DEF h, L
      <4> QED
        BY <2>2, <4>1
    <3> QED
      BY <1>1, <1>7, <1>8, <3>1
  <2> QED
    BY <2>1, <2>2
<1>16. Collected'
  <2> HIDE DEF n, h, L
  <2> QED
    BY <1>5, <1>8, <1>14, <1>15 DEF Collected
<1>17. MarksBalanced'
  <2> DEFINE a == Cardinality(Predicting(parsers, n - 1))
             b == Cardinality(Marking(parsers, n - 1))
  <2>1. a \in Nat /\ b \in Nat
    BY <1>6, MarkingTypes
  <2>2. Marked(input, a, b, p, st)
    BY TopMarked
  <2>3. Marked(input', a, b, p, 0)
    BY <2>1, <2>2 DEF Moves, MarksGoTo
  <2>4. input'.backtrack = 1 - a /\ Len(input'.marks) = b
    <3>1. 1 - a - 0 = 1 - a /\ b + 0 = b /\ ~(0 > 0)
      BY <2>1
    <3> HIDE DEF a, b
    <3> QED
      BY <2>3, <3>1, Zenon DEF Marked
  <2>5. /\ Predicting(parsers', n - 1) = Predicting(parsers, n - 1)
        /\ Marking(parsers', n - 1) = Marking(parsers, n - 1)
    BY <1>5, <1>6, AlikeMark
  <2>6. Balanced(input', parsers')
    BY <1>5, <2>4, <2>5 DEF Balanced
  <2>7. MarksFit(input', parsers')
    BY <1>5, <2>6, FitIsBalanced
  <2> QED
    BY <2>7 DEF MarksBalanced, MarksFit
<1>18. NothingLeaks'
  <2> DEFINE good == p.type # "OR"
  <2>1. live = [vals |-> Tally(results, TRUE), errs |-> Tally(results, FALSE) + 1]
    BY <1>2 DEF ParsingInv, NothingLeaks, Tally
  <2>2. \A j \in (L - st + 1)..(L - 1) : results[j].ok = good
    BY <1>2, <1>4 DEF Topmost
  <2>3. ASSUME NEW v \in BOOLEAN
        PROVE  /\ Tally(results, v) \in Nat /\ Tally(results', v) \in Nat
               /\ Tally(results', v) = Tally(results, v)
                                         - (IF st > 0 /\ good = v THEN st - 1 ELSE 0)
                                         - (IF st > 0 /\ results[L].ok = v THEN 1 ELSE 0)
                                         + (IF x.ok = v THEN 1 ELSE 0)
    <3>1. st \in 0..Len(results) /\ results \in Seq(Range(results))
      BY <1>4, <1>7
    <3>2. \A j \in (Len(results) - st + 1)..(Len(results) - 1) : results[j].ok = good
      BY <2>2
    <3> HIDE DEF good
    <3>3. /\ Tally(results, v) \in Nat /\ Tally(Taken(results, st, x), v) \in Nat
          /\ Tally(Taken(results, st, x), v)
               = Tally(results, v) - (IF st > 0 /\ good = v THEN st - 1 ELSE 0)
                                   - (IF st > 0 /\ results[Len(results)].ok = v THEN 1 ELSE 0)
                                   + (IF x.ok = v THEN 1 ELSE 0)
      <4>1. PICK g : g = good
        BY Zenon
      <4>2. \A j \in (Len(results) - st + 1)..(Len(results) - 1) : results[j].ok = g
        BY <3>2, <4>1, Zenon
      <4>3. TallyChange(results, st, x, g, v)
        BY <3>1, <4>2, TallyTaken
      <4>4. TallyChange(results, st, x, good, v)
        BY <4>1, <4>3, Zenon
      <4> QED
        BY <1>1, <4>4, Zenon DEF TallyChange
    <3> QED
      BY <1>1, <3>3
  <2>4. st > 0 => r = results[L]
    BY <1>2 DEF Topmost
  <2>5. ASSUME NEW v \in BOOLEAN
        PROVE  Tally(results', v) = Tally(results, v) - Spent(v) + (IF x.ok = v THEN 1 ELSE 0)
    <3> DEFINE em == IF st > 0 /\ good = v THEN st - 1 ELSE 0
               et == IF st > 0 /\ r.ok = v THEN 1 ELSE 0
               ex == IF x.ok = v THEN 1 ELSE 0
    <3>1. em \in Int /\ et \in Int /\ ex \in Int
      BY <1>4
    <3>2. et = IF st > 0 /\ results[L].ok = v THEN 1 ELSE 0
      BY <2>4
    <3>3. Spent(v) = em + et
      BY DEF Spent
    <3>4. /\ Tally(results, v) \in Nat
          /\ Tally(results', v) = Tally(results, v) - em
                                    - (IF st > 0 /\ results[L].ok = v THEN 1 ELSE 0) + ex
      BY <2>3
    <3> HIDE DEF em, et, ex
    <3>5. Tally(results', v) = Tally(results, v) - Spent(v) + ex
      BY <3>1, <3>2, <3>3, <3>4
    <3> QED
      BY <3>5 DEF ex
  <2>6. Tally(results, TRUE) \in Nat /\ Tally(results, FALSE) \in Nat
        /\ Spent(TRUE) \in Int /\ Spent(FALSE) \in Int
    <3>1. TRUE \in BOOLEAN /\ FALSE \in BOOLEAN
      OBVIOUS
    <3>2. Spent(TRUE) \in Int /\ Spent(FALSE) \in Int
      <4>1. ASSUME NEW ok PROVE Spent(ok) \in Int
        <5> DEFINE c == st > 0 /\ (p.type # "OR") = ok
                   d == st > 0 /\ r.ok = ok
        <5>1. (IF c THEN st - 1 ELSE 0) \in Int /\ (IF d THEN 1 ELSE 0) \in Int
          BY <1>4
        <5>2. Spent(ok) = (IF c THEN st - 1 ELSE 0) + (IF d THEN 1 ELSE 0)
          BY Zenon DEF Spent
        <5> HIDE DEF c, d
        <5> QED
          BY <5>1, <5>2
      <4> QED
        BY <4>1
    <3> QED
      BY <2>3, <3>1, <3>2
  <2>7. live'.vals = Tally(results', TRUE)
    <3>1. (IF x.ok THEN 1 ELSE 0) = IF x.ok = TRUE THEN 1 ELSE 0
      OBVIOUS
    <3>2. Tally(results', TRUE)
            = Tally(results, TRUE) - Spent(TRUE) + (IF x.ok = TRUE THEN 1 ELSE 0)
      BY <2>5
    <3>3. live.vals = Tally(results, TRUE)
          /\ live'.vals = live.vals - Spent(TRUE) + (IF x.ok THEN 1 ELSE 0)
      BY <2>1 DEF Returned, SpentValues
    <3> QED
      BY <3>1, <3>2, <3>3
  <2>8. live'.errs = Tally(results', FALSE) + 1
    <3> DEFINE ex == IF x.ok THEN 0 ELSE 1
    <3>1. ex = (IF x.ok = FALSE THEN 1 ELSE 0) /\ ex \in Int
      OBVIOUS
    <3>2. Tally(results', FALSE) = Tally(results, FALSE) - Spent(FALSE) + ex
      BY <2>5, <3>1
    <3>3. live.errs = Tally(results, FALSE) + 1
          /\ live'.errs = live.errs - Spent(FALSE) + ex
      BY <2>1 DEF Returned, SpentErrors
    <3> HIDE DEF ex
    <3> DEFINE before == Tally(results, FALSE)
               spent == Spent(FALSE)
    <3>4. before \in Int /\ spent \in Int
      <4>1. \A m \in Nat : m \in Int
        OBVIOUS
      <4> QED
        BY <2>6, <4>1, Zenon
    <3>5. Tally(results', FALSE) = before - spent + ex /\ live'.errs = (before + 1) - spent + ex
      BY <3>2, <3>3
    <3> HIDE DEF before, spent
    <3>6. (before + 1) - spent + ex = (before - spent + ex) + 1
      BY <3>1, <3>4
    <3> QED
      BY <3>5, <3>6
  <2>9. live' = [vals |-> live'.vals, errs |-> live'.errs]
    BY DEF Returned
  <2>10. live' = [vals |-> Tally(results', TRUE), errs |-> Tally(results', FALSE) + 1]
    BY <2>7, <2>8, <2>9
  <2> QED
    BY <1>1, <1>2, <2>10 DEF NothingLeaks, Tally
<1>19. IsError(err', Len(input'.text))
  BY <1>1
<1>20. Stopped'
  BY <1>1, <1>2 DEF Stopped
<1> QED
  BY <1>1, <1>10, <1>12, <1>16, <1>17, <1>18, <1>19, <1>20 DEF ParsingInv

-----------------------------------------------------------------------------
(* What the actions have in common.                                        *)

\* Parsers that set no mark, and parsers that have set theirs before.
LEMMA SameMarks ==
  ASSUME NEW s \in Nat, st \in Nat, input'.backtrack = input.backtrack,
         Len(input'.marks) = Len(input.marks),
         \/ p.type \notin {"PREDICT", "AND", "COUNT", "NOT"}
         \/ st > 0 /\ s > 0
         \/ st = 0 /\ s = 0
  PROVE  MarksGoTo(s)
BY DEF MarksGoTo, Marked

\* A mark is set, or would be outside of a predictive parser.
LEMMA OneMarkMore ==
  ASSUME NEW s \in Nat, st = 0, s > 0, p.type \in {"AND", "COUNT", "NOT"},
         input'.backtrack = input.backtrack,
         Len(input'.marks) = Len(input.marks) + (IF input.backtrack < 1 THEN 0 ELSE 1)
  PROVE  MarksGoTo(s)
<1> SUFFICES ASSUME NEW a \in Nat, NEW b \in Nat, Marked(input, a, b, p, st)
             PROVE  Marked(input', a, b, p, s)
  BY DEF MarksGoTo
<1>1. p.type # "PREDICT"
  OBVIOUS
<1>2. input.backtrack = 1 - a /\ Len(input.marks) = b
  BY DEF Marked
<1>3. input.backtrack < 1 <=> a # 0
  BY <1>2
<1>4. Len(input'.marks) = b + (IF a = 0 THEN 1 ELSE 0) /\ input'.backtrack = 1 - a
  BY <1>2, <1>3
<1> QED
  BY <1>1, <1>2, <1>4 DEF Marked

\* It is taken back.
LEMMA OneMarkLess ==
  ASSUME st \in Nat, st > 0, p.type \in {"AND", "COUNT", "NOT"},
         input'.backtrack = input.backtrack,
         Len(input'.marks) = Len(input.marks) - (IF input.backtrack < 1 THEN 0 ELSE 1)
  PROVE  MarksGoTo(0)
<1> SUFFICES ASSUME NEW a \in Nat, NEW b \in Nat, Marked(input, a, b, p, st)
             PROVE  Marked(input', a, b, p, 0)
  BY DEF MarksGoTo
<1>1. p.type # "PREDICT"
  OBVIOUS
<1>2. input.backtrack = 1 - a /\ Len(input.marks) = b + (IF a = 0 THEN 1 ELSE 0)
  BY <1>1 DEF Marked
<1>3. input.backtrack < 1 <=> a # 0
  BY <1>2
<1>4. Len(input'.marks) = b /\ input'.backtrack = 1 - a
  BY <1>2, <1>3
<1> QED
  BY <1>1, <1>4 DEF Marked

\* A predictive parser begins.
LEMMA PredictionBegins ==
  ASSUME NEW s \in Nat, st = 0, s > 0, p.type = "PREDICT", input.backtrack \in Int,
         input'.backtrack = input.backtrack - 1, input'.marks = input.marks
  PROVE  MarksGoTo(s)
BY DEF MarksGoTo, Marked

\* It is over.
LEMMA PredictionEnds ==
  ASSUME st \in Nat, st > 0, p.type = "PREDICT", input.backtrack \in Int,
         input'.backtrack = input.backtrack + 1, input'.marks = input.marks
  PROVE  MarksGoTo(0)
BY DEF MarksGoTo, Marked

\* A parser that set a mark finds one to take back.
LEMMA MarkThere ==
  ASSUME ParsingInv, parsers # <<>>, st > 0, p.type \in {"AND", "COUNT", "NOT"}
  PROVE  input.backtrack < 1 \/ input.marks # <<>>
<1> DEFINE n == Len(parsers)
           a == Cardinality(Predicting(parsers, n - 1))
           b == Cardinality(Marking(parsers, n - 1))
<1>1. n \in Nat \ {0}
  BY OnTop DEF Topmost
<1>2. a \in Nat /\ b \in Nat
  BY <1>1, MarkingTypes
<1>3. Marked(input, a, b, p, st)
  BY TopMarked
<1> HIDE DEF a, b
<1>4. p.type # "PREDICT"
  OBVIOUS
<1>5. input.backtrack = 1 - a /\ Len(input.marks) = b + (IF a = 0 THEN 1 ELSE 0)
  BY <1>2, <1>3, <1>4 DEF Marked
<1>6. CASE a = 0
  <2>1. Len(input.marks) = b + 1
    BY <1>5, <1>6
  <2>2. Len(<<>>) = 0
    OBVIOUS
  <2>3. b + 1 # 0
    BY <1>2
  <2> QED
    BY <2>1, <2>2, <2>3, Zenon
<1>7. CASE a # 0
  BY <1>2, <1>5, <1>7
<1> QED
  BY <1>6, <1>7

-----------------------------------------------------------------------------

\* What is allocated is counted while the machine runs.
LEMMA LiveCounted ==
  ASSUME ParsingInv, outcome = Pending
  PROVE  /\ live.vals \in Nat /\ live.errs \in Nat
         /\ live = [vals |-> live.vals, errs |-> live.errs]
         /\ live.vals = Tally(results, TRUE) /\ live.errs = Tally(results, FALSE) + 1
<1>1. live = [vals |-> Tally(results, TRUE), errs |-> Tally(results, FALSE) + 1]
  BY DEF ParsingInv, NothingLeaks, Tally
<1>2. results \in Seq(Range(results))
  BY DEF ParsingInv, Collected
<1>3. ASSUME NEW v PROVE Tally(results, v) \in Nat
  <2>1. Len(results) \in Nat /\ DOMAIN results = 1..Len(results)
    BY <1>2, LenProperties
  <2>2. IsFiniteSet(DOMAIN results)
    BY <2>1, FS_Interval
  <2>3. IsFiniteSet({k \in DOMAIN results : results[k].ok = v})
    BY <2>2, FS_Subset
  <2> QED
    BY <2>3, FS_CardinalityType DEF Tally
<1>4. Tally(results, TRUE) \in Nat /\ Tally(results, FALSE) \in Nat
  BY <1>3
<1> DEFINE good == Tally(results, TRUE)
           bad == Tally(results, FALSE)
<1> HIDE DEF good, bad
<1>5. live = [vals |-> good, errs |-> bad + 1] /\ good \in Nat /\ bad \in Nat
  BY <1>1, <1>4 DEF good, bad
<1>6. live.vals \in Nat /\ live.errs \in Nat /\ live.vals = good /\ live.errs = bad + 1
      /\ live = [vals |-> live.vals, errs |-> live.errs]
  BY <1>5
<1> QED
  BY <1>6 DEF good, bad

\* What a parser that returns x leaves allocated: v values and e errors more.
Accounts(x, v, e) ==
  /\ v \in Int /\ e \in Int
  /\ v = (IF x.ok THEN 1 ELSE 0) - SpentValues
  /\ e = (IF x.ok THEN 0 ELSE 1) - SpentErrors
  /\ live' = [vals |-> live.vals + v, errs |-> live.errs + e]

\* The same for a turn that says how many it frees by Owns.
LEMMA ReturnStep ==
  ASSUME ParsingInv, parsers # <<>>, NEW x, IsResult(x, Len(input.text)), Return(st, x),
         Moves(0), NEW v, NEW e, Accounts(x, v, e)
  PROVE  ParsingInv'
<1> DEFINE n == Len(parsers)
           h == Held(parsers)[n - 1]
<1>1. outcome = Pending /\ Topmost(n, h)
  BY OnTop
<1>2. /\ n \in Nat \ {0} /\ Len(results) \in Nat /\ st \in 0..Len(results)
  BY <1>1 DEF Topmost
<1>3. /\ parsers' = Front(parsers) /\ results' = Taken(results, st, x) /\ outcome' = outcome
      /\ slots' = [parsers |-> ParserStack!Less(n - 1, slots.parsers),
                   results |-> ResultSlots(st)]
  BY DEF Return, Taken
<1>4. /\ slots.parsers \in Nat /\ slots.results \in Nat
      /\ n <= slots.parsers /\ Len(results) <= slots.results
  BY DEF ParsingInv, Room
<1>5. Len(parsers') = n - 1
  <2>1. parsers \in Seq(Frames)
    BY DEF ParsingInv, Waiting, Frames
  <2> QED
    BY <1>3, <2>1, FrontProperties
<1>6. Len(results') = Len(results) - st + 1
  <2>1. results \in Seq(Range(results))
    BY DEF ParsingInv, Collected
  <2>2. LET taken == Taken(results, st, x)
        IN  /\ taken \in Seq(Range(taken))
            /\ Len(taken) = Len(results) - st + 1 /\ DOMAIN taken = 1..(Len(results) - st + 1)
            /\ \A k \in 1..(Len(results) - st) : taken[k] = results[k]
            /\ taken[Len(results) - st + 1] = x
    BY <1>2, <2>1, TakenProperties
  <2> QED
    BY <1>3, <2>2
<1>7. Room'
  <2>1. ParserStack!Less(n - 1, slots.parsers) \in Nat
        /\ n - 1 <= ParserStack!Less(n - 1, slots.parsers)
    <3>1. n - 1 \in Nat /\ n - 1 <= slots.parsers
      BY <1>2, <1>4
    <3> QED
      BY <1>4, <3>1, LessRoom
  <2>2. ResultSlots(st) \in Nat /\ Len(results) - st + 1 <= ResultSlots(st)
    BY <1>2, <1>4, ResultRoom
  <2>3. /\ slots' \in [parsers : Nat, results : Nat]
        /\ slots'.parsers = ParserStack!Less(n - 1, slots.parsers)
        /\ slots'.results = ResultSlots(st)
    BY <1>3, <2>1, <2>2
  <2> QED
    BY <1>5, <1>6, <2>1, <2>2, <2>3 DEF Room
<1>8. live' = [ vals |-> live.vals - SpentValues + (IF x.ok THEN 1 ELSE 0),
                errs |-> live.errs - SpentErrors + (IF x.ok THEN 0 ELSE 1) ]
  <2> DEFINE c == IF x.ok THEN 1 ELSE 0
             d == IF x.ok THEN 0 ELSE 1
             vs == SpentValues
             es == SpentErrors
             nv == live.vals
             ne == live.errs
  <2>1. vs \in Int /\ es \in Int
    BY <1>2 DEF Spent, SpentValues, SpentErrors
  <2>2. nv \in Int /\ ne \in Int
    BY <1>1, LiveCounted
  <2>3. c \in Int /\ d \in Int
    OBVIOUS
  <2>4. live' = [vals |-> nv + (c - vs), errs |-> ne + (d - es)]
    BY DEF Accounts
  <2> HIDE DEF c, d, vs, es, nv, ne
  <2>5. nv + (c - vs) = nv - vs + c /\ ne + (d - es) = ne - es + d
    BY <2>1, <2>2, <2>3
  <2>6. live' = [vals |-> nv - vs + c, errs |-> ne - es + d]
    BY <2>4, <2>5
  <2> QED
    BY <2>6 DEF c, d, vs, es, nv, ne
<1>9. Returned(x)
  BY <1>3, <1>7, <1>8 DEF Returned
<1> QED
  BY <1>9, ReturnKeeps

-----------------------------------------------------------------------------
(* Parsers that return at once.                                            *)

\* A parser that asks for nothing is in its first state.
LEMMA AsksForNothing ==
  ASSUME ParsingInv, parsers # <<>>, p.type \notin OfOne \cup {"AND", "OR"}
  PROVE  st = 0
<1>1. Reached(p, st)
  BY OnTop DEF Topmost
<1> QED
  BY <1>1 DEF Reached, OfOne

\* What the parser on top has, taken out of Topmost.
LEMMA TopState ==
  ASSUME ParsingInv, parsers # <<>>
  PROVE  /\ outcome = Pending /\ st \in Nat /\ st \in 0..Len(results) /\ Len(results) \in Nat
         /\ Reached(p, st)
         /\ st > 0 => r.ok \in BOOLEAN /\ IsError(r.error, Len(input.text))
         /\ Sound(input) /\ Len(input.text) \in Nat /\ input.pos \in Nat
         /\ input.pos <= Len(input.text) /\ input.backtrack \in Int
         /\ IsError(err, Len(input.text))
<1>1. outcome = Pending /\ Topmost(Len(parsers), Held(parsers)[Len(parsers) - 1])
  BY OnTop
<1>2. st \in Nat /\ Len(results) \in Nat /\ st <= Len(results) /\ Reached(p, st)
      /\ (st > 0 => r.ok \in BOOLEAN /\ IsError(r.error, Len(input.text)))
  BY <1>1 DEF Topmost
<1>3. Sound(input) /\ IsError(err, Len(input.text))
  BY DEF ParsingInv
<1>4. Len(input.text) \in Nat /\ input.pos \in Nat /\ input.backtrack \in Int
  BY <1>3, InputParts
<1>5. input.pos <= Len(input.text)
  BY <1>3 DEF Sound
<1> QED
  BY <1>1, <1>2, <1>3, <1>4, <1>5

\* The results a parser makes of its own.
LEMMA ResultsMade ==
  ASSUME NEW n \in Nat, NEW v, NEW e
  PROVE  /\ Ok(v).ok = TRUE /\ IsResult(Ok(v), n)
         /\ Failed(e).ok = FALSE /\ (IsError(e, n) => IsResult(Failed(e), n))
<1>1. IsError(NoError, n)
  <2>1. -1 \in -1..n
    OBVIOUS
  <2> QED
    BY <2>1 DEF NoError, err_fail, IsError
<1> QED
  BY <1>1 DEF Ok, Failed, IsResult

\* An error at a place in the text.
LEMMA ErrorMade ==
  ASSUME NEW n \in Nat, NEW k \in Nat, k <= n, NEW m
  PROVE  IsError(err_new(k, m), n) /\ IsError(err_fail(k, m), n)
<1>1. k \in -1..n
  OBVIOUS
<1> QED
  BY <1>1 DEF err_new, err_fail, IsError

\* What a parser that has collected nothing, or st results, spends.
LEMMA SpentByNow ==
  ASSUME st \in Nat
  PROVE  /\ st = 0 => SpentValues = 0 /\ SpentErrors = 0
         /\ st > 0 /\ r.ok \in BOOLEAN /\ p.type # "OR" =>
              /\ SpentValues = IF r.ok THEN st ELSE st - 1
              /\ SpentErrors = IF r.ok THEN 0 ELSE 1
         /\ st > 0 /\ r.ok \in BOOLEAN /\ p.type = "OR" =>
              /\ SpentValues = IF r.ok THEN 1 ELSE 0
              /\ SpentErrors = IF r.ok THEN st - 1 ELSE st
<1>1. ASSUME st = 0 PROVE SpentValues = 0 /\ SpentErrors = 0
  BY <1>1 DEF Spent, SpentValues, SpentErrors
<1>2. ASSUME st > 0, r.ok \in BOOLEAN, p.type # "OR"
      PROVE  /\ SpentValues = IF r.ok THEN st ELSE st - 1
             /\ SpentErrors = IF r.ok THEN 0 ELSE 1
  BY <1>2 DEF Spent, SpentValues, SpentErrors
<1>3. ASSUME st > 0, r.ok \in BOOLEAN, p.type = "OR"
      PROVE  /\ SpentValues = IF r.ok THEN 1 ELSE 0
             /\ SpentErrors = IF r.ok THEN st - 1 ELSE st
  BY <1>3 DEF Spent, SpentValues, SpentErrors
<1> QED
  BY <1>1, <1>2, <1>3

\* The input and the error where no mark is set or taken back.
LEMMA StillMoves ==
  ASSUME ParsingInv, parsers # <<>>, NEW s \in Nat,
         Sound(input'), Moved(input, input'), Len(input'.marks) = Len(input.marks),
         IsError(err', Len(input.text)),
         \/ p.type \notin {"PREDICT", "AND", "COUNT", "NOT"}
         \/ st > 0 /\ s > 0
         \/ st = 0 /\ s = 0
  PROVE  Moves(s)
<1>1. input'.text = input.text /\ input'.backtrack = input.backtrack
  BY DEF Moved
<1>2. st \in Nat
  BY TopState
<1>3. MarksGoTo(s)
  BY <1>1, <1>2, SameMarks
<1> QED
  BY <1>1, <1>3 DEF Moves

\* Those where the mark is taken back, whether the input is or not.
LEMMA BackMoves ==
  ASSUME ParsingInv, parsers # <<>>, st > 0, p.type \in {"AND", "COUNT", "NOT"},
         \/ input' = unmark(input)
         \/ input' = rewind(input)
         \/ input' = peekc(rewind(input)),
         IsError(err', Len(input.text))
  PROVE  Moves(0)
<1>1. Sound(input) /\ st \in Nat
  BY TopState
<1>2. input.backtrack < 1 \/ input.marks # <<>>
  BY MarkThere
<1>3. /\ Sound(input') /\ Moved(input, input')
      /\ Len(input'.marks) = Len(input.marks) - (IF input.backtrack < 1 THEN 0 ELSE 1)
  <2>1. CASE input' = unmark(input)
    BY <1>1, <1>2, <2>1, UnmarkSound
  <2>2. CASE input' = rewind(input)
    BY <1>1, <1>2, <2>2, RewindSound
  <2>3. CASE input' = peekc(rewind(input))
    <3>1. /\ Sound(rewind(input)) /\ Moved(input, rewind(input))
          /\ Len(rewind(input).marks)
               = Len(input.marks) - (IF input.backtrack < 1 THEN 0 ELSE 1)
      BY <1>1, <1>2, RewindSound
    <3>2. /\ Sound(input') /\ Moved(rewind(input), input') /\ input'.marks = rewind(input).marks
      BY <2>3, <3>1, PeekSound
    <3> QED
      BY <3>1, <3>2 DEF Moved
  <2> QED
    BY <2>1, <2>2, <2>3
<1>4. input'.text = input.text /\ input'.backtrack = input.backtrack
  BY <1>3 DEF Moved
<1>5. MarksGoTo(0)
  BY <1>1, <1>3, <1>4, OneMarkLess
<1> QED
  BY <1>3, <1>4, <1>5 DEF Moves

\* A parser in its first state returns a result: it has allocated it.
LEMMA ReturnsAtOnce ==
  ASSUME ParsingInv, parsers # <<>>, st = 0, NEW x, IsResult(x, Len(input.text)), Return(0, x),
         Sound(input'), Moved(input, input'), Len(input'.marks) = Len(input.marks), err' = err,
         Owns(IF x.ok THEN 1 ELSE 0, IF x.ok THEN 0 ELSE 1)
  PROVE  ParsingInv'
<1> DEFINE v == IF x.ok THEN 1 ELSE 0
           e == IF x.ok THEN 0 ELSE 1
<1>1. IsError(err', Len(input.text))
  BY TopState
<1>2. 0 \in Nat
  OBVIOUS
<1>3. Moves(0)
  BY <1>1, <1>2, StillMoves
<1>4. SpentValues = 0 /\ SpentErrors = 0
  BY SpentByNow
<1>5. v \in Int /\ e \in Int /\ v = v - 0 /\ e = e - 0
  OBVIOUS
<1>6. Accounts(x, v, e)
  <2>1. live' = [vals |-> live.vals + v, errs |-> live.errs + e]
    BY DEF Owns
  <2> QED
    BY <1>4, <1>5, <2>1, Zenon DEF Accounts
<1>7. Return(st, x)
  BY Zenon
<1> QED
  BY <1>3, <1>6, <1>7, ReturnStep

\* What is allocated stays as it is.
LEMMA OwnsNothing ==
  ASSUME ParsingInv, parsers # <<>>, live' = live
  PROVE  live' = [vals |-> live.vals + 0, errs |-> live.errs + 0]
<1>1. outcome = Pending
  BY TopState
<1>2. /\ live.vals \in Nat /\ live.errs \in Nat
      /\ live = [vals |-> live.vals, errs |-> live.errs]
  BY <1>1, LiveCounted
<1>3. live.vals + 0 = live.vals /\ live.errs + 0 = live.errs
  BY <1>2
<1> QED
  BY <1>2, <1>3, Zenon

\* The error merged from those of the latest results.
LEMMA MergesLatest ==
  ASSUME ParsingInv, parsers # <<>>, st > 0, Merge(errors(1))
  PROVE  IsError(err', Len(input.text))
<1>1. 1 \in 0..Len(results) /\ 1 \in Nat
  BY TopState
<1>2. Len(errors(1)) = 1 /\ \A k \in 1..1 : IsError(errors(1)[k], Len(input.text))
  BY <1>1, LatestErrors
<1>3. Len(input.text) \in Nat /\ IsError(err, Len(input.text))
  BY TopState
<1> HIDE DEF errors
<1> QED
  BY <1>1, <1>2, <1>3, MergedIsError

-----------------------------------------------------------------------------
(* The actions: parsers that look at the input, and those that do not.     *)

\* A parser that only looks at the input keeps the invariant, whether it takes
\* what it sees or not (mpc.c:963).
LEMMA PrimitiveKeeps ==
  ASSUME ParsingInv, parsers # <<>>, st = 0,
         NEW t, t.ok \in BOOLEAN, Sound(t.input), Moved(input, t.input),
         Len(t.input.marks) = Len(input.marks),
         NEW v, Primitive(t, v)
  PROVE  ParsingInv'
<1> DEFINE n == Len(input.text)
           e == err_fail(t.input.pos, "Incorrect Input")
<1>1. input' = t.input /\ err' = err
  BY DEF Primitive
<1>2. n \in Nat
  BY TopState
<1>3. t.input.pos \in Nat /\ t.input.pos <= n
  <2>1. t.input.text = input.text
    BY DEF Moved
  <2> QED
    BY <2>1, InputParts DEF Sound
<1>4. CASE t.ok
  <2>1. Return(0, Ok(v)) /\ Owns(1, 0)
    BY <1>4 DEF Primitive
  <2>2. Ok(v).ok = TRUE /\ IsResult(Ok(v), n)
    BY <1>2, ResultsMade
  <2>3. Owns(IF Ok(v).ok THEN 1 ELSE 0, IF Ok(v).ok THEN 0 ELSE 1)
    BY <2>1, <2>2, Zenon
  <2> QED
    BY <1>1, <2>1, <2>2, <2>3, ReturnsAtOnce
<1>5. CASE ~t.ok
  <2>1. Return(0, Failed(e)) /\ Owns(0, 1)
    BY <1>5 DEF Primitive
  <2>2. IsError(e, n)
    BY <1>2, <1>3, ErrorMade
  <2> HIDE DEF e
  <2>3. Failed(e).ok = FALSE /\ IsResult(Failed(e), n)
    BY <1>2, <2>2, ResultsMade
  <2>4. Owns(IF Failed(e).ok THEN 1 ELSE 0, IF Failed(e).ok THEN 0 ELSE 1)
    BY <2>1, <2>3, Zenon
  <2> QED
    BY <1>1, <2>1, <2>3, <2>4, ReturnsAtOnce
<1> QED
  BY <1>4, <1>5

\* Parsers of one character do (mpc.c:987-992).
LEMMA OneKeeps ==
  ASSUME ParsingInv, One
  PROVE  ParsingInv'
<1> DEFINE t == TakeOne(input, p.set)
           v == Leaf(NextChar(input))
<1>1. parsers # <<>> /\ p.type \in {"ANY", "SINGLE", "RANGE", "ONEOF", "NONEOF", "SATISFY"}
  BY DEF One, At
<1>2. p.type \notin OfOne \cup {"AND", "OR"}
  BY <1>1 DEF OfOne
<1>3. st = 0
  BY <1>1, <1>2, AsksForNothing
<1>4. Sound(input)
  BY DEF ParsingInv
<1>5. /\ t.ok \in BOOLEAN /\ Sound(t.input) /\ Moved(input, t.input)
      /\ t.input.marks = input.marks
  BY <1>4, TakeOneSound
<1>6. Primitive(t, v)
  BY DEF One
<1> HIDE DEF t, v
<1>7. Len(t.input.marks) = Len(input.marks)
  BY <1>5
<1> QED
  BY <1>1, <1>3, <1>5, <1>6, <1>7, PrimitiveKeeps

\* Parsers of a string do (mpc.c:993).
LEMMA StrKeeps ==
  ASSUME ParsingInv, Str
  PROVE  ParsingInv'
<1> DEFINE t == TakeString(input, p.s)
           v == Leaf(p.m)
<1>1. parsers # <<>> /\ p.type = "STRING"
  BY DEF Str, At
<1>2. p.type \notin OfOne \cup {"AND", "OR"}
  BY <1>1 DEF OfOne
<1>3. st = 0
  BY <1>1, <1>2, AsksForNothing
<1>4. Sound(input) /\ p.s \in Seq(Range(p.s))
  BY <1>1, TopParser DEF ParsingInv
<1>5. /\ t.ok \in BOOLEAN /\ Sound(t.input) /\ Moved(input, t.input)
      /\ Len(t.input.marks) = Len(input.marks)
  BY <1>4, TakeStringSound
<1>6. Primitive(t, v)
  BY DEF Str
<1> HIDE DEF t, v
<1> QED
  BY <1>1, <1>3, <1>5, <1>6, PrimitiveKeeps

\* Anchors do (mpc.c:1004-1009).
LEMMA AnchorKeeps ==
  ASSUME ParsingInv, AnchorStep
  PROVE  ParsingInv'
<1> DEFINE n == Len(input.text)
           e == err_new(input.pos, "anchor")
           holds == AnchorHolds(p.m, input.last, NextChar(input))
<1>1. parsers # <<>> /\ p.type = "ANCHOR" /\ input' = peekc(input) /\ err' = err
  BY DEF AnchorStep, At
<1>2. p.type \notin OfOne \cup {"AND", "OR"}
  BY <1>1 DEF OfOne
<1>3. st = 0
  BY <1>1, <1>2, AsksForNothing
<1>4. n \in Nat /\ input.pos \in Nat /\ input.pos <= n /\ Sound(input)
  BY <1>1, TopState
<1>5. Sound(input') /\ Moved(input, input') /\ input'.marks = input.marks
  BY <1>1, <1>4, PeekSound
<1>6. Len(input'.marks) = Len(input.marks)
  BY <1>5
<1>7. CASE holds
  <2>1. Return(0, Ok(NULL)) /\ Owns(1, 0)
    BY <1>7 DEF AnchorStep
  <2>2. Ok(NULL).ok = TRUE /\ IsResult(Ok(NULL), n)
    BY <1>4, ResultsMade
  <2>3. Owns(IF Ok(NULL).ok THEN 1 ELSE 0, IF Ok(NULL).ok THEN 0 ELSE 1)
    BY <2>1, <2>2, Zenon
  <2> QED
    BY <1>1, <1>3, <1>5, <1>6, <2>1, <2>2, <2>3, ReturnsAtOnce
<1>8. CASE ~holds
  <2>1. Return(0, Failed(e)) /\ Owns(0, 1)
    BY <1>8 DEF AnchorStep
  <2>2. IsError(e, n)
    BY <1>4, ErrorMade
  <2> HIDE DEF e
  <2>3. Failed(e).ok = FALSE /\ IsResult(Failed(e), n)
    BY <1>4, <2>2, ResultsMade
  <2>4. Owns(IF Failed(e).ok THEN 1 ELSE 0, IF Failed(e).ok THEN 0 ELSE 1)
    BY <2>1, <2>3, Zenon
  <2> QED
    BY <1>1, <1>3, <1>5, <1>6, <2>1, <2>3, <2>4, ReturnsAtOnce
<1> QED
  BY <1>7, <1>8

\* An input that is left alone.
LEMMA SameInput ==
  ASSUME ParsingInv, input' = input
  PROVE  Sound(input') /\ Moved(input, input') /\ Len(input'.marks) = Len(input.marks)
BY DEF ParsingInv, Moved

\* Parsers that do not look at the input do (mpc.c:997-1002).
LEMMA ConstantKeeps ==
  ASSUME ParsingInv, Constant
  PROVE  ParsingInv'
<1> DEFINE n == Len(input.text)
           None == {"PASS", "LIFT", "LIFT_VAL", "STATE", "UNDEFINED", "FAIL"}
<1>1. ASSUME NEW type \in None, NEW v, Always(type, v) PROVE ParsingInv'
  <2>1. parsers # <<>> /\ p.type = type /\ input' = input /\ err' = err
    BY <1>1 DEF Always, At
  <2>2. p.type \notin OfOne \cup {"AND", "OR"}
    BY <2>1 DEF OfOne
  <2>3. st = 0
    BY <2>1, <2>2, AsksForNothing
  <2>4. n \in Nat
    BY <2>1, TopState
  <2>5. Return(0, Ok(v)) /\ Owns(1, 0)
    BY <1>1 DEF Always
  <2>6. Ok(v).ok = TRUE /\ IsResult(Ok(v), n)
    BY <2>4, ResultsMade
  <2>7. Owns(IF Ok(v).ok THEN 1 ELSE 0, IF Ok(v).ok THEN 0 ELSE 1)
    BY <2>5, <2>6, Zenon
  <2>8. Sound(input') /\ Moved(input, input') /\ Len(input'.marks) = Len(input.marks)
    BY <2>1, SameInput
  <2> QED
    BY <2>1, <2>3, <2>5, <2>6, <2>7, <2>8, ReturnsAtOnce
<1>2. ASSUME NEW type \in None, NEW m, Never(type, m) PROVE ParsingInv'
  <2> DEFINE e == err_fail(input.pos, m)
  <2>1. parsers # <<>> /\ p.type = type /\ input' = input /\ err' = err
    BY <1>2 DEF Never, At
  <2>2. p.type \notin OfOne \cup {"AND", "OR"}
    BY <2>1 DEF OfOne
  <2>3. st = 0
    BY <2>1, <2>2, AsksForNothing
  <2>4. n \in Nat /\ input.pos \in Nat /\ input.pos <= n
    BY <2>1, TopState
  <2>5. Return(0, Failed(e)) /\ Owns(0, 1)
    BY <1>2 DEF Never
  <2>6. IsError(e, n)
    BY <2>4, ErrorMade
  <2> HIDE DEF e
  <2>7. Failed(e).ok = FALSE /\ IsResult(Failed(e), n)
    BY <2>4, <2>6, ResultsMade
  <2>8. Owns(IF Failed(e).ok THEN 1 ELSE 0, IF Failed(e).ok THEN 0 ELSE 1)
    BY <2>5, <2>7, Zenon
  <2>9. Sound(input') /\ Moved(input, input') /\ Len(input'.marks) = Len(input.marks)
    BY <2>1, SameInput
  <2> QED
    BY <2>1, <2>3, <2>5, <2>7, <2>8, <2>9, ReturnsAtOnce
<1> QED
  BY <1>1, <1>2 DEF Constant

-----------------------------------------------------------------------------
(* Parsers of one other.                                                   *)

\* A parser asks for the one it is made of.
LEMMA DescendsToOne ==
  ASSUME ParsingInv, parsers # <<>>, p.type \in OfOne, st = 0, Continue(1, p.xs[1]),
         Sound(input'), input'.text = input.text, MarksGoTo(1), err' = err, live' = live
  PROVE  ParsingInv'
<1>1. p.xs[1] \in Parsers
  BY TopParser
<1>2. st + 1 = 1
  OBVIOUS
<1>3. Continue(st + 1, p.xs[1])
  BY <1>2, Zenon
<1>4. Reached(p, st + 1)
  BY <1>2 DEF Reached
<1>5. Moves(st + 1)
  <2>1. IsError(err', Len(input.text))
    BY DEF ParsingInv
  <2>2. Moves(1)
    BY <2>1 DEF Moves
  <2> QED
    BY <1>2, <2>2, Zenon
<1>6. st > 0 => r.ok = (p.type # "OR")
  OBVIOUS
<1> HIDE DEF p, st, r
<1> QED
  BY <1>1, <1>3, <1>4, <1>5, <1>6, ContinueKeeps

\* Asking for the one other parser keeps the invariant (mpc.c:1013-1089).
LEMMA DescendKeeps ==
  ASSUME ParsingInv, Descend
  PROVE  ParsingInv'
<1>1. /\ parsers # <<>> /\ st = 0 /\ Continue(1, p.xs[1])
      /\ p.type \in {"EXPECT", "APPLY", "APPLY_TO", "MAYBE", "MANY", "MANY1"}
      /\ input' = input /\ err' = err /\ live' = live
  BY DEF Descend, At
<1>2. p.type \in OfOne /\ p.type \notin {"PREDICT", "AND", "COUNT", "NOT"}
  BY <1>1 DEF OfOne
<1>3. Sound(input') /\ Moved(input, input') /\ Len(input'.marks) = Len(input.marks)
  BY <1>1, SameInput
<1>4. MarksGoTo(1)
  <2>1. input'.backtrack = input.backtrack /\ 1 \in Nat /\ st \in Nat
    BY <1>1
  <2> QED
    BY <1>2, <1>3, <2>1, SameMarks
<1>5. input'.text = input.text
  BY <1>1
<1> QED
  BY <1>1, <1>2, <1>3, <1>4, <1>5, DescendsToOne

\* So it does with backtracking disabled first (mpc.c:1045).
LEMMA PredictStartKeeps ==
  ASSUME ParsingInv, PredictStart
  PROVE  ParsingInv'
<1>1. /\ parsers # <<>> /\ st = 0 /\ Continue(1, p.xs[1])
      /\ p.type = "PREDICT" /\ input' = backtrack_disable(input) /\ err' = err /\ live' = live
  BY DEF PredictStart, At
<1>2. p.type \in OfOne
  BY <1>1 DEF OfOne
<1>3. Sound(input) /\ input.backtrack \in Int
  BY <1>1, TopState
<1>4. /\ Sound(input') /\ input'.backtrack = input.backtrack - 1
      /\ input'.marks = input.marks /\ input'.text = input.text
  BY <1>1, <1>3, BacktrackSound
<1>5. MarksGoTo(1)
  <2>1. 1 \in Nat /\ 1 > 0
    OBVIOUS
  <2> QED
    BY <1>1, <1>3, <1>4, <2>1, PredictionBegins
<1> QED
  BY <1>1, <1>2, <1>4, <1>5, DescendsToOne

\* So it does with a mark set first (mpc.c:1056-1057, 1113).
LEMMA MarkAndDescendKeeps ==
  ASSUME ParsingInv, MarkAndDescend
  PROVE  ParsingInv'
<1>1. /\ parsers # <<>> /\ st = 0 /\ Continue(1, p.xs[1])
      /\ p.type \in {"NOT", "COUNT"} /\ input' = mark(input) /\ err' = err /\ live' = live
  BY DEF MarkAndDescend, At
<1>2. p.type \in OfOne /\ p.type \in {"AND", "COUNT", "NOT"}
  BY <1>1 DEF OfOne
<1>3. Sound(input)
  BY <1>1, TopState
<1>4. /\ Sound(input') /\ Moved(input, input')
      /\ Len(input'.marks) = Len(input.marks) + (IF input.backtrack < 1 THEN 0 ELSE 1)
  BY <1>1, <1>3, MarkSound
<1>5. input'.text = input.text /\ input'.backtrack = input.backtrack
  BY <1>4 DEF Moved
<1>6. MarksGoTo(1)
  <2>1. 1 \in Nat /\ 1 > 0
    OBVIOUS
  <2> QED
    BY <1>1, <1>2, <1>4, <1>5, <2>1, OneMarkMore
<1> QED
  BY <1>1, <1>2, <1>4, <1>5, <1>6, DescendsToOne

\* An error replaced by what was expected keeps the invariant (mpc.c:1015-1022).
LEMMA ExpectEndKeeps ==
  ASSUME ParsingInv, ExpectEnd
  PROVE  ParsingInv'
<1> DEFINE n == Len(input.text)
           e == err_new(input.pos, p.m)
<1>1. parsers # <<>> /\ st = 1 /\ p.type = "EXPECT" /\ err' = err /\ live' = live
  BY DEF ExpectEnd, At
<1>2. /\ n \in Nat /\ r.ok \in BOOLEAN /\ IsError(r.error, n) /\ IsError(err', n)
      /\ Sound(input) /\ input.pos \in Nat /\ input.pos <= n
  BY <1>1, TopState
<1>3. live' = [vals |-> live.vals + 0, errs |-> live.errs + 0]
  BY <1>1, OwnsNothing
<1>4. /\ SpentValues = IF r.ok THEN 1 ELSE 0
      /\ SpentErrors = IF r.ok THEN 0 ELSE 1
  BY <1>1, <1>2, SpentByNow
<1>5. p.type \notin {"PREDICT", "AND", "COUNT", "NOT"} /\ 0 \in Nat
  BY <1>1
<1>6. CASE r.ok
  <2>1. Return(st, r) /\ input' = input
    BY <1>1, <1>6 DEF ExpectEnd
  <2>2. Moves(0)
    BY <1>1, <1>2, <1>5, <2>1, SameInput, StillMoves
  <2>3. Accounts(r, 0, 0)
    BY <1>3, <1>4, <1>6 DEF Accounts
  <2>4. IsResult(r, n)
    BY <1>2 DEF IsResult
  <2> QED
    BY <1>1, <2>1, <2>2, <2>3, <2>4, ReturnStep
<1>7. CASE ~r.ok
  <2>1. Return(st, Failed(e)) /\ input' = peekc(input)
    BY <1>1, <1>7 DEF ExpectEnd
  <2>2. Moves(0)
    <3>1. Sound(input') /\ Moved(input, input') /\ input'.marks = input.marks
      BY <1>2, <2>1, PeekSound
    <3>2. Len(input'.marks) = Len(input.marks)
      BY <3>1
    <3> QED
      BY <1>1, <1>2, <1>5, <3>1, <3>2, StillMoves
  <2>3. IsError(e, n)
    BY <1>2, ErrorMade
  <2> HIDE DEF e
  <2>4. Failed(e).ok = FALSE /\ IsResult(Failed(e), n)
    BY <1>2, <2>3, ResultsMade
  <2>5. Accounts(Failed(e), 0, 0)
    BY <1>3, <1>4, <1>7, <2>4 DEF Accounts
  <2> QED
    BY <1>1, <2>1, <2>2, <2>4, <2>5, ReturnStep
<1> QED
  BY <1>6, <1>7

\* A function applied to a value keeps it (mpc.c:1024-1042).
LEMMA ApplyEndKeeps ==
  ASSUME ParsingInv, ApplyEnd
  PROVE  ParsingInv'
<1> DEFINE n == Len(input.text)
           v == Value(p.m, 0, <<r.output>>)
           x == IF r.ok THEN Ok(v) ELSE r
<1>1. /\ parsers # <<>> /\ st = 1 /\ p.type \in {"APPLY", "APPLY_TO"}
      /\ input' = input /\ err' = err /\ live' = live
  BY DEF ApplyEnd, At
<1>2. /\ n \in Nat /\ r.ok \in BOOLEAN /\ IsError(r.error, n) /\ IsError(err', n)
  BY <1>1, TopState
<1>3. live' = [vals |-> live.vals + 0, errs |-> live.errs + 0]
  BY <1>1, OwnsNothing
<1>4. /\ SpentValues = IF r.ok THEN 1 ELSE 0
      /\ SpentErrors = IF r.ok THEN 0 ELSE 1
  BY <1>1, <1>2, SpentByNow
<1>5. p.type \notin {"PREDICT", "AND", "COUNT", "NOT"} /\ 0 \in Nat
  BY <1>1
<1>6. Moves(0)
  BY <1>1, <1>2, <1>5, SameInput, StillMoves
<1>7. x.ok = r.ok /\ IsResult(x, n)
  <2>1. Ok(v).ok = TRUE /\ IsResult(Ok(v), n)
    BY <1>2, ResultsMade
  <2> HIDE DEF v
  <2>2. CASE r.ok
    BY <2>1, <2>2
  <2>3. CASE ~r.ok
    BY <1>2, <2>3 DEF IsResult
  <2> QED
    BY <2>2, <2>3
<1>8. Return(st, x)
  BY <1>1 DEF ApplyEnd
<1> HIDE DEF x
<1>9. Accounts(x, 0, 0)
  BY <1>2, <1>3, <1>4, <1>7 DEF Accounts
<1> QED
  BY <1>1, <1>6, <1>7, <1>8, <1>9, ReturnStep

\* A result taken off and put back.
LEMMA TakenBack ==
  ASSUME ParsingInv, parsers # <<>>, st = 1
  PROVE  Taken(results, 1, r) = results
<1> DEFINE L == Len(results)
           s == SubSeq(results, 1, L - 1)
<1>1. results \in Seq(Range(results))
  BY DEF ParsingInv, Collected
<1>2. L \in Nat /\ L >= 1 /\ r = results[L]
  BY OnTop DEF Topmost
<1>3. LET taken == Taken(results, 1, r)
      IN  /\ taken \in Seq(Range(taken))
          /\ Len(taken) = Len(results) - 1 + 1 /\ DOMAIN taken = 1..(Len(results) - 1 + 1)
          /\ \A k \in 1..(Len(results) - 1) : taken[k] = results[k]
          /\ taken[Len(results) - 1 + 1] = r
  <2>1. 1 \in 0..Len(results)
    BY <1>2
  <2> QED
    BY <1>1, <2>1, TakenProperties
<1> DEFINE t == Taken(results, 1, r)
<1>4. /\ t \in Seq(Range(t)) /\ Len(t) = L
      /\ \A k \in 1..(L - 1) : t[k] = results[k]
      /\ t[L] = r
  <2>1. Len(results) - 1 + 1 = Len(results)
    BY <1>2
  <2> QED
    BY <1>3, <2>1
<1>5. \A k \in 1..L : t[k] = results[k]
  <2>1. \A k \in 1..L : k = L \/ k \in 1..(L - 1)
    BY <1>2
  <2> QED
    BY <1>2, <1>4, <2>1
<1>6. DOMAIN t = 1..L /\ DOMAIN results = 1..L
      /\ t = [k \in 1..L |-> t[k]] /\ results = [k \in 1..L |-> results[k]]
  <2>1. Len(t) \in Nat /\ DOMAIN t = 1..Len(t) /\ t \in [1..Len(t) -> Range(t)]
    BY <1>4, LenProperties
  <2>2. DOMAIN results = 1..Len(results) /\ results \in [1..Len(results) -> Range(results)]
    BY <1>1, LenProperties
  <2> HIDE DEF t
  <2> QED
    BY <1>4, <2>1, <2>2
<1> HIDE DEF t
<1>7. t = results
  BY <1>5, <1>6
<1> QED
  BY <1>7 DEF t

\* The end of a predictive parser, which leaves the result where it is, keeps it
\* (mpc.c:1046-1050).
LEMMA PredictEndKeeps ==
  ASSUME ParsingInv, PredictEnd
  PROVE  ParsingInv'
<1> DEFINE n == Len(parsers)
<1>1. /\ parsers # <<>> /\ st = 1 /\ p.type = "PREDICT" /\ input' = backtrack_enable(input)
      /\ parsers' = Front(parsers) /\ results' = results /\ outcome' = outcome
      /\ slots' = [slots EXCEPT !.parsers = ParserStack!Less(n - 1, slots.parsers)]
      /\ err' = err /\ live' = live
  BY DEF PredictEnd, At
<1>2. /\ r.ok \in BOOLEAN /\ IsError(r.error, Len(input.text))
      /\ IsError(err', Len(input.text)) /\ Sound(input) /\ input.backtrack \in Int
      /\ outcome = Pending
  BY <1>1, TopState
<1>3. /\ SpentValues = IF r.ok THEN 1 ELSE 0
      /\ SpentErrors = IF r.ok THEN 0 ELSE 1
  BY <1>1, <1>2, SpentByNow
<1>4. /\ Sound(input') /\ input'.backtrack = input.backtrack + 1
      /\ input'.marks = input.marks /\ input'.text = input.text
  BY <1>1, <1>2, BacktrackSound
<1>5. MarksGoTo(0)
  <2>1. st \in Nat /\ st > 0
    BY <1>1
  <2> QED
    BY <1>1, <1>2, <1>4, <2>1, PredictionEnds
<1>6. Moves(0)
  BY <1>2, <1>4, <1>5 DEF Moves
<1>7. Room'
  <2>1. /\ slots \in [parsers : Nat, results : Nat]
        /\ Len(parsers) <= slots.parsers /\ Len(results) <= slots.results
    BY DEF ParsingInv, Room
  <2>2. n \in Nat \ {0} /\ Len(parsers') = n - 1
    <3>1. parsers \in Seq(Frames)
      BY DEF ParsingInv, Waiting, Frames
    <3> QED
      BY <1>1, <3>1, FrontProperties
  <2>3. n - 1 \in Nat /\ n - 1 <= slots.parsers /\ slots.parsers \in Nat
    BY <2>1, <2>2
  <2>4. ParserStack!Less(n - 1, slots.parsers) \in Nat
        /\ n - 1 <= ParserStack!Less(n - 1, slots.parsers)
    BY <2>3, LessRoom
  <2>5. /\ slots' \in [parsers : Nat, results : Nat]
        /\ slots'.parsers = ParserStack!Less(n - 1, slots.parsers)
        /\ slots'.results = slots.results
    BY <1>1, <2>1, <2>4
  <2> QED
    BY <1>1, <2>1, <2>2, <2>4, <2>5 DEF Room
<1>8. Returned(r)
  <2> DEFINE c == IF r.ok THEN 1 ELSE 0
             d == IF r.ok THEN 0 ELSE 1
             nv == live.vals
             ne == live.errs
  <2>1. nv \in Nat /\ ne \in Nat /\ live = [vals |-> nv, errs |-> ne]
    BY <1>2, LiveCounted
  <2>2. c \in Int /\ d \in Int
    OBVIOUS
  <2> HIDE DEF c, d, nv, ne
  <2>3. nv - c + c = nv /\ ne - d + d = ne
    BY <2>1, <2>2
  <2>4. live' = [vals |-> nv - c + c, errs |-> ne - d + d]
    BY <1>1, <2>1, <2>3
  <2>5. live' = [ vals |-> live.vals - SpentValues + (IF r.ok THEN 1 ELSE 0),
                  errs |-> live.errs - SpentErrors + (IF r.ok THEN 0 ELSE 1) ]
    BY <1>3, <2>4 DEF c, d, nv, ne
  <2>6. results' = Taken(results, st, r)
    BY <1>1, TakenBack
  <2> QED
    BY <1>1, <1>7, <2>5, <2>6 DEF Returned
<1>9. IsResult(r, Len(input.text))
  BY <1>2 DEF IsResult
<1> QED
  BY <1>1, <1>6, <1>8, <1>9, ReturnKeeps

\* A negation that turns a value into an error, or an error into a value, keeps
\* the invariant (mpc.c:1058-1068).
LEMMA NotEndKeeps ==
  ASSUME ParsingInv, NotEnd
  PROVE  ParsingInv'
<1> DEFINE n == Len(input.text)
           e == err_new(rewind(input).pos, "opposite")
           y == Ok(Leaf(p.m))
<1>1. parsers # <<>> /\ st = 1 /\ p.type = "NOT"
  BY DEF NotEnd, At
<1>2. n \in Nat /\ r.ok \in BOOLEAN /\ IsError(err, n) /\ Sound(input)
  BY <1>1, TopState
<1>3. /\ SpentValues = IF r.ok THEN 1 ELSE 0
      /\ SpentErrors = IF r.ok THEN 0 ELSE 1
  BY <1>1, <1>2, SpentByNow
<1>4. st > 0 /\ p.type \in {"AND", "COUNT", "NOT"}
  BY <1>1
<1>5. CASE r.ok
  <2>1. /\ input' = peekc(rewind(input)) /\ Return(st, Failed(e)) /\ Owns(-1, 1) /\ err' = err
    BY <1>1, <1>5 DEF NotEnd
  <2>2. Moves(0)
    BY <1>1, <1>2, <1>4, <2>1, BackMoves
  <2>3. rewind(input).pos \in Nat /\ rewind(input).pos <= n
    <3>1. input.backtrack < 1 \/ input.marks # <<>>
      BY <1>1, <1>4, MarkThere
    <3>2. Sound(rewind(input)) /\ Moved(input, rewind(input))
      BY <1>2, <3>1, RewindSound
    <3>3. rewind(input).text = input.text
      BY <3>2 DEF Moved
    <3> QED
      BY <3>2, <3>3, InputParts DEF Sound
  <2>4. IsError(e, n)
    BY <1>2, <2>3, ErrorMade
  <2> HIDE DEF e
  <2>5. Failed(e).ok = FALSE /\ IsResult(Failed(e), n)
    BY <1>2, <2>4, ResultsMade
  <2>6. Accounts(Failed(e), -1, 1)
    BY <1>3, <1>5, <2>1, <2>5 DEF Accounts, Owns
  <2> QED
    BY <1>1, <2>1, <2>2, <2>5, <2>6, ReturnStep
<1>6. CASE ~r.ok
  <2>1. /\ input' = unmark(input) /\ Merge(errors(1)) /\ Return(st, y) /\ Owns(1, -1)
    BY <1>1, <1>6 DEF NotEnd
  <2>2. IsError(err', n)
    BY <1>1, <1>4, <2>1, MergesLatest
  <2>3. Moves(0)
    BY <1>1, <1>4, <2>1, <2>2, BackMoves
  <2>4. y.ok = TRUE /\ IsResult(y, n)
    BY <1>2, ResultsMade
  <2> HIDE DEF y
  <2>5. Accounts(y, 1, -1)
    BY <1>3, <1>6, <2>1, <2>4 DEF Accounts, Owns
  <2> QED
    BY <1>1, <2>1, <2>3, <2>4, <2>5, ReturnStep
<1> QED
  BY <1>5, <1>6

\* An option that turns an error into a value keeps it (mpc.c:1072-1079).
LEMMA MaybeEndKeeps ==
  ASSUME ParsingInv, MaybeEnd
  PROVE  ParsingInv'
<1> DEFINE n == Len(input.text)
           y == Ok(Leaf(p.m))
<1>1. parsers # <<>> /\ st = 1 /\ st > 0 /\ p.type = "MAYBE" /\ input' = input
  BY DEF MaybeEnd, At
<1>2. n \in Nat /\ r.ok \in BOOLEAN /\ IsError(r.error, n) /\ IsError(err, n)
  BY <1>1, TopState
<1>3. /\ SpentValues = IF r.ok THEN 1 ELSE 0
      /\ SpentErrors = IF r.ok THEN 0 ELSE 1
  BY <1>1, <1>2, SpentByNow
<1>4. p.type \notin {"PREDICT", "AND", "COUNT", "NOT"} /\ 0 \in Nat
  BY <1>1
<1>5. CASE r.ok
  <2>1. Return(st, r) /\ err' = err /\ live' = live
    BY <1>1, <1>5 DEF MaybeEnd
  <2>2. Moves(0)
    BY <1>1, <1>2, <1>4, <2>1, SameInput, StillMoves
  <2>3. live' = [vals |-> live.vals + 0, errs |-> live.errs + 0]
    BY <1>1, <2>1, OwnsNothing
  <2>4. Accounts(r, 0, 0)
    BY <1>3, <1>5, <2>3 DEF Accounts
  <2>5. IsResult(r, n)
    BY <1>2 DEF IsResult
  <2> QED
    BY <1>1, <2>1, <2>2, <2>4, <2>5, ReturnStep
<1>6. CASE ~r.ok
  <2>1. Merge(errors(1)) /\ Return(st, y) /\ Owns(1, -1)
    BY <1>1, <1>6 DEF MaybeEnd
  <2>2. IsError(err', n)
    BY <1>1, <2>1, MergesLatest
  <2>3. Moves(0)
    BY <1>1, <1>4, <2>2, SameInput, StillMoves
  <2>4. y.ok = TRUE /\ IsResult(y, n)
    BY <1>2, ResultsMade
  <2> HIDE DEF y
  <2>5. Accounts(y, 1, -1)
    BY <1>3, <1>6, <2>1, <2>4 DEF Accounts, Owns
  <2> QED
    BY <1>1, <2>1, <2>3, <2>4, <2>5, ReturnStep
<1> QED
  BY <1>5, <1>6

-----------------------------------------------------------------------------
(* Repetition.                                                             *)

\* Asking for the same parser once more keeps the invariant (mpc.c:1083-1117).
LEMMA AgainKeeps ==
  ASSUME ParsingInv, Again
  PROVE  ParsingInv'
<1>1. /\ parsers # <<>> /\ p.type \in {"MANY", "MANY1", "COUNT"} /\ st > 0 /\ r.ok
      /\ Continue(st + 1, p.xs[1]) /\ input' = input /\ err' = err /\ live' = live
  BY DEF Again, At
<1>2. p.type \in OfOne
  BY <1>1 DEF OfOne
<1>3. p.xs[1] \in Parsers
  BY <1>1, <1>2, TopParser
<1>4. Reached(p, st + 1)
  BY <1>1 DEF Reached
<1>5. Moves(st + 1)
  <2>1. st \in Nat /\ IsError(err', Len(input.text))
    BY <1>1, TopState
  <2>2. st + 1 \in Nat /\ st + 1 > 0
    BY <2>1
  <2>3. Sound(input') /\ Moved(input, input') /\ Len(input'.marks) = Len(input.marks)
    BY <1>1, SameInput
  <2> QED
    BY <1>1, <2>1, <2>2, <2>3, StillMoves
<1>6. st > 0 => r.ok = (p.type # "OR")
  <2>1. r.ok \in BOOLEAN
    BY <1>1, TopState
  <2> QED
    BY <1>1, <2>1
<1> HIDE DEF p, st, r
<1> QED
  BY <1>1, <1>3, <1>4, <1>5, <1>6, ContinueKeeps

\* The outputs are folded, whatever has become of the input.
LEMMA FoldKeeps ==
  ASSUME ParsingInv, parsers # <<>>, st > 0, ~r.ok, p.type # "OR", FoldRepeated,
         IsError(err', Len(input.text)) => Moves(0)
  PROVE  ParsingInv'
<1> DEFINE n == Len(input.text)
           y == Ok(Value(p.m, 0, Front(outputs(st))))
<1>1. Merge(errors(1)) /\ Return(st, y) /\ Owns(2 - st, -1)
  BY DEF FoldRepeated
<1>2. n \in Nat /\ r.ok \in BOOLEAN /\ st \in Nat
  BY TopState
<1>3. SpentValues = st - 1 /\ SpentErrors = 1
  BY <1>2, SpentByNow
<1>4. Moves(0)
  BY <1>1, MergesLatest
<1>5. y.ok = TRUE /\ IsResult(y, n)
  BY <1>2, ResultsMade
<1> HIDE DEF y
<1>6. Accounts(y, 2 - st, -1)
  <2>1. 2 - st = 1 - (st - 1) /\ 2 - st \in Int /\ -1 = 0 - 1 /\ -1 \in Int
    BY <1>2
  <2> QED
    BY <1>1, <1>3, <1>5, <2>1, Zenon DEF Accounts, Owns
<1> QED
  BY <1>1, <1>4, <1>5, <1>6, ReturnStep

\* The end of a repetition keeps the invariant: its outputs are folded into one
\* and its last error is merged (mpc.c:1088-1109).
LEMMA ManyEndKeeps ==
  ASSUME ParsingInv, ManyEnd
  PROVE  ParsingInv'
<1>1. /\ parsers # <<>> /\ p.type \in {"MANY", "MANY1"} /\ st > 0 /\ ~r.ok
      /\ FoldRepeated /\ input' = input
  BY DEF ManyEnd, At
<1>2. IsError(err', Len(input.text)) => Moves(0)
  <2>1. p.type \notin {"PREDICT", "AND", "COUNT", "NOT"} /\ 0 \in Nat
    BY <1>1
  <2> QED
    BY <1>1, <2>1, SameInput, StillMoves
<1>3. p.type # "OR"
  BY <1>1
<1> QED
  BY <1>1, <1>2, <1>3, FoldKeeps

\* So does that of a count, which takes its mark back (mpc.c:1123-1128).
LEMMA CountEndKeeps ==
  ASSUME ParsingInv, CountEnd
  PROVE  ParsingInv'
<1>1. /\ parsers # <<>> /\ p.type = "COUNT" /\ st > 0 /\ ~r.ok
      /\ FoldRepeated /\ input' = unmark(input)
  BY DEF CountEnd, At
<1>2. IsError(err', Len(input.text)) => Moves(0)
  BY <1>1, BackMoves
<1>3. p.type # "OR"
  BY <1>1
<1> QED
  BY <1>1, <1>2, <1>3, FoldKeeps

\* What a repetition expected, where it failed.
LEMMA RepeatedError ==
  ASSUME NEW n \in Nat, NEW e, IsError(e, n), NEW m
  PROVE  IsError(err_repeat(e, m), n)
<1>1. 0 \in -1..n
  OBVIOUS
<1> QED
  BY <1>1, ErrorsMade

\* A repetition of nothing keeps the invariant (mpc.c:1101-1103).
LEMMA Many1FailsKeeps ==
  ASSUME ParsingInv, Many1Fails
  PROVE  ParsingInv'
<1> DEFINE n == Len(input.text)
           e == err_repeat(r.error, "one or more of")
<1>1. parsers # <<>> /\ p.type = "MANY1" /\ st = 1 /\ st > 0 /\ ~r.ok /\ err' = err
  <2>1. /\ At("MANY1") /\ st = 1 /\ ~r.ok /\ err' = err
    BY Zenon DEF Many1Fails
  <2> QED
    BY <2>1 DEF At
<1>2. Return(st, Failed(e)) /\ input' = input /\ live' = live
  BY <1>1 DEF Many1Fails
<1>3. n \in Nat /\ r.ok \in BOOLEAN /\ IsError(r.error, n) /\ IsError(err', n)
  BY <1>1, TopState
<1>4. SpentValues = 0 /\ SpentErrors = 1
  BY <1>1, <1>3, SpentByNow
<1>5. Moves(0)
  <2>1. p.type \notin {"PREDICT", "AND", "COUNT", "NOT"} /\ 0 \in Nat
    BY <1>1
  <2> QED
    BY <1>1, <1>2, <1>3, <2>1, SameInput, StillMoves
<1>6. IsError(e, n)
  BY <1>3, RepeatedError
<1> HIDE DEF e
<1>7. Failed(e).ok = FALSE /\ IsResult(Failed(e), n)
  BY <1>3, <1>6, ResultsMade
<1>8. live' = [vals |-> live.vals + 0, errs |-> live.errs + 0]
  BY <1>1, <1>2, OwnsNothing
<1>9. Accounts(Failed(e), 0, 0)
  BY <1>4, <1>7, <1>8 DEF Accounts
<1> QED
  BY <1>1, <1>2, <1>5, <1>7, <1>9, ReturnStep

\* A count of too few or too many keeps it: its outputs are freed, and the input
\* goes back to its mark (mpc.c:1118-1122).
LEMMA CountFailsKeeps ==
  ASSUME ParsingInv, CountFails
  PROVE  ParsingInv'
<1> DEFINE n == Len(input.text)
           e == err_repeat(r.error, "count of")
<1>1. /\ parsers # <<>> /\ p.type = "COUNT" /\ st > 0 /\ ~r.ok /\ Return(st, Failed(e))
      /\ input' = rewind(input) /\ err' = err /\ Owns(1 - st, 0)
  BY DEF CountFails, At
<1>2. /\ n \in Nat /\ r.ok \in BOOLEAN /\ IsError(r.error, n) /\ IsError(err', n)
      /\ st \in Nat
  BY <1>1, TopState
<1>3. SpentValues = st - 1 /\ SpentErrors = 1
  BY <1>1, <1>2, SpentByNow
<1>4. Moves(0)
  BY <1>1, <1>2, BackMoves
<1>5. IsError(e, n)
  BY <1>2, RepeatedError
<1> HIDE DEF e
<1>6. Failed(e).ok = FALSE /\ IsResult(Failed(e), n)
  BY <1>2, <1>5, ResultsMade
<1>7. Accounts(Failed(e), 1 - st, 0)
  <2>1. 1 - st = 0 - (st - 1) /\ 1 - st \in Int /\ 0 = 1 - 1 /\ 0 \in Int
    BY <1>2
  <2> QED
    BY <1>1, <1>3, <1>6, <2>1, Zenon DEF Accounts, Owns
<1> QED
  BY <1>1, <1>4, <1>6, <1>7, ReturnStep

-----------------------------------------------------------------------------
(* Alternatives and sequences.                                             *)

\* Trying the next alternative keeps the invariant (mpc.c:1138-1145).
LEMMA OrNextKeeps ==
  ASSUME ParsingInv, OrNext
  PROVE  ParsingInv'
<1>1. /\ parsers # <<>> /\ p.type = "OR" /\ st < Len(p.xs) /\ (st > 0 => ~r.ok)
      /\ Continue(st + 1, p.xs[st + 1]) /\ input' = input /\ err' = err /\ live' = live
  BY DEF OrNext, At
<1>2. st \in Nat /\ (st > 0 => r.ok \in BOOLEAN) /\ IsError(err', Len(input.text))
  BY <1>1, TopState
<1>3. st + 1 \in 1..Len(p.xs) /\ st + 1 \in Nat
  <2>1. Len(p.xs) \in Nat
    BY <1>1, TopParser
  <2> QED
    BY <1>1, <1>2, <2>1
<1>4. p.xs[st + 1] \in Parsers
  BY <1>1, <1>3, TopParser
<1>5. Reached(p, st + 1)
  BY <1>1, <1>3 DEF Reached
<1>6. Moves(st + 1)
  BY <1>1, <1>2, <1>3, SameInput, StillMoves
<1>7. st > 0 => r.ok = (p.type # "OR")
  BY <1>1, <1>2
<1> HIDE DEF p, st, r
<1> QED
  BY <1>1, <1>4, <1>5, <1>6, <1>7, ContinueKeeps

\* Going on with a sequence keeps it, with a mark at its start (mpc.c:1153-1161).
LEMMA AndNextKeeps ==
  ASSUME ParsingInv, AndNext
  PROVE  ParsingInv'
<1>1. /\ parsers # <<>> /\ p.type = "AND" /\ st < Len(p.xs) /\ (st > 0 => r.ok)
      /\ Continue(st + 1, p.xs[st + 1]) /\ err' = err /\ live' = live
      /\ input' = IF st = 0 THEN mark(input) ELSE input
  BY DEF AndNext, At
<1>2. st \in Nat /\ (st > 0 => r.ok \in BOOLEAN) /\ IsError(err', Len(input.text)) /\ Sound(input)
  BY <1>1, TopState
<1>3. st + 1 \in 1..Len(p.xs) /\ st + 1 \in Nat /\ st + 1 > 0
  <2>1. Len(p.xs) \in Nat
    BY <1>1, TopParser
  <2> QED
    BY <1>1, <1>2, <2>1
<1>4. p.xs[st + 1] \in Parsers
  BY <1>1, <1>3, TopParser
<1>5. Reached(p, st + 1)
  BY <1>1, <1>3 DEF Reached
<1>6. Moves(st + 1)
  <2>1. CASE st = 0
    <3>1. /\ Sound(input') /\ Moved(input, input')
          /\ Len(input'.marks) = Len(input.marks) + (IF input.backtrack < 1 THEN 0 ELSE 1)
      BY <1>1, <1>2, <2>1, MarkSound
    <3>2. input'.text = input.text /\ input'.backtrack = input.backtrack
      BY <3>1 DEF Moved
    <3>3. MarksGoTo(st + 1)
      BY <1>1, <1>3, <2>1, <3>1, <3>2, OneMarkMore
    <3> QED
      BY <1>2, <3>1, <3>2, <3>3 DEF Moves
  <2>2. CASE st # 0
    <3>1. input' = input /\ st > 0
      BY <1>1, <1>2, <2>2
    <3> QED
      BY <1>1, <1>2, <1>3, <3>1, SameInput, StillMoves
  <2> QED
    BY <2>1, <2>2
<1>7. st > 0 => r.ok = (p.type # "OR")
  BY <1>1, <1>2
<1> HIDE DEF p, st, r
<1> QED
  BY <1>1, <1>4, <1>5, <1>6, <1>7, ContinueKeeps

\* None of none.
LEMMA OfNoneKeeps ==
  ASSUME ParsingInv, OrOfNone \/ AndOfNone
  PROVE  ParsingInv'
<1> DEFINE n == Len(input.text)
<1>1. /\ parsers # <<>> /\ p.type \in {"OR", "AND"} /\ p.xs = <<>>
      /\ input' = input /\ err' = err
  BY DEF OrOfNone, AndOfNone, At
<1>2. PICK v : Return(0, Ok(v)) /\ Owns(1, 0)
  BY Zenon DEF OrOfNone, AndOfNone
<1>3. n \in Nat /\ st \in Nat /\ Reached(p, st)
  BY <1>1, TopState
<1>4. st = 0
  <2>1. Len(p.xs) = 0
    BY <1>1
  <2> QED
    BY <1>1, <1>3, <2>1 DEF Reached, OfOne
<1>5. Ok(v).ok = TRUE /\ IsResult(Ok(v), n)
  BY <1>3, ResultsMade
<1>6. Owns(IF Ok(v).ok THEN 1 ELSE 0, IF Ok(v).ok THEN 0 ELSE 1)
  BY <1>2, <1>5, Zenon
<1>7. Sound(input') /\ Moved(input, input') /\ Len(input'.marks) = Len(input.marks)
  BY <1>1, SameInput
<1> QED
  BY <1>1, <1>2, <1>4, <1>5, <1>6, <1>7, ReturnsAtOnce

\* Errors, but for the last and the other way round.
LEMMA OthersReversed ==
  ASSUME NEW n \in Nat, NEW l \in Nat, l > 0, NEW es, Len(es) = l, DOMAIN es = 1..l,
         \A k \in 1..l : IsError(es[k], n)
  PROVE  /\ Len(Reverse(Front(es))) = l - 1
         /\ \A k \in 1..(l - 1) : IsError(Reverse(Front(es))[k], n)
<1> DEFINE S == {es[k] : k \in 1..l}
           f == Front(es)
<1>1. \A k \in 1..l : es[k] \in S
  OBVIOUS
<1>2. l - 1 \in Nat /\ \A k \in 1..(l - 1) : k \in 1..l
  OBVIOUS
<1>3. /\ SubSeq(es, 1, l - 1) \in Seq(S)
      /\ Len(SubSeq(es, 1, l - 1)) = IF 1 <= l - 1 THEN l - 1 - 1 + 1 ELSE 0
      /\ \A k \in 1..(l - 1 - 1 + 1) : SubSeq(es, 1, l - 1)[k] = es[1 + k - 1]
  <2>1. \A k \in 1..(l - 1) : es[k] \in S
    BY <1>1, <1>2
  <2> HIDE DEF S
  <2> QED
    BY <1>2, <2>1, SubSeqProperties
<1>4. f = SubSeq(es, 1, l - 1)
  BY DEF Front
<1> HIDE DEF f, S
<1>5. /\ f \in Seq(S) /\ Len(f) = l - 1
      /\ \A k \in 1..(l - 1) : f[k] = es[k]
  <2>1. l - 1 - 1 + 1 = l - 1 /\ \A k \in 1..(l - 1) : 1 + k - 1 = k
    BY <1>2
  <2>2. Len(f) = l - 1
    BY <1>2, <1>3, <1>4
  <2> QED
    BY <1>3, <1>4, <2>1, <2>2
<1>6. \A k \in 1..(l - 1) : IsError(f[k], n)
  BY <1>2, <1>5
<1>7. Reverse(f) = [k \in 1..Len(f) |-> f[Len(f) - k + 1]]
  BY DEF Reverse
<1>8. \A k \in 1..(l - 1) : (l - 1) - k + 1 \in 1..(l - 1)
  BY <1>2
<1>9. Len(Reverse(f)) = l - 1
  <2>1. \A k \in 1..(l - 1) : f[(l - 1) - k + 1] \in S
    <3>1. \A k \in 1..(l - 1) : f[k] \in S
      BY <1>5, ElementOfSeq
    <3> QED
      BY <1>8, <3>1
  <2>2. Reverse(f) \in [1..(l - 1) -> S]
    BY <1>5, <1>7, <2>1
  <2>3. Reverse(f) \in Seq(S) /\ DOMAIN Reverse(f) = 1..(l - 1)
    BY <1>2, <1>5, <1>7, <2>2, SeqDef
  <2> HIDE DEF Reverse
  <2>4. Len(Reverse(f)) \in Nat /\ DOMAIN Reverse(f) = 1..Len(Reverse(f))
    BY <2>3, LenProperties
  <2> QED
    BY <1>2, <2>3, <2>4
<1>10. \A k \in 1..(l - 1) : Reverse(f)[k] = f[(l - 1) - k + 1]
  BY <1>5, <1>7
<1>11. \A k \in 1..(l - 1) : IsError(Reverse(f)[k], n)
  BY <1>6, <1>8, <1>10
<1> QED
  BY <1>9, <1>11 DEF f

\* The alternative that is good keeps the invariant: the errors of those before it
\* are merged (mpc.c:1139-1144).
LEMMA OrSucceedsKeeps ==
  ASSUME ParsingInv, OrSucceeds
  PROVE  ParsingInv'
<1> DEFINE n == Len(input.text)
           es == Reverse(Front(errors(st)))
<1>1. parsers # <<>> /\ p.type = "OR" /\ st > 0 /\ r.ok /\ input' = input
  BY DEF OrSucceeds, At
<1>2. Merge(es) /\ Return(st, r) /\ Owns(0, 1 - st)
  BY DEF OrSucceeds
<1>3. /\ n \in Nat /\ r.ok \in BOOLEAN /\ IsError(r.error, n) /\ IsError(err, n)
      /\ st \in Nat /\ st \in 0..Len(results)
  BY <1>1, TopState
<1>4. IsError(err', n)
  <2>1. /\ Len(errors(st)) = st /\ DOMAIN errors(st) = 1..st
        /\ \A k \in 1..st : IsError(errors(st)[k], n)
    BY <1>3, LatestErrors
  <2>2. Len(es) = st - 1 /\ \A k \in 1..(st - 1) : IsError(es[k], n)
    BY <1>1, <1>3, <2>1, OthersReversed
  <2>3. st - 1 \in Nat
    BY <1>1, <1>3
  <2> HIDE DEF es
  <2> QED
    BY <1>2, <1>3, <2>2, <2>3, MergedIsError
<1>5. SpentValues = 1 /\ SpentErrors = st - 1
  BY <1>1, <1>3, SpentByNow
<1>6. Moves(0)
  <2>1. p.type \notin {"PREDICT", "AND", "COUNT", "NOT"} /\ 0 \in Nat
    BY <1>1
  <2> QED
    BY <1>1, <1>4, <2>1, SameInput, StillMoves
<1>7. IsResult(r, n)
  BY <1>3 DEF IsResult
<1>8. Accounts(r, 0, 1 - st)
  <2>1. 1 - st = 0 - (st - 1) /\ 1 - st \in Int /\ 0 = 1 - 1 /\ 0 \in Int
    BY <1>3
  <2> HIDE DEF r, st
  <2> QED
    BY <1>1, <1>2, <1>5, <2>1, Zenon DEF Accounts, Owns
<1> QED
  BY <1>1, <1>2, <1>6, <1>7, <1>8, ReturnStep

\* Alternatives that are all bad keep it: their errors become one (mpc.c:1146).
LEMMA OrFailsKeeps ==
  ASSUME ParsingInv, OrFails
  PROVE  ParsingInv'
<1> DEFINE n == Len(input.text)
           e == err_or(errors(st))
<1>1. parsers # <<>> /\ p.type = "OR" /\ st > 0 /\ ~r.ok /\ input' = input /\ err' = err
  BY DEF OrFails, At
<1>2. Return(st, Failed(e)) /\ Owns(0, 1 - st)
  BY DEF OrFails
<1>3. /\ n \in Nat /\ r.ok \in BOOLEAN /\ IsError(err', n)
      /\ st \in Nat /\ st \in 0..Len(results)
  BY <1>1, TopState
<1>4. IsError(e, n)
  <2>1. /\ Len(errors(st)) = st /\ DOMAIN errors(st) = 1..st
        /\ \A k \in 1..st : IsError(errors(st)[k], n)
    BY <1>3, LatestErrors
  <2> QED
    BY <1>3, <2>1, SeveralAreOne
<1>5. SpentValues = 0 /\ SpentErrors = st
  BY <1>1, <1>3, SpentByNow
<1>6. Moves(0)
  <2>1. p.type \notin {"PREDICT", "AND", "COUNT", "NOT"} /\ 0 \in Nat
    BY <1>1
  <2> QED
    BY <1>1, <1>3, <2>1, SameInput, StillMoves
<1> HIDE DEF e
<1>7. Failed(e).ok = FALSE /\ IsResult(Failed(e), n)
  BY <1>3, <1>4, ResultsMade
<1>8. Accounts(Failed(e), 0, 1 - st)
  <2>1. 1 - st \in Int /\ 0 = 0 - 0 /\ 0 \in Int
    BY <1>3
  <2> QED
    BY <1>2, <1>5, <1>7, <2>1, Zenon DEF Accounts, Owns
<1> QED
  BY <1>1, <1>2, <1>6, <1>7, <1>8, ReturnStep

\* A sequence of good parts keeps the invariant: its values become one, and the
\* mark is taken back (mpc.c:1162).
LEMMA AndSucceedsKeeps ==
  ASSUME ParsingInv, AndSucceeds
  PROVE  ParsingInv'
<1> DEFINE n == Len(input.text)
           y == Ok(Value(p.m, 0, outputs(st)))
<1>1. parsers # <<>> /\ p.type = "AND" /\ st > 0 /\ r.ok /\ input' = unmark(input) /\ err' = err
  BY DEF AndSucceeds, At
<1>2. Return(st, y) /\ Owns(1 - st, 0)
  BY DEF AndSucceeds
<1>3. n \in Nat /\ r.ok \in BOOLEAN /\ IsError(err', n) /\ st \in Nat
  BY <1>1, TopState
<1>4. SpentValues = st /\ SpentErrors = 0
  BY <1>1, <1>3, SpentByNow
<1>5. Moves(0)
  BY <1>1, <1>3, BackMoves
<1>6. y.ok = TRUE /\ IsResult(y, n)
  BY <1>3, ResultsMade
<1> HIDE DEF y
<1>7. Accounts(y, 1 - st, 0)
  <2>1. 1 - st \in Int /\ 0 = 0 - 0 /\ 0 \in Int
    BY <1>3
  <2> QED
    BY <1>2, <1>4, <1>6, <2>1, Zenon DEF Accounts, Owns
<1> QED
  BY <1>1, <1>2, <1>5, <1>6, <1>7, ReturnStep

\* A sequence with a bad part keeps it: the values of the parts before are freed,
\* and the input goes back to the mark (mpc.c:1155-1160).
LEMMA AndFailsKeeps ==
  ASSUME ParsingInv, AndFails
  PROVE  ParsingInv'
<1> DEFINE n == Len(input.text)
<1>1. parsers # <<>> /\ p.type = "AND" /\ st > 0 /\ ~r.ok /\ input' = rewind(input) /\ err' = err
  BY DEF AndFails, At
<1>2. Return(st, r) /\ Owns(1 - st, 0)
  BY DEF AndFails
<1>3. /\ n \in Nat /\ r.ok \in BOOLEAN /\ IsError(err', n) /\ st \in Nat
      /\ IsError(r.error, n)
  BY <1>1, TopState
<1>4. SpentValues = st - 1 /\ SpentErrors = 1
  BY <1>1, <1>3, SpentByNow
<1>5. Moves(0)
  BY <1>1, <1>3, BackMoves
<1>6. IsResult(r, n)
  BY <1>3 DEF IsResult
<1>7. Accounts(r, 1 - st, 0)
  <2>1. 1 - st = 0 - (st - 1) /\ 1 - st \in Int /\ 0 = 1 - 1 /\ 0 \in Int
    BY <1>3
  <2> HIDE DEF r, st
  <2> QED
    BY <1>1, <1>2, <1>4, <2>1, Zenon DEF Accounts, Owns
<1> QED
  BY <1>1, <1>2, <1>5, <1>6, <1>7, ReturnStep

-----------------------------------------------------------------------------
(* The beginning, the end, and every step between them.                    *)

\* The machine starts in a state of the invariant (mpc.c:965-977).
LEMMA InitKeeps ==
  ASSUME Init
  PROVE  ParsingInv
<1> DEFINE new == [p |-> init, st |-> 0]
<1>1. PICK kind \in Kinds, text \in Texts : input = NewInput(kind, text)
  BY Zenon DEF Init
<1>2. init \in Parsers /\ parsers = <<new>>
  <2>1. init \in Parsers
    BY Zenon DEF Init
  <2>2. parsers = <<[p |-> init, st |-> 0]>>
    BY DEF Init
  <2> QED
    BY <2>1, <2>2
<1>3. results = <<>>
  BY Zenon DEF Init
<1>4. slots = [parsers |-> ParserStack!More(1, 0), results |-> 0]
  BY Zenon DEF Init
<1>5. err = err_fail(-1, "Unknown Error")
  BY Zenon DEF Init
<1>6. live = [vals |-> 0, errs |-> 1] /\ outcome = Pending
  BY Zenon DEF Init
<1>7. text \in Seq(Range(text)) /\ Len(text) \in Nat
  BY TextsAssumption, LenProperties
<1>8. /\ input = [ kind |-> kind, text |-> text, pos |-> 0, last |-> "",
                   marks |-> <<>>, backtrack |-> 1, buffer |-> <<>>, off |-> 0, eof |-> FALSE ]
  BY <1>1 DEF NewInput
<1>9. input \in Inputs
  <2>1. input.last \in Characters
    BY <1>8, Zenon DEF Characters
  <2>2. <<>> \in Seq([pos : Nat, last : Characters]) /\ <<>> \in Seq(Characters)
    OBVIOUS
  <2> DEFINE c == input.last
  <2>3. input = [ kind |-> kind, text |-> text, pos |-> 0, last |-> c,
                  marks |-> <<>>, backtrack |-> 1, buffer |-> <<>>, off |-> 0, eof |-> FALSE ]
    BY <1>8
  <2>4. c \in Characters
    BY <2>1
  <2> HIDE DEF c
  <2> QED
    BY <2>2, <2>3, <2>4 DEF Inputs
<1>10. Sound(input)
  <2>1. /\ input.text = text /\ input.pos = 0 /\ input.off = 0 /\ input.eof = FALSE
        /\ input.marks = <<>> /\ input.buffer = <<>>
    BY <1>8
  <2>2. 1..Len(input.marks) = {}
    BY <2>1
  <2>3. 0 <= Len(input.text)
    BY <1>7, <2>1
  <2> QED
    BY <1>9, <2>1, <2>2, <2>3 DEF Sound
<1>11. input.text = text /\ input.marks = <<>> /\ input.backtrack = 1
  BY <1>8
<1>12. IsError(err, Len(input.text))
  <2>1. -1 \in -1..Len(text)
    BY <1>7
  <2>2. \A m : IsError(err_fail(-1, m), Len(text))
    BY <2>1 DEF err_fail, IsError
  <2>3. IsError(err_fail(-1, "Unknown Error"), Len(text))
    BY <2>2, Zenon
  <2> QED
    BY <1>11, <1>5, <2>3, Zenon
<1>13. /\ parsers \in Seq(Frames) /\ Len(parsers) = 1
      /\ parsers[1].p = init /\ parsers[1].st = 0
  <2>1. new \in Frames /\ new.p = init /\ new.st = 0
    BY <1>2 DEF Frames
  <2> HIDE DEF new
  <2> QED
    BY <1>2, <2>1
<1>14. Waiting
  BY <1>13 DEF Waiting, Frames, Reached
<1>15. Held(parsers)[0] = 1 /\ Held(parsers)[1] = 0
  <2>1. 1 \in 1..Len(parsers) /\ 1 - 1 = 0
    BY <1>13
  <2>2. /\ Held(parsers)[0] = 1
        /\ \A k \in 1..Len(parsers) : Held(parsers)[k] = Held(parsers)[k - 1] + parsers[k].st - 1
    BY <1>13, HeldSteps
  <2>3. Held(parsers)[1] = 1 + 0 - 1
    BY <1>13, <2>1, <2>2
  <2> QED
    BY <2>2, <2>3
<1>16. results \in Seq(Range(results)) /\ Len(results) = 0
  BY <1>3
<1>17. StacksAgree
  BY <1>13, <1>15, <1>16 DEF StacksAgree
<1>18. Collected
  BY <1>16 DEF Collected
<1>19. Stopped
  BY <1>6 DEF Stopped
<1>20. Room
  <2>1. ParserStack!More(0 + 1, 0) \in Nat /\ 0 + 1 <= ParserStack!More(0 + 1, 0)
    BY MoreRoom
  <2>2. ParserStack!More(1, 0) \in Nat /\ 1 <= ParserStack!More(1, 0)
    <3>1. 0 + 1 = 1
      OBVIOUS
    <3> QED
      BY <2>1, <3>1
  <2> QED
    BY <1>13, <1>16, <1>4, <2>2 DEF Room
<1>21. MarksBalanced
  <2>1. Balanced(input, parsers) <=>
          Marked(input, Cardinality(Predicting(parsers, 0)), Cardinality(Marking(parsers, 0)),
                 Resolve(parsers[0 + 1].p), parsers[0 + 1].st)
    <3>1. 0 \in Nat /\ Len(parsers) = 0 + 1
      BY <1>13
    <3> QED
      BY <1>13, <3>1, MarkingOnTop
  <2>2. Cardinality(Predicting(parsers, 0)) = 0 /\ Cardinality(Marking(parsers, 0)) = 0
    <3>1. Predicting(parsers, 0) = {} /\ Marking(parsers, 0) = {}
      BY DEF Predicting, Marking
    <3> QED
      BY <3>1, FS_EmptySet
  <2>3. parsers[0 + 1].st = 0 /\ Len(input.marks) = 0
    BY <1>11, <1>13
  <2>4. Marked(input, 0, 0, Resolve(parsers[0 + 1].p), parsers[0 + 1].st)
    <3>1. ~(0 > 0) /\ 1 = 1 - 0 - 0 /\ 0 = 0 + 0
      OBVIOUS
    <3> QED
      BY <1>11, <2>3, <3>1, Zenon DEF Marked
  <2>5. MarksFit(input, parsers)
    BY <1>13, <2>1, <2>2, <2>4, FitIsBalanced
  <2> QED
    BY <2>5 DEF MarksBalanced, MarksFit
<1>22. NothingLeaks
  <2>1. ASSUME NEW v PROVE Cardinality({k \in DOMAIN results : results[k].ok = v}) = 0
    <3>1. {k \in DOMAIN results : results[k].ok = v} = {}
      <4>1. DOMAIN results = {}
        BY <1>3
      <4> QED
        BY <4>1
    <3> QED
      BY <3>1, FS_EmptySet
  <2>2. Tally(results, TRUE) = 0 /\ Tally(results, FALSE) = 0
    BY <2>1 DEF Tally
  <2>3. live = [vals |-> Tally(results, TRUE), errs |-> Tally(results, FALSE) + 1]
    <3>1. 0 + 1 = 1
      OBVIOUS
    <3> QED
      BY <1>6, <2>2, <3>1, Zenon
  <2> QED
    BY <1>6, <2>3 DEF NothingLeaks, Tally
<1> QED
  BY <1>10, <1>12, <1>14, <1>17, <1>18, <1>19, <1>20, <1>21, <1>22 DEF ParsingInv

\* What is left at the end is not what there was at the beginning.
LEMMA NotPending ==
  ASSUME NEW e
  PROVE  Failed(e) # Pending
<1>1. Failed(e).output.tag = "NULL" /\ Pending.output.tag = "pending"
  BY DEF Failed, Pending, NULL, Leaf, Value
<1>2. "NULL" # "pending"
  OBVIOUS
<1> QED
  BY <1>1, <1>2

\* The last turn, which hands the one result to the caller, keeps the invariant
\* (mpc.c:776-794).
LEMMA TerminateKeeps ==
  ASSUME ParsingInv, Terminate
  PROVE  ParsingInv'
<1> DEFINE n == Len(input.text)
<1>1. /\ parsers = <<>> /\ outcome = Pending /\ results' = <<>> /\ Owns(0, -1)
      /\ input' = input /\ parsers' = parsers /\ slots' = slots
  BY DEF Terminate
<1>2. results \in Seq(Range(results)) /\ Len(results) \in Nat /\ DOMAIN results = 1..Len(results)
      /\ \A j \in 1..Len(results) : results[j].ok \in BOOLEAN /\ IsError(results[j].error, n)
  <2>1. results \in Seq(Range(results))
        /\ \A j \in 1..Len(results) : results[j].ok \in BOOLEAN /\ IsError(results[j].error, n)
    BY DEF ParsingInv, Collected
  <2> QED
    BY <2>1, LenProperties
<1>3. Len(results) = 1
  <2>1. parsers \in Seq(Frames) /\ Len(parsers) = 0
    BY <1>1
  <2>2. Held(parsers)[0] = 1
    BY <2>1, HeldSteps
  <2>3. Len(results) = Held(parsers)[Len(parsers)]
    BY <1>1 DEF ParsingInv, StacksAgree
  <2> QED
    BY <2>1, <2>2, <2>3
<1>4. r = results[1] /\ r.ok \in BOOLEAN
  <2>1. r = results[Len(results)]
    BY DEF r, Last
  <2>2. 1 \in 1..Len(results)
    BY <1>3
  <2> QED
    BY <1>2, <1>3, <2>1, <2>2
<1>5. n \in Nat /\ IsError(err, n) /\ Sound(input)
  BY InputParts DEF ParsingInv
<1>6. IsError(err', n)
  <2>1. CASE r.ok
    BY <1>5, <2>1 DEF Terminate
  <2>2. CASE ~r.ok
    <3>1. Merge(errors(1))
      BY <2>2 DEF Terminate
    <3>2. 1 \in 0..Len(results) /\ 1 \in Nat
      BY <1>3
    <3>3. Len(errors(1)) = 1 /\ \A k \in 1..1 : IsError(errors(1)[k], n)
      BY <3>2, LatestErrors
    <3> HIDE DEF errors
    <3> QED
      BY <1>5, <3>1, <3>2, <3>3, MergedIsError
  <2> QED
    BY <2>1, <2>2
<1>7. outcome' # Pending /\ (outcome'.ok <=> r.ok)
  <2>1. CASE r.ok
    <3>1. outcome' = r
      BY <2>1 DEF Terminate
    <3>2. Pending.ok = FALSE
      BY DEF Pending
    <3> HIDE DEF r
    <3> QED
      BY <2>1, <3>1, <3>2
  <2>2. CASE ~r.ok
    <3>1. outcome' = Failed(err')
      BY <2>2 DEF Terminate
    <3>2. Failed(err') # Pending
      BY NotPending
    <3>3. ~outcome'.ok
      BY <3>1 DEF Failed
    <3> QED
      BY <2>2, <3>1, <3>2, <3>3
  <2> QED
    BY <2>1, <2>2
<1>8. NothingLeaks'
  <2>1. /\ live.vals \in Nat /\ live.errs \in Nat
        /\ live.vals = Tally(results, TRUE) /\ live.errs = Tally(results, FALSE) + 1
    BY <1>1, LiveCounted
  <2>2. live' = [vals |-> live.vals + 0, errs |-> live.errs + -1]
    BY <1>1 DEF Owns
  <2>3. ASSUME NEW v
        PROVE  Tally(results, v) = IF r.ok = v THEN 1 ELSE 0
    <3> DEFINE S == {k \in DOMAIN results : results[k].ok = v}
    <3>1. DOMAIN results = {1}
      BY <1>2, <1>3
    <3>2. Cardinality({}) = 0 /\ Cardinality({1}) = 1
      BY FS_EmptySet, FS_Singleton
    <3>3. CASE r.ok = v
      <4>1. S = {1}
        BY <1>4, <3>1, <3>3
      <4> HIDE DEF S
      <4>2. Cardinality(S) = 1
        BY <3>2, <4>1
      <4> QED
        BY <3>3, <4>2 DEF Tally, S
    <3>4. CASE r.ok # v
      <4>1. S = {}
        BY <1>4, <3>1, <3>4
      <4> HIDE DEF S
      <4>2. Cardinality(S) = 0
        BY <3>2, <4>1
      <4> QED
        BY <3>4, <4>2 DEF Tally, S
    <3> QED
      BY <3>3, <3>4
  <2>4. Tally(results, TRUE) = (IF r.ok = TRUE THEN 1 ELSE 0)
        /\ Tally(results, FALSE) = (IF r.ok = FALSE THEN 1 ELSE 0)
    BY <2>3, Zenon
  <2>5. CASE r.ok
    <3>1. (r.ok = TRUE) /\ ~(r.ok = FALSE)
      BY <1>4, <2>5
    <3>2. Tally(results, TRUE) = 1 /\ Tally(results, FALSE) = 0
      BY <2>4, <3>1, Zenon
    <3>3. live.vals = 1 /\ live.errs = 0 + 1
      BY <2>1, <3>2, Zenon
    <3>4. live' = [vals |-> 1, errs |-> 0]
      BY <2>2, <3>3
    <3> QED
      BY <1>7, <2>5, <3>4 DEF NothingLeaks
  <2>6. CASE ~r.ok
    <3>1. ~(r.ok = TRUE) /\ (r.ok = FALSE)
      BY <1>4, <2>6
    <3>2. Tally(results, TRUE) = 0 /\ Tally(results, FALSE) = 1
      BY <2>4, <3>1, Zenon
    <3>3. live.vals = 0 /\ live.errs = 1 + 1
      BY <2>1, <3>2, Zenon
    <3>4. live' = [vals |-> 0, errs |-> 1]
      BY <2>2, <3>3
    <3> QED
      BY <1>7, <2>6, <3>4 DEF NothingLeaks
  <2> QED
    BY <2>5, <2>6
<1>9. Waiting'
  BY <1>1 DEF ParsingInv, Waiting
<1>10. Collected'
  BY <1>1 DEF Collected
<1>11. Stopped'
  BY <1>1 DEF Stopped
<1>12. Room'
  <2>1. Len(results') = 0
    BY <1>1
  <2> QED
    BY <1>1, <2>1 DEF ParsingInv, Room
<1>13. StacksAgree'
  BY <1>7 DEF StacksAgree
<1>14. MarksBalanced'
  BY <1>1 DEF ParsingInv, MarksBalanced
<1> QED
  BY <1>1, <1>5, <1>6, <1>8, <1>9, <1>10, <1>11, <1>12, <1>13, <1>14 DEF ParsingInv

\* Every turn of the loop keeps the invariant, and so does doing nothing.
LEMMA StepKeeps == ParsingInv /\ [Next]_run => ParsingInv'
<1> SUFFICES ASSUME ParsingInv, [Next]_run PROVE ParsingInv'
  OBVIOUS
<1>1. CASE Turn
  BY <1>1, OneKeeps, StrKeeps, AnchorKeeps, ConstantKeeps, DescendKeeps, ExpectEndKeeps,
     ApplyEndKeeps, PredictStartKeeps, PredictEndKeeps, MarkAndDescendKeeps, NotEndKeeps,
     MaybeEndKeeps, AgainKeeps, ManyEndKeeps, Many1FailsKeeps, CountEndKeeps, CountFailsKeeps,
     OrNextKeeps, OrSucceedsKeeps, OrFailsKeeps, OfNoneKeeps, AndNextKeeps, AndSucceedsKeeps,
     AndFailsKeeps, TerminateKeeps DEF Turn
<1>2. CASE UNCHANGED run
  <2>1. /\ input' = input /\ parsers' = parsers /\ results' = results /\ slots' = slots
        /\ err' = err /\ live' = live /\ outcome' = outcome
    BY <1>2 DEF run
  <2>2. Waiting' /\ Collected' /\ Stopped' /\ Room'
    BY <2>1 DEF ParsingInv, Waiting, Collected, Stopped, Room
  <2>3. StacksAgree' /\ MarksBalanced' /\ NothingLeaks'
    BY <2>1 DEF ParsingInv, StacksAgree, MarksBalanced, NothingLeaks
  <2> QED
    BY <2>1, <2>2, <2>3 DEF ParsingInv
<1> QED
  BY <1>1, <1>2 DEF Next, Done

\* Everything that ParsingInv says of input, stacks, arrays, marks and memory holds
\* in every state of every run.
THEOREM ParsingInvariant == Spec => []ParsingInv
<1>1. Init => ParsingInv
  BY InitKeeps
<1> QED
  BY <1>1, StepKeeps, PTL DEF Spec

-----------------------------------------------------------------------------
(* What the runs check, for every set of parsers and of texts.             *)

\* Every variable keeps its type, the input stays within its text and neither
\* array is written past its end (mpc.c:413-466, 802-869).
THEOREM ParserTypes == Spec => []TypeOK
<1>1. ASSUME ParsingInv PROVE TypeOK
  <2>1. /\ input.pos \in 0..Len(input.text) /\ input.off \in 0..Len(input.text)
        /\ input.eof \in BOOLEAN /\ Len(input.text) \in Nat
    <3>1. Sound(input)
      BY <1>1 DEF ParsingInv
    <3>2. /\ input.pos \in Nat /\ input.off \in Nat /\ input.eof \in BOOLEAN
          /\ Len(input.text) \in Nat
      BY <3>1, InputParts
    <3>3. input.pos <= Len(input.text) /\ input.off <= Len(input.text)
      BY <3>1 DEF Sound
    <3> QED
      BY <3>2, <3>3
  <2>2. input.backtrack <= 1
    <3>1. parsers \in Seq(Frames) /\ MarksFit(input, parsers)
      BY <1>1 DEF ParsingInv, Waiting, Frames, MarksBalanced, MarksFit
    <3>2. Balanced(input, parsers)
      BY <3>1, FitIsBalanced
    <3>3. Cardinality(Predicting(parsers, Len(parsers))) \in Nat
      BY <3>1, LenProperties, MarkingTypes
    <3> QED
      BY <3>2, <3>3 DEF Balanced
  <2>3. \A k \in DOMAIN parsers : parsers[k].st \in Nat
    <3>1. parsers \in Seq(Frames)
      BY <1>1 DEF ParsingInv, Waiting, Frames
    <3>2. \A k \in DOMAIN parsers : parsers[k] \in Frames
      BY <3>1, LenProperties, ElementOfSeq
    <3> QED
      BY <3>2 DEF Frames
  <2>4. \A k \in DOMAIN results : results[k].ok \in BOOLEAN
    <3>1. results \in Seq(Range(results)) /\ \A j \in 1..Len(results) : results[j].ok \in BOOLEAN
      BY <1>1 DEF ParsingInv, Collected
    <3>2. DOMAIN results = 1..Len(results)
      BY <3>1, LenProperties
    <3> QED
      BY <3>1, <3>2
  <2>5. Len(parsers) <= slots.parsers /\ Len(results) <= slots.results
    BY <1>1 DEF ParsingInv, Room
  <2>6. err.pos \in -1..Len(input.text)
    BY <1>1 DEF ParsingInv, IsError
  <2>7. live \in [vals : Nat, errs : Nat]
    <3>1. CASE outcome = Pending
      <4>1. /\ live.vals \in Nat /\ live.errs \in Nat
            /\ live = [vals |-> live.vals, errs |-> live.errs]
        BY <1>1, <3>1, LiveCounted
      <4> QED
        BY <4>1
    <3>2. CASE outcome # Pending
      BY <1>1, <3>2 DEF ParsingInv, NothingLeaks
    <3> QED
      BY <3>1, <3>2
  <2> QED
    BY <2>1, <2>2, <2>3, <2>4, <2>5, <2>6, <2>7 DEF TypeOK
<1> QED
  BY <1>1, ParsingInvariant, PTL

\* The stack of results is that of the parsers: none takes another's
\* (mpc.c:986-1146).
THEOREM ParsersTakeTheirOwn == Spec => []StacksAgree
<1>1. ParsingInv => StacksAgree
  BY DEF ParsingInv
<1> QED
  BY <1>1, ParsingInvariant, PTL

\* Marks are set and taken back in pairs, and neither inside a predictive parser
\* (mpc.c:413-466, 1037-1146).
THEOREM MarksPair == Spec => []MarksBalanced
<1>1. ParsingInv => MarksBalanced
  BY DEF ParsingInv
<1> QED
  BY <1>1, ParsingInvariant, PTL

\* Every value and every error has one place, and one of them is left at the
\* end, for the caller (mpc.c:768-795, 891-947).
THEOREM NothingIsLost == Spec => []NothingLeaks
<1>1. ParsingInv => NothingLeaks
  BY DEF ParsingInv
<1> QED
  BY <1>1, ParsingInvariant, PTL

-----------------------------------------------------------------------------

\* A parser that asks for another puts one entry on the stack.
LEMMA PushedLength ==
  ASSUME NEW ps \in Seq(Frames), ps # <<>>, NEW s, NEW x
  PROVE  Len(Pushed(ps, s, x)) = Len(ps) + 1
<1> DEFINE n == Len(ps)
           f == Front(ps)
           g == [Last(ps) EXCEPT !.st = s]
           new == [p |-> x, st |-> 0]
           S == Frames \cup {g, new}
           qs == f \o <<g>>
<1>1. n \in Nat \ {0} /\ f \in Seq(Frames) /\ Len(f) = n - 1
  BY FrontProperties
<1>2. g \in S /\ new \in S
  OBVIOUS
<1>3. f \in Seq(S)
  <2>1. \A k \in 1..Len(f) : f[k] \in S
    BY <1>1, ElementOfSeq
  <2>2. f \in [1..Len(f) -> Frames]
    BY <1>1, LenProperties
  <2>3. f \in [1..Len(f) -> S]
    BY <2>1, <2>2
  <2>4. Len(f) \in Nat
    BY <1>1
  <2> HIDE DEF f, S
  <2> QED
    BY <2>3, <2>4, SeqDef
<1> HIDE DEF n, f, g, new, S
<1>4. qs \in Seq(S) /\ Len(qs) = n
  <2>1. <<g>> \in Seq(S) /\ Len(<<g>>) = 1
    BY <1>2
  <2>2. qs \in Seq(S) /\ Len(qs) = Len(f) + Len(<<g>>)
    BY <1>3, <2>1, ConcatProperties
  <2>3. (n - 1) + 1 = n
    BY <1>1
  <2> HIDE DEF qs
  <2> QED
    BY <1>1, <2>1, <2>2, <2>3
<1> HIDE DEF qs
<1>5. Len(Append(qs, new)) = n + 1
  BY <1>2, <1>4, AppendProperties
<1> QED
  BY <1>5 DEF Pushed, qs, f, g, new, n

\* What an action does to the stack of parsers.
Pushes == \E s, x : Continue(s, x)
Pops ==
  /\ parsers' = Front(parsers)
  /\ slots'.parsers = ParserStack!Less(Len(parsers) - 1, slots.parsers)

\* One that returns takes one off.
LEMMA ReturnPops ==
  ASSUME NEW n, NEW x, Return(n, x)
  PROVE  Pops
BY DEF Return, Pops

\* No turn does anything else to the array of parsers, or it leaves it alone.
LEMMA TurnPushesOrPops ==
  ASSUME ParsingInv, Turn
  PROVE  \/ parsers # <<>> /\ (Pushes \/ Pops)
         \/ parsers' = parsers /\ slots' = slots
<1>1. CASE One \/ Str
  <2>1. PICK t, v : Primitive(t, v) /\ parsers # <<>>
    BY <1>1, Zenon DEF One, Str, At
  <2>2. PICK n, x : Return(n, x)
    BY <2>1, Zenon DEF Primitive
  <2> QED
    BY <2>1, <2>2, ReturnPops
<1>2. CASE Constant
  <2>1. PICK type, v : Always(type, v) \/ Never(type, v)
    BY <1>2, Zenon DEF Constant
  <2>2. PICK n, x : Return(n, x) /\ parsers # <<>>
    BY <2>1, Zenon DEF Always, Never, At
  <2> QED
    BY <2>2, ReturnPops
<1>3. CASE Descend \/ PredictStart \/ MarkAndDescend \/ Again \/ OrNext \/ AndNext
  <2>1. parsers # <<>>
    BY <1>3, Zenon DEF Descend, PredictStart, MarkAndDescend, Again, OrNext, AndNext, At
  <2>2. \E s, x : Continue(s, x)
    BY <1>3, Zenon DEF Descend, PredictStart, MarkAndDescend, Again, OrNext, AndNext
  <2> QED
    BY <2>1, <2>2 DEF Pushes
<1>4. CASE AnchorStep \/ ExpectEnd \/ ApplyEnd \/ NotEnd \/ MaybeEnd
  <2>1. parsers # <<>>
    BY <1>4, Zenon DEF AnchorStep, ExpectEnd, ApplyEnd, NotEnd, MaybeEnd, At
  <2>2. PICK n, x : Return(n, x)
    BY <1>4, Zenon DEF AnchorStep, ExpectEnd, ApplyEnd, NotEnd, MaybeEnd
  <2> QED
    BY <2>1, <2>2, ReturnPops
<1>5. CASE ManyEnd \/ Many1Fails \/ CountEnd \/ CountFails
  <2>1. parsers # <<>>
    BY <1>5, Zenon DEF ManyEnd, Many1Fails, CountEnd, CountFails, At
  <2>2. PICK n, x : Return(n, x)
    BY <1>5, Zenon DEF ManyEnd, Many1Fails, CountEnd, CountFails, FoldRepeated
  <2> QED
    BY <2>1, <2>2, ReturnPops
<1>6. CASE OrSucceeds \/ OrFails \/ OrOfNone \/ AndSucceeds \/ AndFails \/ AndOfNone
  <2>1. parsers # <<>>
    BY <1>6, Zenon DEF OrSucceeds, OrFails, OrOfNone, AndSucceeds, AndFails, AndOfNone, At
  <2>2. PICK n, x : Return(n, x)
    BY <1>6, Zenon DEF OrSucceeds, OrFails, OrOfNone, AndSucceeds, AndFails, AndOfNone
  <2> QED
    BY <2>1, <2>2, ReturnPops
<1>7. CASE PredictEnd
  <2>1. /\ parsers # <<>> /\ parsers' = Front(parsers)
        /\ slots' = [slots EXCEPT !.parsers = ParserStack!Less(Len(parsers) - 1, slots.parsers)]
    BY <1>7 DEF PredictEnd, At
  <2>2. slots \in [parsers : Nat, results : Nat]
    BY DEF ParsingInv, Room
  <2> QED
    BY <2>1, <2>2 DEF Pops
<1>8. CASE Terminate
  BY <1>8 DEF Terminate
<1> QED
  BY <1>1, <1>2, <1>3, <1>4, <1>5, <1>6, <1>7, <1>8, Zenon DEF Turn

\* A stack that moves by the steps of MpcStack alone always has a slot for every
\* entry, however deep it gets and in whatever order it grows and shrinks: no
\* write to its array is past its end (mpc.c:802-830).
THEOREM StackFits == ParserStack!Spec => []ParserStack!SlotsSuffice
<1> DEFINE n == Len(parsers)
           s == slots.parsers
<1>1. ParserStack!Init => ParserStack!SlotsSuffice
  BY DEF ParserStack!Init, ParserStack!SlotsSuffice
<1>2. ParserStack!SlotsSuffice /\ [ParserStack!Next]_(ParserStack!svars) => ParserStack!SlotsSuffice'
  <2> SUFFICES ASSUME ParserStack!SlotsSuffice, [ParserStack!Next]_(ParserStack!svars)
               PROVE  n' \in Nat /\ s' \in Nat /\ n' <= s'
    BY DEF ParserStack!SlotsSuffice
  <2>0. n \in Nat /\ s \in Nat /\ n <= s
    BY DEF ParserStack!SlotsSuffice
  <2>1. CASE ParserStack!Push
    <3>1. n' = n + 1 /\ s' = ParserStack!More(n + 1, s)
      BY <2>1 DEF ParserStack!Push
    <3>2. ParserStack!More(n + 1, s) \in Nat /\ n + 1 <= ParserStack!More(n + 1, s)
      BY <2>0, MoreRoom
    <3> HIDE DEF n, s
    <3> QED
      BY <2>0, <3>1, <3>2
  <2>2. CASE ParserStack!Pop
    <3>1. n > 0 /\ n' = n - 1 /\ s' = ParserStack!Less(n - 1, s)
      BY <2>2 DEF ParserStack!Pop
    <3>2. n - 1 \in Nat /\ n - 1 <= s
      BY <2>0, <3>1
    <3>3. ParserStack!Less(n - 1, s) \in Nat /\ n - 1 <= ParserStack!Less(n - 1, s)
      BY <2>0, <3>2, LessRoom
    <3> HIDE DEF n, s
    <3> QED
      BY <3>1, <3>2, <3>3
  <2>3. CASE UNCHANGED ParserStack!svars
    <3>1. n' = n /\ s' = s
      BY <2>3 DEF ParserStack!svars
    <3> QED
      BY <2>0, <3>1
  <2> QED
    BY <2>1, <2>2, <2>3 DEF ParserStack!Next
<1> QED
  BY <1>1, <1>2, PTL DEF ParserStack!Spec

\* The machine uses its array of parsers as MpcStack says: with StackFits, it
\* is never written past its end (mpc.c:802-830).
THEOREM ParserArrayIsStack == Spec => UsesStack
<1>1. ASSUME ParsingInv, [Next]_run
      PROVE  [ParserStack!Next]_<<Len(parsers), slots.parsers>>
  <2>1. parsers \in Seq(Frames)
    BY <1>1 DEF ParsingInv, Waiting, Frames
  <2>2. slots \in [parsers : Nat, results : Nat]
    BY <1>1 DEF ParsingInv, Room
  <2>3. CASE parsers' = parsers /\ slots' = slots
    BY <2>3
  <2>4. CASE parsers # <<>> /\ Pushes
    <3>1. PICK s, x : Continue(s, x)
      BY <2>4 DEF Pushes
    <3>2. /\ parsers' = Pushed(parsers, s, x)
          /\ slots' = [slots EXCEPT !.parsers = ParserStack!More(Len(parsers) + 1, slots.parsers)]
      BY <3>1 DEF Continue, Pushed
    <3>3. Len(parsers') = Len(parsers) + 1
      BY <2>1, <2>4, <3>2, PushedLength
    <3>4. slots'.parsers = ParserStack!More(Len(parsers) + 1, slots.parsers)
      BY <2>2, <3>2
    <3> QED
      BY <3>3, <3>4 DEF ParserStack!Next, ParserStack!Push
  <2>5. CASE parsers # <<>> /\ Pops
    <3>1. Len(parsers) \in Nat \ {0} /\ Len(parsers') = Len(parsers) - 1
      BY <2>1, <2>5, FrontProperties DEF Pops
    <3>2. Len(parsers) > 0
      BY <3>1
    <3> QED
      BY <2>5, <3>1, <3>2 DEF Pops, ParserStack!Next, ParserStack!Pop
  <2>6. CASE UNCHANGED run
    BY <2>3, <2>6 DEF run
  <2> QED
    BY <1>1, <2>3, <2>4, <2>5, <2>6, TurnPushesOrPops DEF Next, Done
<1> QED
  BY <1>1, ParsingInvariant, PTL DEF Spec, UsesStack
=============================================================================
