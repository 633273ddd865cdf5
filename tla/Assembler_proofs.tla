-------------------------- MODULE Assembler_proofs --------------------------
(***************************************************************************)
(* Proofs about the assembler, for every source file and every number of   *)
(* words by which the text grows, and about the command around it.         *)
(*                                                                         *)
(* The parser is compared with the lines of the file: a position in the    *)
(* token sequence is a line and a number of tokens taken from it, the mode *)
(* says what those tokens are, and the text, the symbols and the errors    *)
(* are those of the lines done with.  At the end of the file all are.      *)
(***************************************************************************)
EXTENDS Rbmlc, RBMLWord_proofs, SequenceTheorems, FiniteSetTheorems, TLAPS

\* A token is looked at again only to begin recovery from it, whatever the
\* file: the parser's loop comes to an end (rbml_parser.y:51-57).
THEOREM Progresses == Spec => EveryStepProgresses
  <1> DEFINE Forward == next' = next + 1
             Begins == next' = next /\ mode # "error" /\ mode' = "error"
             Goes == status' = "parsing" => Forward \/ Begins
  <1>1. ASSUME [Next]_avars
        PROVE  Goes \/ UNCHANGED avars
    <2>1. CASE BadCharacter \/ Discard
      BY <2>1 DEF BadCharacter, Discard
    <2>2. CASE NewLine \/ Ident \/ NewLabel \/ ReferencedLabel
      BY <2>2 DEF NewLine, Ident, NewLabel, ReferencedLabel, Shift
    <2>3. CASE DuplicateLabel
      BY <2>3 DEF DuplicateLabel
    <2>4. CASE Instruction \/ Operand
      BY <2>4 DEF Instruction, Operand, Complete, Shift
    <2>5. CASE Unexpected
      BY <2>5 DEF Unexpected, SyntaxError, Recover
    <2>6. CASE Accept \/ RunOutOfMemory \/ LostName \/ code_check_refs
      BY <2>6 DEF Accept, RunOutOfMemory, LostName, code_check_refs
    <2>7. CASE Finished \/ UNCHANGED avars
      BY <2>7 DEF Finished
    <2> QED
      BY <1>1, <2>1, <2>2, <2>3, <2>4, <2>5, <2>6, <2>7 DEF Next, Parse
  <1>2. [Next]_avars => [Goes]_avars
    BY <1>1
  <1> QED
    BY <1>2, PTL DEF Spec, EveryStepProgresses

-----------------------------------------------------------------------------
(* The text and the words allocated for it.                                *)

\* The words of a text may be anything: only how many they are matters here.
IsText(t) == \E S : t \in Seq(S)

Room == IsText(text) /\ allocated \in Nat /\ Len(text) <= allocated

\* A text with a word more is a text.
LEMMA AppendIsText ==
  ASSUME NEW t, NEW w, IsText(t)
  PROVE  IsText(Append(t, w)) /\ Len(t) \in Nat /\ Len(Append(t, w)) = Len(t) + 1
<1>1. PICK S : t \in Seq(S)
  BY DEF IsText
<1>2. t \in Seq(S \cup {w})
  BY <1>1
<1>3. Append(t, w) \in Seq(S \cup {w}) /\ Len(Append(t, w)) = Len(t) + 1 /\ Len(t) \in Nat
  BY <1>2, AppendProperties, LenProperties
<1> QED
  BY <1>3 DEF IsText

\* Emitting a word makes room for it first (code.c:121-132).
LEMMA EmitKeepsRoom ==
  ASSUME NEW w, Room, code_emit(w)
  PROVE  Room'
<1>1. IsText(text') /\ Len(text) \in Nat /\ Len(text') = Len(text) + 1
  BY AppendIsText DEF Room, code_emit
<1>2. allocated' \in Nat /\ Len(text) + 1 <= allocated'
  BY <1>1, AssemblerAssumption DEF Room, code_emit
<1> QED
  BY <1>1, <1>2 DEF Room

\* Patching the words that refer to a label neither adds nor drops one
\* (symbol.c:117-130).
LEMMA PatchKeepsLength ==
  ASSUME NEW refs, IsText(text)
  PROVE  IsText(Patched(refs)) /\ Len(Patched(refs)) = Len(text)
<1> DEFINE p == Patched(refs)
           T == {p[i] : i \in DOMAIN text}
<1>1. PICK S : text \in Seq(S)
  BY DEF IsText
<1>2. DOMAIN text = 1..Len(text) /\ Len(text) \in Nat
  BY <1>1, LenProperties
<1>3. p \in [1..Len(text) -> T]
  BY <1>2 DEF Patched
<1>4. p \in Seq(T)
  BY <1>2, <1>3, SeqDef
<1>5. Len(p) = Len(text)
  BY <1>2, <1>3, <1>4, LenProperties
<1> QED
  BY <1>4, <1>5 DEF IsText

-----------------------------------------------------------------------------
(* The references that wait for a label.                                   *)

\* What a table of symbols must be for its references to lie below n.
RefsBelow(table, n) ==
  \A name \in DOMAIN table :
    /\ "refs" \in DOMAIN table[name]
    /\ \A ref \in table[name].refs : ref.offset \in 0..(n - 1)

\* They stay below as the text grows.
LEMMA RefsStayBelow ==
  ASSUME NEW table, NEW n \in Nat, RefsBelow(table, n)
  PROVE  RefsBelow(table, n + 1)
BY DEF RefsBelow

\* A symbol that is added has none.
LEMMA AddKeepsRefs ==
  ASSUME NEW table, NEW name, NEW line, NEW n \in Nat, RefsBelow(table, n)
  PROVE  RefsBelow(code_symbol_add(table, name, line), n)
BY DEF RefsBelow, code_symbol_add

\* The table with one more reference noted for a name.
Noted(table, name, ref) == [table EXCEPT ![name].refs = @ \cup {ref}]

\* A reference that is noted must lie below as well.
LEMMA NoteKeepsRefs ==
  ASSUME NEW table, NEW name, NEW ref, NEW n \in Nat,
         RefsBelow(table, n), ref.offset \in 0..(n - 1)
  PROVE  RefsBelow(Noted(table, name, ref), n)
<1> DEFINE noted == Noted(table, name, ref)
<1> SUFFICES ASSUME NEW other \in DOMAIN table
             PROVE  /\ "refs" \in DOMAIN noted[other]
                    /\ \A r \in noted[other].refs : r.offset \in 0..(n - 1)
  BY DEF RefsBelow, Noted
<1>1. "refs" \in DOMAIN table[other] /\ \A r \in table[other].refs : r.offset \in 0..(n - 1)
  BY DEF RefsBelow
<1>2. CASE other # name
  BY <1>1, <1>2 DEF Noted
<1>3. CASE other = name
  <2>1. noted[name] = [table[name] EXCEPT !.refs = @ \cup {ref}]
    BY <1>3 DEF Noted
  <2>2. "refs" \in DOMAIN noted[name] /\ noted[name].refs = table[name].refs \cup {ref}
    BY <1>1, <1>3, <2>1
  <2> QED
    BY <1>1, <1>3, <2>2
<1> QED
  BY <1>2, <1>3

\* A reference is to the word about to be emitted (code.c:82-94).
LEMMA RefIsToNextWord ==
  ASSUME NEW table, NEW name, Len(text) \in Nat, RefsBelow(table, Len(text))
  PROVE  RefsBelow(code_symbol_ref(table, name), Len(text) + 1)
<1> DEFINE seen == IF name \in DOMAIN table THEN table ELSE code_symbol_add(table, name, 0)
           ref == [line_num |-> line_num, offset |-> Len(text)]
<1>1. RefsBelow(seen, Len(text) + 1)
  BY AddKeepsRefs, RefsStayBelow
<1>2. ref.offset \in 0..(Len(text) + 1 - 1) /\ Len(text) + 1 \in Nat
  OBVIOUS
<1>3. code_symbol_ref(table, name) \in {seen, Noted(seen, name, ref)}
  BY Zenon DEF code_symbol_ref, Noted
<1> HIDE DEF seen, ref
<1> QED
  BY <1>1, <1>2, <1>3, NoteKeepsRefs

-----------------------------------------------------------------------------
(* Both hold of every state.                                               *)

Inv == Room /\ RefsBelow(symbol_table, Len(text))

\* Nothing but an instruction and a label touches the text or the table.
LEMMA InvStays ==
  ASSUME Inv, UNCHANGED <<text, allocated, symbol_table>>
  PROVE  Inv'
BY DEF Inv, Room, RefsBelow

\* At first there is neither text nor symbol.
LEMMA InvInitially == Init => Inv
<1> SUFFICES ASSUME Init PROVE Inv
  OBVIOUS
<1>1. IsText(text) /\ Len(text) = 0
  BY DEF Init, IsText
<1> QED
  BY <1>1 DEF Init, Inv, Room, RefsBelow

\* An instruction emits a word, and may note a reference to it.
LEMMA CompleteKeepsInv ==
  ASSUME NEW inst, Inv, Complete(inst)
  PROVE  Inv'
<1>1. Room'
  BY EmitKeepsRoom DEF Inv, Complete
<1>2. Len(text) \in Nat /\ Len(text') = Len(text) + 1
  BY AppendIsText DEF Inv, Room, Complete, code_emit
<1>3. RefsBelow(symbol_table', Len(text) + 1)
  BY <1>2, RefsStayBelow, RefIsToNextWord DEF Inv, Complete
<1> QED
  BY <1>1, <1>2, <1>3 DEF Inv

\* A label not seen before adds a symbol without references.
LEMMA NewLabelKeepsInv ==
  ASSUME Inv, NewLabel
  PROVE  Inv'
<1>1. UNCHANGED <<text, allocated>>
  BY DEF NewLabel
<1>2. Len(text) \in Nat
  BY AppendIsText DEF Inv, Room
<1>3. RefsBelow(symbol_table', Len(text))
  BY <1>2, AddKeepsRefs DEF Inv, NewLabel
<1> QED
  BY <1>1, <1>3 DEF Inv, Room

\* A label that was referenced before is patched in, or the process crashes.
LEMMA ReferencedLabelKeepsInv ==
  ASSUME Inv, ReferencedLabel
  PROVE  Inv'
<1> DEFINE name == partial[1].value
           defined == [line_num |-> line_num, offset |-> Len(text), refs |-> {}]
<1>1. CASE /\ text' = Patched(symbol_table[name].refs)
           /\ symbol_table' = [symbol_table EXCEPT ![name] = defined]
  <2>1. IsText(text') /\ Len(text') = Len(text)
    BY <1>1, PatchKeepsLength DEF Inv, Room
  <2>2. UNCHANGED allocated
    BY DEF ReferencedLabel
  <2>3. RefsBelow(symbol_table', Len(text))
    BY <1>1 DEF Inv, RefsBelow
  <2> QED
    BY <2>1, <2>2, <2>3 DEF Inv, Room
<1>2. CASE UNCHANGED <<text, symbol_table>>
  BY <1>2, InvStays DEF ReferencedLabel
<1> QED
  BY <1>1, <1>2 DEF ReferencedLabel

\* Every step keeps both.
LEMMA InvAlways == Spec => []Inv
<1>1. Inv /\ [Next]_avars => Inv'
  <2> SUFFICES ASSUME Inv, [Next]_avars PROVE Inv'
    OBVIOUS
  <2>1. CASE Instruction
    BY <2>1, CompleteKeepsInv, InvStays DEF Instruction, code
  <2>2. CASE Operand
    BY <2>2, CompleteKeepsInv, InvStays DEF Operand, code
  <2>3. CASE NewLabel \/ ReferencedLabel
    BY <2>3, NewLabelKeepsInv, ReferencedLabelKeepsInv
  <2>4. CASE BadCharacter \/ Discard \/ NewLine \/ Accept \/ Ident
    BY <2>4, InvStays DEF BadCharacter, Discard, NewLine, Accept, Ident, code
  <2>5. CASE DuplicateLabel \/ Unexpected \/ RunOutOfMemory \/ LostName \/ code_check_refs
    BY <2>5, InvStays
    DEF DuplicateLabel, Unexpected, SyntaxError, RunOutOfMemory, LostName, code_check_refs, code
  <2>6. CASE Finished \/ UNCHANGED avars
    BY <2>6, InvStays DEF Finished, avars, code
  <2> QED
    BY <2>1, <2>2, <2>3, <2>4, <2>5, <2>6 DEF Next, Parse
<1> QED
  BY <1>1, InvInitially, PTL DEF Spec

\* Whatever the file and the allocation step, no word is written past the end of
\* what is allocated (code.c:121-132).
THEOREM TextAlwaysFits == Spec => []TextFits
<1>1. Inv => TextFits
  BY DEF Inv, Room, TextFits
<1> QED
  BY <1>1, InvAlways, PTL

\* Whatever the file, defining a label that was referenced writes within the
\* text (code.c:82-103, symbol.c:105-130).
THEOREM RefsAlwaysInText == Spec => []RefsInText
<1>1. Inv => RefsInText
  BY DEF Inv, RefsBelow, RefsInText
<1> QED
  BY <1>1, InvAlways, PTL

-----------------------------------------------------------------------------
(* The lines of a file.                                                    *)

IsFile(src) ==
  /\ Len(src) \in Nat /\ DOMAIN src = 1..Len(src)
  /\ \A i \in DOMAIN src : IsToken(src[i])

\* A line follows another where a newline stands, and nowhere else.
LEMMA LineNumbers ==
  ASSUME NEW src, IsFile(src), NEW i \in Int
  PROVE  /\ LineNumber(src, i) \in Nat \ {0}
         /\ i + 1 \in Int
         /\ LineNumber(src, i + 1) = IF i \in NewLines(src) THEN LineNumber(src, i) + 1
                                                           ELSE LineNumber(src, i)
         /\ \A k \in Int : i <= k => LineNumber(src, i) <= LineNumber(src, k)
         /\ LineNumber(src, 1) = 1
<1>1. NewLines(src) \in SUBSET Int /\ NewLines(src) \in SUBSET (1..Len(src))
  BY DEF NewLines, IsFile
<1>2. IsFiniteSet(NewLines(src))
  <2>1. IsFiniteSet(1..Len(src))
    BY FS_Interval DEF IsFile
  <2> QED
    BY <1>1, <2>1, FS_Subset
<1>3. \A k \in Int : Before(NewLines(src), k) \in Nat
  BY <1>1, <1>2, BeforeType
<1>4. Before(NewLines(src), i + 1) = IF i \in NewLines(src) THEN Before(NewLines(src), i) + 1
                                                           ELSE Before(NewLines(src), i)
  BY <1>1, <1>2, BeforeNext
<1>5. \A k \in Int : i <= k => Before(NewLines(src), i) <= Before(NewLines(src), k)
  BY <1>1, <1>2, BeforeGrows
<1>6. Before(NewLines(src), 1) = 0
  <2>1. \A j \in NewLines(src) : 1 <= j
    BY <1>1 DEF IsFile
  <2> QED
    BY <1>1, <1>2, <2>1, BeforeLeast
<1> QED
  BY <1>3, <1>4, <1>5, <1>6 DEF LineNumber

\* The positions of a line's tokens.
LEMMA KeptFacts ==
  ASSUME NEW src, IsFile(src), NEW k
  PROVE  /\ Kept(src, k) \in SUBSET Int /\ IsFiniteSet(Kept(src, k))
         /\ \A i \in Kept(src, k) : /\ i \in 1..Len(src) /\ LineNumber(src, i) = k
                                    /\ src[i].kind \notin {"NL", "BAD"}
<1>1. Kept(src, k) \in SUBSET (1..Len(src))
  BY DEF Kept, IsFile
<1>2. IsFiniteSet(1..Len(src))
  BY FS_Interval DEF IsFile
<1>3. IsFiniteSet(Kept(src, k))
  BY <1>1, <1>2, FS_Subset
<1> QED
  BY <1>1, <1>3 DEF Kept, IsFile

\* A line is the sequence of its tokens in the order of the file.
LEMMA LineFacts ==
  ASSUME NEW src, IsFile(src), NEW k
  PROVE  /\ Len(Line(src, k)) = Cardinality(Kept(src, k)) /\ Len(Line(src, k)) \in Nat
         /\ Line(src, k) \in Seq({src[j] : j \in DOMAIN src})
         /\ \A n \in 1..Len(Line(src, k)) : IsToken(Line(src, k)[n])
         /\ \A i \in Kept(src, k) : Line(src, k)[Before(Kept(src, k), i) + 1] = src[i]
<1> DEFINE K == Kept(src, k)
           T == {src[j] : j \in DOMAIN src}
<1>1. K \in SUBSET Int /\ IsFiniteSet(K) /\ \A i \in K : i \in DOMAIN src
  BY KeptFacts DEF IsFile
<1>2. Cardinality(K) \in Nat
  BY <1>1, FS_CardinalityType
<1>3. Line(src, k) = [n \in 1..Cardinality(K) |-> src[Nth(K, n)]]
  BY DEF Line
<1> HIDE DEF K
<1>4. ASSUME NEW n \in 1..Cardinality(K) PROVE src[Nth(K, n)] \in T /\ IsToken(src[Nth(K, n)])
  BY <1>1, NthExists DEF IsFile
<1>5. Line(src, k) \in [1..Cardinality(K) -> T]
  <2> HIDE DEF T
  <2> QED
    BY <1>3, <1>4
<1>6. Line(src, k) \in Seq(T) /\ Len(Line(src, k)) = Cardinality(K)
  <2> HIDE DEF T
  <2> QED
    BY <1>2, <1>5, SeqDef, LenProperties
<1>7. ASSUME NEW i \in K PROVE Line(src, k)[Before(K, i) + 1] = src[i]
  BY <1>1, <1>3, NthIs
<1> QED
  BY <1>2, <1>3, <1>4, <1>6, <1>7 DEF K

\* The lines are numbered from one to that of the end of the file.
LEMMA LinesFacts ==
  ASSUME NEW src, IsFile(src)
  PROVE  /\ LineNumber(src, Len(src) + 1) \in Nat \ {0}
         /\ DOMAIN Lines(src) = 1..LineNumber(src, Len(src) + 1)
         /\ \A k \in DOMAIN Lines(src) : Lines(src)[k] = Line(src, k)
  BY LineNumbers DEF Lines, IsFile

-----------------------------------------------------------------------------
(* Where the parser is in its line.                                        *)

TakenAt(src, n) == Before(Kept(src, LineNumber(src, n)), n)

\* The place of any position up to the end of the file.
LEMMA PlaceFacts ==
  ASSUME NEW src, IsFile(src), NEW n \in 1..(Len(src) + 1)
  PROVE  /\ LineNumber(src, n) \in DOMAIN Lines(src)
         /\ TakenAt(src, n) \in 0..Len(Line(src, LineNumber(src, n)))
<1>1. LineNumber(src, n) \in 1..LineNumber(src, Len(src) + 1)
  BY LineNumbers DEF IsFile
<1>2. TakenAt(src, n) \in 0..Cardinality(Kept(src, LineNumber(src, n)))
  <2> DEFINE K == Kept(src, LineNumber(src, n))
  <2>1. K \in SUBSET Int /\ IsFiniteSet(K)
    BY KeptFacts
  <2> HIDE DEF K
  <2>2. Before(K, n) \in Nat /\ Cardinality(K) \in Nat /\ Before(K, n) <= Cardinality(K)
    BY <2>1, BeforeType
  <2> QED
    BY <2>2 DEF TakenAt, K
<1> QED
  BY <1>1, <1>2, LinesFacts, LineFacts

\* A newline is the end of its line, and the next line begins behind it.
LEMMA AtNewLine ==
  ASSUME NEW src, IsFile(src), NEW n \in 1..Len(src), src[n].kind = "NL"
  PROVE  /\ TakenAt(src, n) = Len(Line(src, LineNumber(src, n)))
         /\ LineNumber(src, n + 1) = LineNumber(src, n) + 1
         /\ TakenAt(src, n + 1) = 0
<1> DEFINE k == LineNumber(src, n)
<1>1. n \in Int /\ n \in NewLines(src)
  BY DEF NewLines, IsFile
<1>2. LineNumber(src, n + 1) = k + 1 /\ k \in Nat
  BY <1>1, LineNumbers
<1>3. \A i \in Kept(src, k) : i < n
  <2> SUFFICES ASSUME NEW i \in Kept(src, k), ~(i < n) PROVE FALSE
    OBVIOUS
  <2>1. i \in Int /\ LineNumber(src, i) = k /\ i # n
    BY KeptFacts
  <2>2. n + 1 <= i /\ n + 1 \in Int
    BY <1>1, <2>1
  <2>3. LineNumber(src, n + 1) <= LineNumber(src, i)
    BY <2>1, <2>2, LineNumbers
  <2> QED
    BY <1>2, <2>1, <2>3
<1>4. TakenAt(src, n) = Cardinality(Kept(src, k))
  BY <1>1, <1>3, KeptFacts, BeforeAll DEF TakenAt
<1>5. \A i \in Kept(src, k + 1) : n + 1 <= i
  <2> SUFFICES ASSUME NEW i \in Kept(src, k + 1), ~(n + 1 <= i) PROVE FALSE
    OBVIOUS
  <2>1. i \in Int /\ LineNumber(src, i) = k + 1
    BY KeptFacts
  <2>2. i <= n
    BY <2>1
  <2>3. LineNumber(src, i) <= k
    BY <1>1, <2>1, <2>2, LineNumbers
  <2> QED
    BY <1>2, <2>1, <2>3
<1>6. TakenAt(src, n + 1) = 0
  BY <1>1, <1>2, <1>5, KeptFacts, BeforeLeast DEF TakenAt
<1> QED
  BY <1>2, <1>4, <1>6, LineFacts

\* A character the scanner rejects is in no line's tokens, but the line has it.
LEMMA AtBadCharacter ==
  ASSUME NEW src, IsFile(src), NEW n \in 1..Len(src), src[n].kind = "BAD"
  PROVE  /\ LineNumber(src, n + 1) = LineNumber(src, n)
         /\ TakenAt(src, n + 1) = TakenAt(src, n)
         /\ HasBadCharacter(src, LineNumber(src, n))
<1>1. n \in Int /\ n \notin NewLines(src) /\ n \in DOMAIN src
  BY DEF NewLines, IsFile
<1>2. LineNumber(src, n + 1) = LineNumber(src, n)
  BY <1>1, LineNumbers
<1>3. n \notin Kept(src, LineNumber(src, n))
  BY DEF Kept
<1>4. TakenAt(src, n + 1) = TakenAt(src, n)
  BY <1>1, <1>2, <1>3, KeptFacts, BeforeNext DEF TakenAt
<1> QED
  BY <1>1, <1>2, <1>4 DEF HasBadCharacter

\* Any other token is the next of its line.
LEMMA AtOther ==
  ASSUME NEW src, IsFile(src), NEW n \in 1..Len(src), src[n].kind \notin {"NL", "BAD"}
  PROVE  /\ LineNumber(src, n + 1) = LineNumber(src, n)
         /\ TakenAt(src, n + 1) = TakenAt(src, n) + 1
         /\ TakenAt(src, n) + 1 <= Len(Line(src, LineNumber(src, n)))
         /\ Line(src, LineNumber(src, n))[TakenAt(src, n) + 1] = src[n]
<1> DEFINE k == LineNumber(src, n)
<1>1. n \in Int /\ n \notin NewLines(src) /\ n \in DOMAIN src
  BY DEF NewLines, IsFile
<1>2. LineNumber(src, n + 1) = k
  BY <1>1, LineNumbers
<1>3. n \in Kept(src, k)
  BY <1>1 DEF Kept
<1>4. TakenAt(src, n + 1) = TakenAt(src, n) + 1
  BY <1>1, <1>2, <1>3, KeptFacts, BeforeNext DEF TakenAt
<1>5. TakenAt(src, n) + 1 \in 1..Cardinality(Kept(src, k))
  BY <1>3, KeptFacts, NthIs DEF TakenAt
<1>6. Line(src, k)[TakenAt(src, n) + 1] = src[n]
  BY <1>3, LineFacts DEF TakenAt
<1>7. Len(Line(src, k)) = Cardinality(Kept(src, k))
  BY LineFacts
<1>8. TakenAt(src, n) + 1 <= Len(Line(src, k))
  BY <1>5, <1>7
<1> QED
  BY <1>2, <1>4, <1>6, <1>8

\* At the end of the file all of the last line has been taken.
LEMMA AtFileEnd ==
  ASSUME NEW src, IsFile(src)
  PROVE  TakenAt(src, Len(src) + 1) = Len(Line(src, LineNumber(src, Len(src) + 1)))
<1>1. Len(src) + 1 \in Int
  BY DEF IsFile
<1>2. \A k : \A i \in Kept(src, k) : i < Len(src) + 1
  BY KeptFacts DEF IsFile
<1> DEFINE K == Kept(src, LineNumber(src, Len(src) + 1))
<1>3. K \in SUBSET Int /\ IsFiniteSet(K) /\ \A i \in K : i < Len(src) + 1
  BY <1>2, KeptFacts
<1>4. Before(K, Len(src) + 1) = Cardinality(K)
  <2> HIDE DEF K
  <2> QED
    BY <1>1, <1>3, BeforeAll
<1> QED
  BY <1>4, LineFacts DEF TakenAt

\* The first line begins at the start of the file.
LEMMA AtFileStart ==
  ASSUME NEW src, IsFile(src)
  PROVE  LineNumber(src, 1) = 1 /\ TakenAt(src, 1) = 0
<1>1. \A i \in Kept(src, 1) : 1 <= i
  BY KeptFacts DEF IsFile
<1> QED
  BY <1>1, KeptFacts, LineNumbers, BeforeLeast DEF TakenAt

-----------------------------------------------------------------------------
(* Instructions and lines as sequences of tokens.                          *)

\* Every kind of instruction has up to three operands, one of them a name at
\* most, and nothing else is an instruction's first token.
LEMMA OperandsFacts ==
  ASSUME NEW kind \in DOMAIN Operands
  PROVE  /\ kind \notin {"IDENT", "COLON", "COMMA", "NL", "BAD", "EOF"}
         /\ Len(Operands[kind]) \in Nat /\ DOMAIN Operands[kind] = 1..Len(Operands[kind])
         /\ \A i, j \in DOMAIN Operands[kind] :
              Operands[kind][i] = "IDENT" /\ Operands[kind][j] = "IDENT" => i = j
         /\ Operands[kind] # <<>> => Len(Operands[kind]) >= 1
         /\ \A i \in DOMAIN Operands[kind] :
              Operands[kind][i] \in {"IDENT", "REG", "COMMA", "NUMBER"}
<1> USE DEF Operands
<1>1. CASE kind \in {"WORD", "INST0"}
  BY <1>1
<1>2. CASE kind \in {"INST1A", "INST1R"}
  BY <1>2
<1>3. CASE kind = "INST2RR"
  BY <1>3
<1>4. CASE kind = "INST2RA"
  BY <1>4
<1>5. CASE kind = "INST2NR"
  BY <1>5
<1> QED
  BY <1>1, <1>2, <1>3, <1>4, <1>5

\* How many of a line's tokens are its label.
Skip(ln) == IF Labelled(ln) THEN 2 ELSE 0

\* The body of a line is what follows its label.
LEMMA BodyFacts ==
  ASSUME NEW S, NEW ln \in Seq(S)
  PROVE  /\ Len(ln) \in Nat /\ Skip(ln) \in {0, 2} /\ Skip(ln) <= Len(ln)
         /\ Body(ln) \in Seq(S) /\ Len(Body(ln)) = Len(ln) - Skip(ln)
         /\ Len(Body(ln)) \in Nat /\ DOMAIN Body(ln) = 1..Len(Body(ln))
         /\ \A i \in 1..Len(Body(ln)) : Body(ln)[i] = ln[Skip(ln) + i]
         /\ Body(ln) = <<>> <=> Len(ln) = Skip(ln)
<1>1. Len(ln) \in Nat
  OBVIOUS
<1>2. CASE Labelled(ln)
  <2>1. Len(ln) >= 2
    BY <1>2 DEF Labelled
  <2>2. Body(ln) = SubSeq(ln, 3, Len(ln))
    BY <1>2 DEF Body
  <2>3. /\ SubSeq(ln, 3, Len(ln)) \in Seq(S) /\ Len(SubSeq(ln, 3, Len(ln))) = Len(ln) - 2
        /\ \A i \in 1..(Len(ln) - 2) : SubSeq(ln, 3, Len(ln))[i] = ln[2 + i]
    <3>1. \A i \in 3..Len(ln) : ln[i] \in S
      BY <1>1
    <3>2. /\ SubSeq(ln, 3, Len(ln)) \in Seq(S)
          /\ Len(SubSeq(ln, 3, Len(ln))) = IF 3 <= Len(ln) THEN Len(ln) - 3 + 1 ELSE 0
          /\ \A i \in 1..(Len(ln) - 3 + 1) : SubSeq(ln, 3, Len(ln))[i] = ln[3 + i - 1]
      BY <1>1, <3>1, SubSeqProperties
    <3> DEFINE rest == SubSeq(ln, 3, Len(ln))
    <3>3. /\ rest \in Seq(S) /\ Len(rest) = IF 3 <= Len(ln) THEN Len(ln) - 3 + 1 ELSE 0
          /\ \A i \in 1..(Len(ln) - 3 + 1) : rest[i] = ln[3 + i - 1]
      BY <3>2
    <3> HIDE DEF rest
    <3>4. Len(ln) - 3 + 1 = Len(ln) - 2 /\ \A i \in 1..(Len(ln) - 2) : 3 + i - 1 = 2 + i
      BY <1>1
    <3>5. Len(rest) = IF 3 <= Len(ln) THEN Len(ln) - 3 + 1 ELSE 0
      BY <3>3
    <3> DEFINE n == Len(ln)
               r == Len(rest)
    <3>6. n \in Nat /\ n >= 2 /\ r = IF 3 <= n THEN n - 3 + 1 ELSE 0
      BY <1>1, <2>1, <3>5
    <3> HIDE DEF n, r
    <3>7. r = n - 2
      BY <3>6
    <3>8. Len(rest) = Len(ln) - 2
      BY <3>7 DEF n, r
    <3>9. \A i \in 1..(Len(ln) - 2) : rest[i] = ln[2 + i]
      BY <3>3, <3>4
    <3> QED
      BY <3>3, <3>8, <3>9 DEF rest
  <2> QED
    BY <1>1, <1>2, <2>1, <2>2, <2>3, EmptySeq DEF Skip
<1>3. CASE ~Labelled(ln)
  BY <1>1, <1>3, EmptySeq DEF Body, Skip
<1> QED
  BY <1>2, <1>3

\* An instruction: its first token and all the operands its kind asks for.
IsInstruction(inst) ==
  /\ inst \in Seq({inst[i] : i \in DOMAIN inst}) /\ Len(inst) \in Nat /\ Len(inst) >= 1
  /\ inst[1].kind \in DOMAIN Operands
  /\ Len(inst) = 1 + Len(Operands[inst[1].kind])
  /\ \A i \in 1..Len(Operands[inst[1].kind]) : inst[i + 1].kind = Operands[inst[1].kind][i]
  /\ \A i \in 1..Len(inst) : IsToken(inst[i])

\* The instruction of a line stands at the start of its body.
LEMMA InstructionFacts ==
  ASSUME NEW S, NEW ln \in Seq(S), \A i \in 1..Len(ln) : IsToken(ln[i]), HasInstruction(ln)
  PROVE  /\ IsInstruction(InstructionOf(ln))
         /\ Len(InstructionOf(ln)) <= Len(Body(ln))
         /\ Len(InstructionOf(ln)) = Len(Body(ln)) <=> InstructionOf(ln) = Body(ln)
         /\ Body(ln) # <<>>
<1> DEFINE B == Body(ln)
           m == 1 + Len(Operands[B[1].kind])
           inst == InstructionOf(ln)
<1>1. /\ B \in Seq(S) /\ Len(B) \in Nat /\ B # <<>> /\ B[1].kind \in DOMAIN Operands
      /\ \A i \in 1..Len(B) : IsToken(B[i])
  <2>1. /\ B \in Seq(S) /\ Len(B) \in Nat /\ Len(ln) \in Nat /\ Skip(ln) \in {0, 2}
        /\ Len(B) = Len(ln) - Skip(ln)
        /\ \A i \in 1..Len(B) : B[i] = ln[Skip(ln) + i]
    BY BodyFacts
  <2>2. B # <<>> /\ B[1].kind \in DOMAIN Operands
    BY DEF HasInstruction
  <2> HIDE DEF B
  <2>3. ASSUME NEW i \in 1..Len(B) PROVE IsToken(B[i])
    <3>1. Skip(ln) + i \in 1..Len(ln)
      BY <2>1
    <3> QED
      BY <2>1, <3>1
  <2> QED
    BY <2>1, <2>2, <2>3
<1>2. /\ Len(Operands[B[1].kind]) \in Nat
      /\ DOMAIN Operands[B[1].kind] = 1..Len(Operands[B[1].kind])
  BY <1>1, OperandsFacts
<1>3. /\ m \in 1..Len(B)
      /\ \A i \in 1..Len(Operands[B[1].kind]) : B[i + 1].kind = Operands[B[1].kind][i]
  <2>1. Len(B) > Len(Operands[B[1].kind])
    BY DEF HasInstruction
  <2>2. \A i \in DOMAIN Operands[B[1].kind] : B[i + 1].kind = Operands[B[1].kind][i]
    BY DEF HasInstruction
  <2> HIDE DEF B
  <2> QED
    BY <1>1, <1>2, <2>1, <2>2
<1>4. inst = SubSeq(B, 1, m)
  BY DEF InstructionOf
<1> HIDE DEF B, inst
<1>5. inst \in Seq(S) /\ Len(inst) = m /\ \A i \in 1..m : inst[i] = B[i]
  BY <1>1, <1>3, <1>4
<1>6. inst \in Seq({inst[i] : i \in DOMAIN inst})
  <2>1. inst \in [1..m -> {inst[i] : i \in DOMAIN inst}] /\ m \in Nat
    <3>1. DOMAIN inst = 1..m /\ inst = [i \in DOMAIN inst |-> inst[i]]
      BY <1>5, LenProperties
    <3> QED
      BY <1>1, <1>3, <3>1
  <2> DEFINE T == {inst[i] : i \in DOMAIN inst}
  <2> HIDE DEF T
  <2>2. inst \in [1..m -> T] /\ m \in Nat
    BY <2>1 DEF T
  <2>3. inst \in Seq(T)
    BY <2>2, SeqDef, SMTT(30)
  <2> QED
    BY <2>3 DEF T
<1>7. m = Len(B) <=> inst = B
  BY <1>1, <1>3, <1>4, <1>5
<1>8. IsInstruction(inst)
  <2>1. inst[1] = B[1] /\ m \in Nat /\ m >= 1
    BY <1>1, <1>3, <1>5
  <2>2. \A i \in 1..m : IsToken(inst[i])
    BY <1>1, <1>3, <1>5
  <2>3. \A i \in 1..Len(Operands[B[1].kind]) : i + 1 \in 1..m
    BY <1>2
  <2>4. \A i \in 1..Len(Operands[B[1].kind]) : inst[i + 1].kind = Operands[B[1].kind][i]
    BY <1>3, <1>5, <2>3
  <2> QED
    BY <1>1, <1>5, <1>6, <2>1, <2>2, <2>4 DEF IsInstruction
<1> QED
  BY <1>1, <1>3, <1>5, <1>7, <1>8 DEF B, inst

\* An instruction refers to one name at most.
LEMMA OneName ==
  ASSUME NEW inst, IsInstruction(inst)
  PROVE  /\ \A name \in RefersTo(inst) : RefersTo(inst) = {name} /\ TheName(inst) = name
         /\ RefersTo(inst) # {} => TheName(inst) \in RefersTo(inst)
<1> DEFINE kinds == Operands[inst[1].kind]
           at == {j \in DOMAIN inst : inst[j].kind = "IDENT"}
<1>1. /\ inst[1].kind # "IDENT" /\ Len(kinds) \in Nat /\ DOMAIN kinds = 1..Len(kinds)
      /\ \A i, j \in 1..Len(kinds) : kinds[i] = "IDENT" /\ kinds[j] = "IDENT" => i = j
  <2>1. inst[1].kind \in DOMAIN Operands
    BY DEF IsInstruction
  <2> QED
    BY <2>1, OperandsFacts
<1>2. DOMAIN inst = 1..(1 + Len(kinds))
  BY DEF IsInstruction
<1>3. \A i \in 1..Len(kinds) : inst[i + 1].kind = kinds[i]
  BY DEF IsInstruction
<1>4. ASSUME NEW i \in at, NEW j \in at PROVE i = j
  <2> HIDE DEF kinds
  <2>1. i \in 2..(1 + Len(kinds)) /\ j \in 2..(1 + Len(kinds))
    BY <1>1, <1>2
  <2>2. i - 1 \in 1..Len(kinds) /\ j - 1 \in 1..Len(kinds) /\ (i - 1) + 1 = i /\ (j - 1) + 1 = j
    BY <1>1, <2>1
  <2>3. kinds[i - 1] = "IDENT" /\ kinds[j - 1] = "IDENT"
    BY <1>3, <2>2
  <2>4. i - 1 = j - 1
    BY <1>1, <2>2, <2>3
  <2> QED
    BY <2>2, <2>4
<1>5. RefersTo(inst) = {inst[i].value : i \in at}
  BY DEF RefersTo
<1>6. ASSUME NEW name \in RefersTo(inst) PROVE RefersTo(inst) = {name}
  <2> HIDE DEF at
  <2> QED
    BY <1>4, <1>5
<1> QED
  BY <1>6 DEF TheName

-----------------------------------------------------------------------------
(* The words of instructions.                                              *)

\* A product of fields is a number.
LEMMA FieldSizes ==
  /\ NADDR \in Nat \ {0} /\ NREGS * NADDR \in Nat \ {0} /\ NREGS * NREGS * NADDR \in Nat \ {0}
  /\ HALF \in Nat \ {0} /\ NREGS \in Nat \ {0}
<1>1. NREGS * NREGS \in Nat \ {0}
  BY WordAssumption
<1> QED
  BY <1>1, HalfPositive, WordAssumption

\* A product of integers is an integer.
LEMMA ProductType ==
  ASSUME NEW a \in Int, NEW b \in Int
  PROVE  a * b \in Int
  OBVIOUS

\* An instruction's fields make a word.
LEMMA InstIsWord ==
  ASSUME NEW op \in Int, NEW a \in Int, NEW b \in Int, NEW c \in Int
  PROVE  RBML_INST(op, a, b, c) \in Word
<1>1. op % 256 \in Int /\ a % NREGS \in Int /\ b % NREGS \in Int /\ c % NADDR \in Int
  BY FieldSizes
<1>2. NREGS \in Int /\ NADDR \in Int
  BY FieldSizes
<1>3. (op % 256) * NREGS * NREGS * NADDR \in Int
  BY <1>1, <1>2, ProductType
<1>4. (a % NREGS) * NREGS * NADDR \in Int /\ (b % NREGS) * NADDR \in Int
  BY <1>1, <1>2, ProductType
<1> DEFINE x == (op % 256) * NREGS * NREGS * NADDR
           y == (a % NREGS) * NREGS * NADDR
           z == (b % NREGS) * NADDR
           u == c % NADDR
<1>5. RBML_INST(op, a, b, c) = Wrap(x + y + z + u)
  BY DEF RBML_INST
<1>6. x \in Int /\ y \in Int /\ z \in Int /\ u \in Int
  BY <1>1, <1>3, <1>4
<1> HIDE DEF x, y, z, u
<1>7. x + y + z + u \in Int
  BY <1>6
<1> QED
  BY <1>5, <1>7, WrapIsWord

\* The word of an instruction with the address in its place is a word.
LEMMA EncodeIsWord ==
  ASSUME NEW inst, IsInstruction(inst), NEW a \in Int
  PROVE  Encode(inst, a) \in Word
<1> DEFINE kind == inst[1].kind
<1>1. kind \in DOMAIN Operands /\ inst[1].value \in Int
  BY OperandsFacts DEF IsInstruction, IsToken
<1>2. CASE kind = "WORD"
  <2>0. Len(Operands[kind]) = 1 /\ Operands[kind][1] = "NUMBER"
    BY <1>2 DEF Operands
  <2>1. Len(inst) = 2 /\ inst[1 + 1].kind = "NUMBER"
    BY <2>0 DEF IsInstruction
  <2>2. inst[2].kind = "NUMBER" /\ IsToken(inst[2])
    BY <2>1 DEF IsInstruction
  <2>3. inst[2].value \in Int
    BY <2>2 DEF IsToken
  <2> QED
    BY <1>2, <2>3, WrapIsWord DEF Encode
<1>3. CASE kind \in {"INST0", "INST1A"}
  <2>1. Encode(inst, a) = RBML_INST(inst[1].value, 0, 0, a)
    BY <1>3 DEF Encode
  <2> QED
    BY <1>1, <2>1, InstIsWord
<1>4. CASE kind \in {"INST1R", "INST2RA"}
  <2>1. Len(Operands[kind]) \in {1, 3} /\ Operands[kind][1] = "REG"
    <3>1. CASE kind = "INST1R"
      BY <3>1 DEF Operands
    <3>2. CASE kind = "INST2RA"
      BY <3>2 DEF Operands
    <3> QED
      BY <1>4, <3>1, <3>2
  <2>2. inst[2].kind = "REG" /\ IsToken(inst[2])
    <3>1. Len(inst) = 1 + Len(Operands[kind]) /\ 1 \in 1..Len(Operands[kind])
      BY <2>1 DEF IsInstruction
    <3>2. inst[1 + 1].kind = Operands[kind][1]
      BY <3>1 DEF IsInstruction
    <3>3. 2 \in 1..Len(inst)
      BY <2>1, <3>1
    <3> QED
      BY <2>1, <3>2, <3>3 DEF IsInstruction
  <2>3. inst[2].value \in Int
    BY <2>2 DEF IsToken
  <2>4. Encode(inst, a) = RBML_INST(inst[1].value, inst[2].value, 0, a)
    BY <1>4 DEF Encode
  <2> QED
    BY <1>1, <2>3, <2>4, InstIsWord
<1>5. CASE kind \in {"INST2RR", "INST2NR"}
  <2>1. /\ Len(Operands[kind]) = 3 /\ Operands[kind][1] \in {"REG", "NUMBER"}
        /\ Operands[kind][3] = "REG"
    BY <1>5 DEF Operands
  <2>2. Len(inst) = 4 /\ inst[1 + 1].kind \in {"REG", "NUMBER"} /\ inst[3 + 1].kind = "REG"
    BY <2>1 DEF IsInstruction
  <2>3. /\ inst[2].kind \in {"REG", "NUMBER"} /\ inst[4].kind = "REG"
        /\ IsToken(inst[2]) /\ IsToken(inst[4])
    BY <2>2 DEF IsInstruction
  <2>4. inst[2].value \in Int /\ inst[4].value \in Int
    BY <2>3 DEF IsToken
  <2>5. Encode(inst, a) = RBML_INST(inst[1].value, inst[2].value, inst[4].value, 0)
    BY <1>5 DEF Encode
  <2> QED
    BY <1>1, <2>4, <2>5, InstIsWord
<1>6. kind \in {"WORD", "INST0", "INST1A", "INST1R", "INST2RA", "INST2RR", "INST2NR"}
  BY <1>1 DEF Operands
<1> QED
  BY <1>2, <1>3, <1>4, <1>5, <1>6

\* A product with a factor that is not zero is not nearer to zero.
LEMMA ProductGrows ==
  ASSUME NEW m \in Nat \ {0}, NEW d \in Int
  PROVE  /\ m * d \in Int
         /\ d >= 1 => m * d >= m
         /\ d <= -1 => m * d <= -m
<1>1. CASE d >= 1
  <2>1. d - 1 \in Nat
    BY <1>1
  <2>2. m * (d - 1) \in Nat
    BY <2>1
  <2>3. m * d = m * (d - 1) + m
    OBVIOUS
  <2> QED
    BY <1>1, <2>2, <2>3
<1>2. CASE d <= -1
  <2>1. -d - 1 \in Nat
    BY <1>2
  <2>2. m * (-d - 1) \in Nat
    BY <2>1
  <2>3. m * d = -(m * (-d - 1)) - m
    OBVIOUS
  <2> QED
    BY <1>2, <2>2, <2>3
<1>3. CASE d = 0
  BY <1>3
<1> QED
  BY <1>1, <1>2, <1>3

\* Division with a positive number: the quotient times it, and a remainder.
LEMMA Division ==
  ASSUME NEW m \in Nat \ {0}, NEW x \in Int
  PROVE  /\ x \div m \in Int /\ x % m \in 0..(m - 1)
         /\ x = m * (x \div m) + (x % m)
<1>1. x \div m \in Int
  BY Quotients
<1>2. x % m \in 0..(m - 1)
  OBVIOUS
<1>3. x = m * (x \div m) + (x % m)
  OBVIOUS
<1> QED
  BY <1>1, <1>2, <1>3

\* The remainder is the only number below the modulus that makes up for a multiple.
LEMMA Remainder ==
  ASSUME NEW m \in Nat \ {0}, NEW d \in Int, NEW r \in 0..(m - 1)
  PROVE  (m * d + r) % m = r
<1> DEFINE x == m * d + r
           q == x \div m
           t == x % m
<1>1. x \in Int
  BY ProductType
<1>2. q \in Int /\ t \in 0..(m - 1) /\ x = m * q + t
  BY <1>1, Division
<1>3. d - q \in Int /\ m * (d - q) = m * d - m * q
  BY <1>2
<1>4. m * d \in Int /\ m * q \in Int /\ m * (d - q) \in Int
  BY <1>2, <1>3, ProductType
<1> HIDE DEF q, t
<1> DEFINE y == m * d
           z == m * q
           v == m * (d - q)
<1>5. y \in Int /\ z \in Int /\ v = y - z /\ y + r = z + t /\ t \in Int
  BY <1>2, <1>3, <1>4
<1> HIDE DEF y, z, v
<1>6. v = t - r
  BY <1>5
<1>7. m * (d - q) = t - r
  BY <1>6 DEF v
<1>8. ~(d - q >= 1) /\ ~(d - q <= -1)
  <2>1. (d - q >= 1 => m * (d - q) >= m) /\ (d - q <= -1 => m * (d - q) <= -m)
    BY <1>3, ProductGrows
  <2> QED
    BY <1>2, <1>3, <1>7, <2>1
<1>9. d - q = 0
  BY <1>2, <1>8
<1>10. t = r
  BY <1>2, <1>7, <1>9
<1> QED
  BY <1>10 DEF t

\* What is stored of a multiple of the addresses and an address: another
\* multiple, whatever the address, and that address.
LEMMA WrapKeepsAddress ==
  ASSUME NEW q \in Int
  PROVE  \E e \in Int : \A r \in 0..(NADDR - 1) : Wrap(NADDR * q + r) = NADDR * e + r
<1> DEFINE D == 128 * NREGS * NREGS
           u == (q + D) % (2 * D)
           s == (q + D) \div (2 * D)
<1>1. D \in Nat \ {0} /\ NADDR \in Nat \ {0} /\ HALF = NADDR * D
  <2>1. NREGS * NREGS \in Nat \ {0} /\ NADDR \in Nat \ {0}
    BY FieldSizes, WordAssumption
  <2>2. D = 128 * (NREGS * NREGS)
    BY WordAssumption
  <2>3. HALF = NADDR * D
    BY WordAssumption DEF HALF
  <2> QED
    BY <2>1, <2>2, <2>3
<1> HIDE DEF D
<1>2. u \in 0..(2 * D - 1) /\ s \in Int /\ q + D = (2 * D) * s + u
  <2>1. 2 * D \in Nat \ {0} /\ q + D \in Int
    BY <1>1
  <2> QED
    BY <2>1, Division
<1> HIDE DEF u, s
<1>3. ASSUME NEW r \in 0..(NADDR - 1)
      PROVE  Wrap(NADDR * q + r) = NADDR * (u - D) + r
  <2>1. NADDR * q + r + HALF = NADDR * (q + D) + r
    BY <1>1
  <2>2. NADDR * (q + D) = (2 * HALF) * s + NADDR * u
    <3>1. NADDR * (q + D) = NADDR * ((2 * D) * s + u)
      BY <1>2
    <3>2. NADDR * ((2 * D) * s + u) = (2 * (NADDR * D)) * s + NADDR * u
      BY <1>1, <1>2
    <3> QED
      BY <1>1, <3>1, <3>2
  <2>3. NADDR * u \in Int /\ NADDR * u >= 0 /\ NADDR * u + r <= 2 * HALF - 1
    <3>1. NADDR * u \in Int /\ NADDR * u >= 0
      BY <1>1, <1>2
    <3>2. 2 * D - 1 - u \in Nat
      BY <1>1, <1>2
    <3>3. NADDR * (2 * D - 1 - u) \in Int /\ NADDR * (2 * D - 1 - u) >= 0
      BY <1>1, <3>2
    <3>4. NADDR * (2 * D - 1 - u) = 2 * (NADDR * D) - NADDR - NADDR * u
      BY <1>1, <1>2
    <3>5. HALF \in Int /\ NADDR \in Int
      BY FieldSizes
    <3> DEFINE v == NADDR * u
               w == NADDR * (2 * D - 1 - u)
    <3>6. v \in Int /\ w >= 0 /\ w = 2 * HALF - NADDR - v
      BY <1>1, <3>1, <3>3, <3>4
    <3> HIDE DEF v, w
    <3>7. v + r <= 2 * HALF - 1
      BY <3>5, <3>6
    <3> QED
      BY <3>1, <3>7 DEF v
  <2> DEFINE t == NADDR * u + r
  <2>4. t \in 0..(2 * HALF - 1) /\ 2 * HALF \in Nat \ {0} /\ HALF \in Nat
    BY <2>3, FieldSizes
  <2>5. (NADDR * q + r) + HALF = (2 * HALF) * s + t
    <3>1. (2 * HALF) * s \in Int /\ NADDR * q \in Int /\ NADDR * (q + D) \in Int
      BY <1>1, <1>2, <2>4, ProductType
    <3> DEFINE a == NADDR * q
               b == NADDR * (q + D)
               c == (2 * HALF) * s
               v == NADDR * u
    <3>2. a + r + HALF = b + r /\ b = c + v /\ a \in Int /\ b \in Int /\ c \in Int /\ v \in Int
      BY <2>1, <2>2, <2>3, <3>1
    <3> HIDE DEF a, b, c, v
    <3>3. (a + r) + HALF = c + (v + r)
      BY <2>4, <3>2
    <3> QED
      BY <3>3 DEF a, c, v
  <2> HIDE DEF t
  <2>6. ((2 * HALF) * s + t) % (2 * HALF) = t
    BY <1>2, <2>4, Remainder
  <2>7. Wrap(NADDR * q + r) = t - HALF
    BY <2>5, <2>6 DEF Wrap
  <2>8. NADDR * (u - D) = NADDR * u - HALF
    BY <1>1, <1>2
  <2>9. t - HALF = NADDR * (u - D) + r
    BY <2>3, <2>4, <2>8 DEF t
  <2> QED
    BY <2>7, <2>9
<1>4. u - D \in Int
  BY <1>1, <1>2
<1> QED
  BY <1>3, <1>4

\* An address put into a word replaces the one that is there.
LEMMA SetKeepsRest ==
  ASSUME NEW op \in Int, NEW a \in Int, NEW b \in Int, NEW c0 \in Int, NEW c \in Int
  PROVE  RBML_SET_ARG3(RBML_INST(op, a, b, c0), c) = RBML_INST(op, a, b, c)
<1> DEFINE q == (op % 256) * NREGS * NREGS + (a % NREGS) * NREGS + (b % NREGS)
           W(r) == Wrap(NADDR * q + r)
<1>1. q \in Int
  <2>1. op % 256 \in Int /\ a % NREGS \in Int /\ b % NREGS \in Int /\ NREGS \in Int
    BY FieldSizes
  <2> QED
    BY <2>1, ProductType
<1>2. \A x \in Int : RBML_INST(op, a, b, x) = W(x % NADDR) /\ x % NADDR \in 0..(NADDR - 1)
  <2> SUFFICES ASSUME NEW x \in Int
               PROVE  RBML_INST(op, a, b, x) = W(x % NADDR) /\ x % NADDR \in 0..(NADDR - 1)
    OBVIOUS
  <2>1. /\ op % 256 \in Int /\ a % NREGS \in Int /\ b % NREGS \in Int
        /\ NREGS \in Int /\ NADDR \in Int /\ x % NADDR \in 0..(NADDR - 1)
    BY FieldSizes
  <2> DEFINE o == op % 256
             g == a % NREGS
             h == b % NREGS
             r == x % NADDR
  <2>2. o \in Int /\ g \in Int /\ h \in Int /\ r \in Int
    BY <2>1
  <2> HIDE DEF o, g, h, r
  <2>3. o * NREGS * NREGS * NADDR + g * NREGS * NADDR + h * NADDR + r
          = NADDR * (o * NREGS * NREGS + g * NREGS + h) + r
    BY <2>1, <2>2
  <2> QED
    BY <2>1, <2>3 DEF RBML_INST, o, g, h, r
<1> HIDE DEF q
<1>3. PICK e \in Int : \A r \in 0..(NADDR - 1) : W(r) = NADDR * e + r
  BY <1>1, WrapKeepsAddress
<1> HIDE DEF W
<1>4. RBML_INST(op, a, b, c0) = NADDR * e + (c0 % NADDR) /\ c0 % NADDR \in 0..(NADDR - 1)
  BY <1>2, <1>3
<1>5. RBML_INST(op, a, b, c) = NADDR * e + (c % NADDR) /\ c % NADDR \in 0..(NADDR - 1)
  BY <1>2, <1>3
<1> DEFINE w == RBML_INST(op, a, b, c0)
           r0 == c0 % NADDR
           r1 == c % NADDR
           m == NADDR * e
<1>6. w = m + r0 /\ r0 \in Int /\ r1 \in Int /\ m \in Int
  BY <1>4, <1>5, FieldSizes, ProductType
<1>7. w % NADDR = r0
  BY <1>4, FieldSizes, Remainder
<1>8. RBML_SET_ARG3(w, c) = (w - r0) + r1
  BY <1>7 DEF RBML_SET_ARG3
<1> HIDE DEF w, r0, r1, m
<1>9. (w - r0) + r1 = m + r1
  BY <1>6
<1> QED
  BY <1>5, <1>8, <1>9 DEF w, m, r1

\* Patching the address of a word that refers to a name makes it the word with
\* that address.
LEMMA PatchedWord ==
  ASSUME NEW inst, IsInstruction(inst), RefersTo(inst) # {}, NEW a \in Int, NEW b \in Int
  PROVE  RBML_SET_ARG3(Encode(inst, a), b) = Encode(inst, b)
<1> DEFINE kind == inst[1].kind
<1>1. kind \in DOMAIN Operands /\ inst[1].value \in Int
  BY OperandsFacts DEF IsInstruction, IsToken
<1>2. PICK j \in DOMAIN inst : inst[j].kind = "IDENT"
  BY DEF RefersTo
<1>3. /\ Len(Operands[kind]) \in Nat /\ DOMAIN inst = 1..(1 + Len(Operands[kind]))
      /\ kind # "IDENT" /\ \A i \in 1..Len(Operands[kind]) : inst[i + 1].kind = Operands[kind][i]
  BY <1>1, OperandsFacts DEF IsInstruction
<1>4. j - 1 \in 1..Len(Operands[kind]) /\ (j - 1) + 1 = j
  <2>1. j # 1
    BY <1>2, <1>3
  <2> DEFINE n == Len(Operands[kind])
  <2>2. n \in Nat /\ j \in 1..(1 + n)
    BY <1>3
  <2> HIDE DEF n
  <2>3. j - 1 \in 1..n /\ (j - 1) + 1 = j
    BY <2>1, <2>2
  <2> QED
    BY <2>3 DEF n
<1>5. Operands[kind][j - 1] = "IDENT"
  BY <1>2, <1>3, <1>4
<1>6. kind \in {"INST1A", "INST2RA"}
  <2> DEFINE i == j - 1
  <2>1. i \in 1..Len(Operands[kind]) /\ Operands[kind][i] = "IDENT"
    BY <1>4, <1>5
  <2> HIDE DEF i
  <2>2. kind \notin {"WORD", "INST0", "INST1R"}
    BY <2>1 DEF Operands
  <2>3. kind \notin {"INST2RR", "INST2NR"}
    <3> SUFFICES ASSUME kind \in {"INST2RR", "INST2NR"} PROVE FALSE
      OBVIOUS
    <3>1. Operands[kind] \in {<<"REG", "COMMA", "REG">>, <<"NUMBER", "COMMA", "REG">>}
      BY DEF Operands
    <3>2. i \in {1, 2, 3}
      BY <2>1, <3>1
    <3>3. \A n \in {1, 2, 3} : Operands[kind][n] # "IDENT"
      BY <3>1
    <3> QED
      BY <2>1, <3>2, <3>3
  <2> QED
    BY <1>1, <2>2, <2>3 DEF Operands
<1>7. CASE kind = "INST1A"
  <2>1. \A x : Encode(inst, x) = RBML_INST(inst[1].value, 0, 0, x)
    BY <1>7 DEF Encode
  <2> QED
    BY <1>1, <2>1, SetKeepsRest, SMTT(30)
<1>8. CASE kind = "INST2RA"
  <2>1. Len(inst) >= 2 /\ inst[1 + 1].kind = "REG"
    BY <1>8 DEF IsInstruction, Operands
  <2>2. inst[2].kind = "REG" /\ IsToken(inst[2])
    BY <2>1 DEF IsInstruction
  <2>3. inst[2].value \in Int
    BY <2>2 DEF IsToken
  <2>4. \A x : Encode(inst, x) = RBML_INST(inst[1].value, inst[2].value, 0, x)
    BY <1>8 DEF Encode
  <2>5. \A op, r \in Int :
          RBML_SET_ARG3(RBML_INST(op, r, 0, a), b) = RBML_INST(op, r, 0, b)
    BY SetKeepsRest
  <2> QED
    BY <1>1, <2>3, <2>4, <2>5
<1> QED
  BY <1>6, <1>7, <1>8

-----------------------------------------------------------------------------
(* The state of the parser, and the token it looks at.                     *)

Here == LineNumber(source, next)
Last == LineNumber(source, Len(source) + 1)
Current == Line(source, Here)
Taken == TakenAt(source, next)

Reading == source \in Sources /\ next \in 1..(Len(source) + 1)

\* Every source is a file.
LEMMA SourcesAreFiles ==
  ASSUME NEW src \in Sources
  PROVE  IsFile(src)
<1> DEFINE S == {t \in {src[i] : i \in DOMAIN src} : IsToken(t)}
<1>1. src \in Seq(S)
  BY AssemblerAssumption
<1>2. \A t \in S : IsToken(t)
  OBVIOUS
<1> HIDE DEF S
<1>3. Len(src) \in Nat /\ DOMAIN src = 1..Len(src) /\ \A i \in 1..Len(src) : src[i] \in S
  BY <1>1, LenProperties
<1> QED
  BY <1>2, <1>3 DEF IsFile

\* The token looked at is that of the file, or its end.
LEMMA TokenIs ==
  ASSUME Reading
  PROVE  /\ IsFile(source) /\ Len(source) \in Nat /\ next \in Int
         /\ IF token.kind = "EOF" THEN AtEnd /\ next = Len(source) + 1
            ELSE /\ ~AtEnd /\ next \in 1..Len(source) /\ token = source[next] /\ IsToken(token)
                 /\ next + 1 \in 1..(Len(source) + 1)
<1>1. IsFile(source) /\ Len(source) \in Nat
  BY SourcesAreFiles DEF Reading, IsFile
<1>2. CASE AtEnd
  <2>1. token.kind = "EOF"
    BY <1>2 DEF token, Token
  <2>2. next = Len(source) + 1
    BY <1>1, <1>2 DEF AtEnd, Reading
  <2> QED
    BY <1>1, <1>2, <2>1, <2>2
<1>3. CASE ~AtEnd
  <2>1. token = source[next]
    BY <1>3 DEF token
  <2>2. next \in 1..Len(source) /\ next + 1 \in 1..(Len(source) + 1)
    BY <1>1, <1>3 DEF AtEnd, Reading
  <2>3. IsToken(source[next])
    BY <1>1, <2>2 DEF IsFile
  <2>4. token.kind # "EOF"
    BY <2>1, <2>3 DEF IsToken
  <2> QED
    BY <1>1, <1>3, <2>1, <2>2, <2>3, <2>4
<1> QED
  BY <1>2, <1>3

\* The line the parser is in.
LEMMA CurrentFacts ==
  ASSUME Reading
  PROVE  /\ Here \in DOMAIN Lines(source) /\ Lines(source)[Here] = Current
         /\ Here \in 1..Last /\ Last \in Nat
         /\ Taken \in 0..Len(Current) /\ Len(Current) \in Nat
         /\ Current \in Seq({source[j] : j \in DOMAIN source})
         /\ \A i \in 1..Len(Current) : IsToken(Current[i])
<1>1. IsFile(source)
  BY TokenIs
<1>2. Here \in DOMAIN Lines(source) /\ Taken \in 0..Len(Current)
  BY <1>1, PlaceFacts DEF Reading, Here, Taken, Current
<1>3. DOMAIN Lines(source) = 1..Last /\ Last \in Nat
  BY <1>1, LinesFacts DEF Last
<1>4. Lines(source)[Here] = Current
  BY <1>1, <1>2, LinesFacts DEF Current
<1> QED
  BY <1>1, <1>2, <1>3, <1>4, LineFacts DEF Current

\* A newline ends the line, and is counted when it has been looked at.
LEMMA LooksAtNewLine ==
  ASSUME Reading, token.kind = "NL"
  PROVE  /\ Taken = Len(Current) /\ line_num = Here + 1
         /\ LineNumber(source, next + 1) = Here + 1 /\ TakenAt(source, next + 1) = 0
BY TokenIs, AtNewLine DEF Taken, Current, Here, line_num

\* A character the scanner rejects spoils its line.
LEMMA LooksAtBadCharacter ==
  ASSUME Reading, token.kind = "BAD"
  PROVE  /\ line_num = Here /\ HasBadCharacter(source, Here)
         /\ LineNumber(source, next + 1) = Here /\ TakenAt(source, next + 1) = Taken
BY TokenIs, AtBadCharacter DEF Taken, Current, Here, line_num

\* The end of the file ends the last line.
LEMMA LooksAtEnd ==
  ASSUME Reading, token.kind = "EOF"
  PROVE  /\ Taken = Len(Current) /\ line_num = Here /\ Here = Last
<1>1. next = Len(source) + 1 /\ IsFile(source) /\ Len(source) \in Nat
  BY TokenIs
<1>2. Here = Last /\ Taken = Len(Current)
  BY <1>1, AtFileEnd DEF Here, Last, Taken, Current
<1>3. next \notin NewLines(source) /\ next \in Int
  BY <1>1 DEF NewLines, IsFile
<1>4. LineNumber(source, next + 1) = LineNumber(source, next)
  BY <1>1, <1>3, LineNumbers
<1> QED
  BY <1>2, <1>4 DEF line_num, Here

\* Any other token is the line's next.
LEMMA LooksAtOther ==
  ASSUME Reading, token.kind \notin {"NL", "BAD", "EOF"}
  PROVE  /\ line_num = Here /\ LineNumber(source, next + 1) = Here
         /\ TakenAt(source, next + 1) = Taken + 1
         /\ Taken + 1 <= Len(Current) /\ Current[Taken + 1] = token
BY TokenIs, AtOther DEF Taken, Current, Here, line_num

\* The number reported is that of a line of the file.
LEMMA LineNumIsLine ==
  ASSUME Reading
  PROVE  line_num \in 1..Last /\ (line_num = Here \/ (token.kind = "NL" /\ line_num = Here + 1))
<1>1. token.kind = "EOF" => line_num = Here
  BY LooksAtEnd
<1>2. token.kind # "EOF" => line_num \in 1..Last
  <2> SUFFICES ASSUME token.kind # "EOF" PROVE line_num \in 1..Last
    OBVIOUS
  <2>1. next + 1 \in 1..(Len(source) + 1) /\ IsFile(source)
    BY TokenIs
  <2>2. DOMAIN Lines(source) = 1..Last
    BY <2>1, LinesFacts DEF Last
  <2> QED
    BY <2>1, <2>2, PlaceFacts DEF line_num
<1>3. token.kind = "NL" \/ line_num = Here
  BY LooksAtEnd, LooksAtBadCharacter, LooksAtOther
<1>4. token.kind = "NL" => line_num = Here + 1
  BY LooksAtNewLine
<1> QED
  BY <1>1, <1>2, <1>3, <1>4, CurrentFacts

-----------------------------------------------------------------------------
(* The lines that give words, and the addresses of the labels.             *)

\* A line of the file.
LEMMA FileLine ==
  ASSUME NEW src, IsFile(src), NEW k \in DOMAIN Lines(src)
  PROVE  /\ k \in Nat /\ k >= 1 /\ k <= LineNumber(src, Len(src) + 1)
         /\ Lines(src)[k] = Line(src, k)
         /\ Lines(src)[k] \in Seq({src[j] : j \in DOMAIN src})
         /\ \A i \in 1..Len(Lines(src)[k]) : IsToken(Lines(src)[k][i])
<1>1. k \in 1..LineNumber(src, Len(src) + 1) /\ LineNumber(src, Len(src) + 1) \in Nat
  BY LinesFacts
<1>2. Lines(src)[k] = Line(src, k)
  BY LinesFacts
<1> QED
  BY <1>1, <1>2, LineFacts

\* The lines that give words are finitely many, and each has an instruction.
LEMMA GivingFacts ==
  ASSUME NEW src, IsFile(src)
  PROVE  /\ Giving(Lines(src)) \in SUBSET Int /\ IsFiniteSet(Giving(Lines(src)))
         /\ \A k \in Giving(Lines(src)) :
              /\ k \in DOMAIN Lines(src) /\ IsInstruction(InstructionOf(Lines(src)[k]))
              /\ WordsBefore(Lines(src), k) \in Nat
<1>1. DOMAIN Lines(src) = 1..LineNumber(src, Len(src) + 1) /\ LineNumber(src, Len(src) + 1) \in Nat
  BY LinesFacts
<1>2. Giving(Lines(src)) \in SUBSET (1..LineNumber(src, Len(src) + 1))
  BY <1>1 DEF Giving
<1>3. IsFiniteSet(1..LineNumber(src, Len(src) + 1))
  BY <1>1, FS_Interval
<1>4. IsFiniteSet(Giving(Lines(src)))
  BY <1>2, <1>3, FS_Subset
<1>5. ASSUME NEW k \in Giving(Lines(src))
      PROVE  /\ k \in DOMAIN Lines(src) /\ IsInstruction(InstructionOf(Lines(src)[k]))
             /\ WordsBefore(Lines(src), k) \in Nat
  <2>1. k \in DOMAIN Lines(src) /\ HasInstruction(Lines(src)[k])
    BY DEF Giving
  <2>2. IsInstruction(InstructionOf(Lines(src)[k]))
    BY <2>1, FileLine, InstructionFacts
  <2>3. WordsBefore(Lines(src), k) \in Nat
    <3> DEFINE G == Giving(Lines(src))
    <3>1. G \in SUBSET Int /\ IsFiniteSet(G)
      BY <1>1, <1>2, <1>4
    <3> HIDE DEF G
    <3>2. Before(G, k) \in Nat
      BY <3>1, BeforeType
    <3> QED
      BY <3>2 DEF WordsBefore, G
  <2> QED
    BY <2>1, <2>2, <2>3
<1> QED
  BY <1>2, <1>4, <1>5

\* A label stands for the words before the first line that has it.
LEMMA AddressIs ==
  ASSUME NEW src, IsFile(src), NEW k \in DOMAIN Lines(src),
         Labelled(Lines(src)[k]), ~Redefines(Lines(src), k)
  PROVE  Address(Lines(src), Label(Lines(src)[k])) = WordsBefore(Lines(src), k)
<1> DEFINE lines == Lines(src)
           name == Label(lines[k])
           First(j) == Labelled(lines[j]) /\ Label(lines[j]) = name /\ ~Redefines(lines, j)
<1>1. \A j \in DOMAIN lines : j \in Int /\ j >= 1
  BY FileLine
<1>2. First(k)
  OBVIOUS
<1>3. ASSUME NEW j \in DOMAIN lines, First(j) PROVE j = k
  <2>1. j < k => Redefines(lines, k)
    BY <1>1, <1>3 DEF Redefines
  <2>2. k < j => Redefines(lines, j)
    BY <1>1, <1>3 DEF Redefines
  <2> QED
    BY <1>1, <1>3, <2>1, <2>2
<1>4. (CHOOSE j \in DOMAIN lines : First(j)) = k
  <2> HIDE DEF First
  <2> QED
    BY <1>2, <1>3
<1> QED
  BY <1>4 DEF Address

\* Every address is a number.
LEMMA AddressType ==
  ASSUME NEW src, IsFile(src), NEW name
  PROVE  Address(Lines(src), name) \in Nat
BY GivingFacts, BeforeType DEF Address, WordsBefore

\* Two lines that give a word give different ones.
LEMMA WordsTell ==
  ASSUME NEW src, IsFile(src), NEW j \in Giving(Lines(src)), NEW k \in Giving(Lines(src)),
         WordsBefore(Lines(src), j) = WordsBefore(Lines(src), k)
  PROVE  j = k
BY GivingFacts, BeforeTells DEF WordsBefore

-----------------------------------------------------------------------------
(* The types of the parser's variables.                                    *)

\* An instruction that has been begun and lacks an operand.
Begun(inst) ==
  /\ Len(inst) \in Nat /\ Len(inst) >= 1 /\ inst[1].kind \in DOMAIN Operands
  /\ Len(inst) <= Len(Operands[inst[1].kind])
  /\ \A i \in 1..(Len(inst) - 1) : inst[i + 1].kind = Operands[inst[1].kind][i]

\* The tokens before the n-th.
Passed(src, n) == {src[j] : j \in 1..(n - 1)}

ParseTyped ==
  /\ Reading
  /\ mode \in {"line", "ident", "label", "operands", "end", "error"}
  /\ partial \in Seq(Passed(source, next))
  /\ mode = "ident" => Len(partial) = 1 /\ partial[1].kind = "IDENT"
  /\ mode = "operands" => Begun(partial)
  /\ errstatus \in 0..3

\* More tokens have been passed, and those are tokens.
LEMMA PassedFacts ==
  ASSUME Reading
  PROVE  /\ \A p \in Seq(Passed(source, next)) : \A i \in 1..Len(p) : IsToken(p[i])
         /\ token.kind # "EOF" =>
              /\ Passed(source, next) \subseteq Passed(source, next + 1)
              /\ token \in Passed(source, next + 1)
              /\ Seq(Passed(source, next)) \subseteq Seq(Passed(source, next + 1))
<1>1. IsFile(source) /\ next \in 1..(Len(source) + 1) /\ Len(source) \in Nat
  BY TokenIs DEF Reading
<1>2. ASSUME NEW t \in Passed(source, next) PROVE IsToken(t)
  <2>1. \A j \in 1..(next - 1) : j \in DOMAIN source
    BY <1>1 DEF IsFile
  <2> QED
    BY <1>1, <2>1 DEF IsFile, Passed
<1>3. \A p \in Seq(Passed(source, next)) : \A i \in 1..Len(p) : IsToken(p[i])
  <2> SUFFICES ASSUME NEW p \in Seq(Passed(source, next)), NEW i \in 1..Len(p)
               PROVE  IsToken(p[i])
    OBVIOUS
  <2>1. p[i] \in Passed(source, next)
    BY ElementOfSeq
  <2> QED
    BY <1>2, <2>1
<1>4. Passed(source, next) \subseteq Passed(source, next + 1)
  <2>1. (next + 1) - 1 = next
    BY <1>1
  <2>2. Passed(source, next + 1) = {source[i] : i \in 1..next}
    BY <2>1 DEF Passed
  <2>3. \A i \in 1..(next - 1) : i \in 1..next
    BY <1>1
  <2> QED
    BY <2>2, <2>3 DEF Passed
<1>5. ASSUME token.kind # "EOF" PROVE token \in Passed(source, next + 1)
  <2>1. token = source[next] /\ next \in 1..(next + 1 - 1)
    BY <1>1, <1>5, TokenIs
  <2> QED
    BY <2>1 DEF Passed
<1>6. Seq(Passed(source, next)) \subseteq Seq(Passed(source, next + 1))
  <2> SUFFICES ASSUME NEW p \in Seq(Passed(source, next)) PROVE p \in Seq(Passed(source, next + 1))
    OBVIOUS
  <2>1. p \in [1..Len(p) -> Passed(source, next)] /\ Len(p) \in Nat
    BY LenProperties
  <2>2. p \in [1..Len(p) -> Passed(source, next + 1)]
    BY <1>4, <2>1
  <2> QED
    BY <2>1, <2>2, SeqDef
<1> QED
  BY <1>3, <1>4, <1>5, <1>6

\* A token that needs no operand is an instruction; one that does begins one.
LEMMA FirstToken ==
  ASSUME NEW t, IsToken(t), t.kind \in DOMAIN Operands
  PROVE  IF Operands[t.kind] = <<>> THEN IsInstruction(<<t>>) ELSE Begun(<<t>>)
<1>1. Len(<<t>>) = 1 /\ <<t>>[1] = t /\ DOMAIN <<t>> = {1}
  OBVIOUS
<1>2. Len(Operands[t.kind]) \in Nat /\ (Operands[t.kind] # <<>> => Len(Operands[t.kind]) >= 1)
  BY OperandsFacts
<1>3. CASE Operands[t.kind] = <<>>
  <2>1. Len(Operands[t.kind]) = 0
    BY <1>3
  <2>2. <<t>> \in Seq({<<t>>[i] : i \in DOMAIN <<t>>})
    <3>1. {<<t>>[i] : i \in DOMAIN <<t>>} = {t}
      OBVIOUS
    <3>2. <<t>> \in Seq({t})
      OBVIOUS
    <3> QED
      BY <3>1, <3>2
  <2>3. \A i \in 1..Len(<<t>>) : <<t>>[i] = t
    OBVIOUS
  <2> QED
    BY <1>1, <1>3, <2>1, <2>2, <2>3 DEF IsInstruction
<1>4. CASE Operands[t.kind] # <<>>
  BY <1>1, <1>2, <1>4 DEF Begun
<1> QED
  BY <1>3, <1>4

\* The token expected next completes the instruction, or brings it on.
LEMMA NextToken ==
  ASSUME NEW S, NEW inst \in Seq(S), Begun(inst), \A i \in 1..Len(inst) : IsToken(inst[i]),
         NEW t \in S, IsToken(t), t.kind = Operands[inst[1].kind][Len(inst)]
  PROVE  /\ IF Len(inst) = Len(Operands[inst[1].kind]) THEN IsInstruction(Append(inst, t))
                                                       ELSE Begun(Append(inst, t))
         /\ Append(inst, t)[1] = inst[1]
<1> DEFINE new == Append(inst, t)
           kinds == Operands[inst[1].kind]
           n == Len(inst)
<1>1. /\ n \in Nat /\ n >= 1 /\ inst[1].kind \in DOMAIN Operands /\ n <= Len(kinds)
      /\ \A i \in 1..(n - 1) : inst[i + 1].kind = kinds[i]
  BY DEF Begun
<1>2. Len(kinds) \in Nat
  BY <1>1, OperandsFacts
<1>3. /\ new \in Seq(S) /\ Len(new) = n + 1 /\ new[n + 1] = t
      /\ \A i \in 1..n : new[i] = inst[i]
  BY AppendProperties
<1> HIDE DEF new, kinds, n
<1>4. new[1] = inst[1]
  BY <1>1, <1>3
<1>5. \A i \in 1..n : new[i + 1].kind = kinds[i]
  <2> SUFFICES ASSUME NEW i \in 1..n PROVE new[i + 1].kind = kinds[i]
    OBVIOUS
  <2>1. CASE i = n
    BY <1>3, <2>1 DEF kinds, n
  <2>2. CASE i # n
    <3>1. i \in 1..(n - 1) /\ i + 1 \in 1..n
      BY <1>1, <2>2
    <3> QED
      BY <1>1, <1>3, <3>1
  <2> QED
    BY <2>1, <2>2
<1>6. \A i \in 1..(n + 1) : IsToken(new[i])
  <2> SUFFICES ASSUME NEW i \in 1..(n + 1) PROVE IsToken(new[i])
    OBVIOUS
  <2>1. i \in 1..n \/ i = n + 1
    BY <1>1
  <2> QED
    BY <1>3, <2>1 DEF n
<1>7. CASE n = Len(kinds)
  <2>1. new \in Seq({new[i] : i \in DOMAIN new})
    <3> DEFINE T == {new[i] : i \in DOMAIN new}
    <3>1. DOMAIN new = 1..(n + 1) /\ new = [i \in 1..(n + 1) |-> new[i]] /\ n + 1 \in Nat
      BY <1>1, <1>3, LenProperties
    <3>2. \A i \in 1..(n + 1) : new[i] \in T
      BY <3>1
    <3> HIDE DEF T
    <3>3. new \in [1..(n + 1) -> T]
      BY <3>1, <3>2
    <3>4. new \in Seq(T)
      BY <3>1, <3>3, SeqDef
    <3> QED
      BY <3>4 DEF T
  <2>2. Len(new) \in Nat /\ Len(new) >= 1 /\ Len(new) = 1 + Len(kinds)
    BY <1>1, <1>2, <1>3, <1>7
  <2>3. IsInstruction(new)
    BY <1>1, <1>3, <1>4, <1>5, <1>6, <1>7, <2>1, <2>2 DEF IsInstruction, kinds
  <2> QED
    BY <1>4, <1>7, <2>3 DEF new, kinds, n
<1>8. CASE n # Len(kinds)
  <2>1. Len(new) \in Nat /\ Len(new) >= 1 /\ Len(new) <= Len(kinds) /\ Len(new) - 1 = n
    BY <1>1, <1>2, <1>3, <1>8
  <2>2. Begun(new)
    BY <1>1, <1>4, <1>5, <2>1 DEF Begun, kinds
  <2> QED
    BY <1>4, <1>8, <2>2 DEF new, kinds, n
<1> QED
  BY <1>7, <1>8

\* Accepting a token keeps the types.
LEMMA ShiftKeepsTypes ==
  ASSUME NEW to, NEW kept, ParseTyped, token.kind # "EOF", UNCHANGED source, Shift(to, kept),
         to \in {"line", "ident", "label", "operands", "end"},
         kept \in Seq(Passed(source, next + 1)),
         to = "ident" => Len(kept) = 1 /\ kept[1].kind = "IDENT",
         to = "operands" => Begun(kept)
  PROVE  ParseTyped'
<1>1. next + 1 \in 1..(Len(source) + 1)
  BY TokenIs DEF ParseTyped
<1>2. /\ next' = next + 1 /\ mode' = to /\ partial' = kept
      /\ errstatus' = IF errstatus > 0 THEN errstatus - 1 ELSE 0
  BY DEF Shift
<1>3. errstatus' \in 0..3
  BY <1>2 DEF ParseTyped
<1>4. Reading'
  BY <1>1, <1>2 DEF ParseTyped, Reading
<1> QED
  BY <1>2, <1>3, <1>4 DEF ParseTyped, Begun

\* Nor does a step that looks at no token.
LEMMA StandingKeepsTypes ==
  ASSUME ParseTyped, UNCHANGED <<source, parse>>
  PROVE  ParseTyped'
BY DEF ParseTyped, Reading, Begun, parse

\* An instruction step ends the instruction or goes on with it.
LEMMA InstructionStep ==
  ASSUME ParseTyped, Instruction \/ Operand
  PROVE  \E inst \in Seq(Passed(source, next + 1)) :
           /\ inst[1].kind \in DOMAIN Operands /\ Len(inst) \in Nat
           /\ IF mode = "operands" THEN /\ inst = Append(partial, token)
                                        /\ token.kind = Expected
                                        /\ Len(inst) = Len(partial) + 1
                                        /\ inst[1] = partial[1]
                                   ELSE mode \in {"line", "label"} /\ inst = <<token>>
           /\ token.kind \notin {"NL", "EOF", "BAD", "COLON"}
           /\ inst[Len(inst)] = token
           /\ \/ Completes /\ IsInstruction(inst) /\ Complete(inst)
              \/ Begun(inst) /\ Shift("operands", inst) /\ UNCHANGED code
<1>1. CASE Instruction
  <2>1. /\ mode \in {"line", "label"} /\ token.kind \in DOMAIN Operands
        /\ IF Completes THEN Complete(<<token>>)
                        ELSE Shift("operands", <<token>>) /\ UNCHANGED code
    BY <1>1 DEF Instruction
  <2>2. token.kind \notin {"NL", "EOF", "BAD", "COLON"}
    BY <2>1, OperandsFacts DEF Operands
  <2>3. Completes <=> Operands[token.kind] = <<>>
    BY <2>1 DEF Completes
  <2>4. IsToken(token) /\ token \in Passed(source, next + 1)
    BY <2>2, TokenIs, PassedFacts DEF ParseTyped
  <2>5. <<token>> \in Seq(Passed(source, next + 1)) /\ Len(<<token>>) = 1 /\ <<token>>[1] = token
    BY <2>4
  <2>6. IF Operands[token.kind] = <<>> THEN IsInstruction(<<token>>) ELSE Begun(<<token>>)
    BY <2>1, <2>4, FirstToken
  <2>7. \/ Completes /\ IsInstruction(<<token>>) /\ Complete(<<token>>)
        \/ Begun(<<token>>) /\ Shift("operands", <<token>>) /\ UNCHANGED code
    BY <2>1, <2>3, <2>6
  <2> DEFINE inst == <<token>>
  <2>8. /\ inst[1].kind \in DOMAIN Operands /\ inst[Len(inst)] = token /\ Len(inst) \in Nat
        /\ inst \in Seq(Passed(source, next + 1))
        /\ mode # "operands" /\ mode \in {"line", "label"} /\ inst = <<token>>
        /\ \/ Completes /\ IsInstruction(inst) /\ Complete(inst)
           \/ Begun(inst) /\ Shift("operands", inst) /\ UNCHANGED code
    BY <2>1, <2>5, <2>7
  <2> HIDE DEF inst
  <2> QED
    BY <2>2, <2>8
<1>2. CASE Operand
  <2>1. /\ mode = "operands" /\ token.kind = Expected
        /\ IF Completes THEN Complete(Append(partial, token))
                        ELSE Shift("operands", Append(partial, token)) /\ UNCHANGED code
    BY <1>2 DEF Operand
  <2>2. Begun(partial) /\ partial \in Seq(Passed(source, next)) /\ Reading
    BY <2>1 DEF ParseTyped
  <2>3. /\ partial[1].kind \in DOMAIN Operands /\ Len(partial) \in 1..Len(Operands[partial[1].kind])
        /\ Len(partial) \in Nat
    BY <2>2, OperandsFacts DEF Begun
  <2>4. Expected \notin {"NL", "EOF", "BAD", "COLON"}
    BY <2>3, OperandsFacts DEF Expected
  <2>5. /\ IsToken(token) /\ token \in Passed(source, next + 1)
        /\ partial \in Seq(Passed(source, next + 1))
        /\ \A i \in 1..Len(partial) : IsToken(partial[i])
    BY <2>1, <2>2, <2>4, TokenIs, PassedFacts
  <2> DEFINE inst == Append(partial, token)
  <2>6. /\ IF Len(partial) = Len(Operands[partial[1].kind]) THEN IsInstruction(inst)
                                                            ELSE Begun(inst)
        /\ inst[1] = partial[1]
    BY <2>1, <2>2, <2>5, NextToken DEF Expected
  <2>7. Completes <=> Len(partial) = Len(Operands[partial[1].kind])
    BY <2>1 DEF Completes, Expected
  <2>8. /\ inst \in Seq(Passed(source, next + 1)) /\ Len(inst) = Len(partial) + 1
        /\ inst[Len(partial) + 1] = token
    BY <2>5, AppendProperties
  <2>9. /\ Len(inst) \in Nat /\ inst[Len(inst)] = token /\ inst = Append(partial, token)
        /\ \/ Completes /\ IsInstruction(inst) /\ Complete(inst)
           \/ Begun(inst) /\ Shift("operands", inst) /\ UNCHANGED code
    BY <2>1, <2>3, <2>6, <2>7, <2>8
  <2> HIDE DEF inst
  <2> QED
    BY <2>1, <2>3, <2>4, <2>6, <2>8, <2>9
<1> QED
  BY <1>1, <1>2

\* Every step keeps the types of the parser's own variables.
LEMMA ParseKeepsTypes ==
  ASSUME ParseTyped, Parse
  PROVE  ParseTyped'
<1>1. CASE BadCharacter \/ Discard
  <2>1. token.kind # "EOF" /\ next' = next + 1 /\ UNCHANGED <<source, mode, partial, errstatus>>
    BY <1>1 DEF BadCharacter, Discard, Looking
  <2>2. Reading' /\ partial \in Seq(Passed(source, next + 1))
    BY <2>1, TokenIs, PassedFacts DEF ParseTyped, Reading
  <2> QED
    BY <2>1, <2>2 DEF ParseTyped, Begun
<1>2. CASE NewLine \/ NewLabel \/ ReferencedLabel
  <2>1. /\ UNCHANGED source /\ token.kind # "EOF"
        /\ Shift("line", <<>>) \/ Shift("label", <<>>)
    BY <1>2 DEF NewLine, NewLabel, ReferencedLabel, Looking
  <2>2. <<>> \in Seq(Passed(source, next + 1))
    OBVIOUS
  <2> QED
    BY <2>1, <2>2, ShiftKeepsTypes
<1>3. CASE Ident
  <2>1. UNCHANGED source /\ token.kind = "IDENT" /\ Shift("ident", <<token>>)
    BY <1>3 DEF Ident, Looking
  <2>2. /\ <<token>> \in Seq(Passed(source, next + 1))
        /\ Len(<<token>>) = 1 /\ <<token>>[1].kind = "IDENT"
    BY <2>1, PassedFacts DEF ParseTyped
  <2> QED
    BY <2>1, <2>2, ShiftKeepsTypes
<1>4. CASE DuplicateLabel
  <2>1. /\ UNCHANGED source /\ token.kind # "EOF" /\ next' = next + 1
        /\ errstatus' = 3 /\ mode' = "error" /\ partial' = <<>>
    BY <1>4 DEF DuplicateLabel, Looking
  <2>2. Reading'
    BY <2>1, TokenIs DEF ParseTyped, Reading
  <2> QED
    BY <2>1, <2>2 DEF ParseTyped
<1>5. CASE Instruction \/ Operand
  <2>1. PICK inst \in Seq(Passed(source, next + 1)) :
           /\ token.kind \notin {"NL", "EOF", "BAD", "COLON"}
           /\ Complete(inst) \/ (Begun(inst) /\ Shift("operands", inst))
    BY <1>5, InstructionStep
  <2>2. UNCHANGED source
    BY <1>5 DEF Instruction, Operand, Looking
  <2>3. <<>> \in Seq(Passed(source, next + 1))
    OBVIOUS
  <2>4. CASE Complete(inst)
    BY <2>1, <2>2, <2>3, <2>4, ShiftKeepsTypes DEF Complete
  <2>5. CASE Begun(inst) /\ Shift("operands", inst)
    BY <2>1, <2>2, <2>5, ShiftKeepsTypes
  <2> QED
    BY <2>1, <2>4, <2>5
<1>6. CASE Unexpected
  <2>1. /\ UNCHANGED <<source, next>> /\ errstatus' = 3 /\ mode' = "error" /\ partial' = <<>>
    BY <1>6 DEF Unexpected, SyntaxError, Recover, Looking
  <2> QED
    BY <2>1 DEF ParseTyped, Reading
<1>7. CASE Accept \/ RunOutOfMemory \/ LostName
  BY <1>7, StandingKeepsTypes DEF Accept, RunOutOfMemory, LostName, Looking
<1> QED
  BY <1>1, <1>2, <1>3, <1>4, <1>5, <1>6, <1>7 DEF Parse

-----------------------------------------------------------------------------
(* The types of the text and of the symbols.                               *)

RefType(n) == [line_num : Nat, offset : 0..n]
SymbolType(n) == [line_num : Nat, offset : 0..n, refs : SUBSET RefType(n)]
SymbolsTyped(table, n) == \A name \in DOMAIN table : table[name] \in SymbolType(n)

CodeTyped == text \in Seq(Word) /\ SymbolsTyped(symbol_table, Len(text))

\* A symbol keeps its type as the text grows.
LEMMA SymbolsStayTyped ==
  ASSUME NEW table, NEW n \in Nat, SymbolsTyped(table, n)
  PROVE  SymbolsTyped(table, n + 1)
<1>1. 0..n \subseteq 0..(n + 1)
  OBVIOUS
<1>2. RefType(n) \subseteq RefType(n + 1)
  BY <1>1 DEF RefType
<1>3. SymbolType(n) \subseteq SymbolType(n + 1)
  BY <1>1, <1>2 DEF SymbolType
<1> QED
  BY <1>3 DEF SymbolsTyped

\* A name that is added gets a symbol.
LEMMA AddKeepsSymbols ==
  ASSUME NEW table, NEW name, NEW ln \in Nat, NEW n \in Nat, n = Len(text), SymbolsTyped(table, n)
  PROVE  SymbolsTyped(code_symbol_add(table, name, ln), n)
<1>1. [line_num |-> ln, offset |-> n, refs |-> {}] \in SymbolType(n)
  <2>1. n \in 0..n /\ {} \in SUBSET RefType(n)
    OBVIOUS
  <2> QED
    BY <2>1 DEF SymbolType
<1> QED
  BY <1>1 DEF SymbolsTyped, code_symbol_add

\* A name that is referred to has a symbol, with a reference to the next word
\* if the name has not been defined.
LEMMA RefKeepsSymbols ==
  ASSUME NEW table, NEW name, NEW n \in Nat, n = Len(text), SymbolsTyped(table, n), line_num \in Nat
  PROVE  /\ SymbolsTyped(code_symbol_ref(table, name), n)
         /\ name \in DOMAIN code_symbol_ref(table, name)
<1> DEFINE seen == IF name \in DOMAIN table THEN table ELSE code_symbol_add(table, name, 0)
           ref == [line_num |-> line_num, offset |-> n]
           noted == [seen EXCEPT ![name].refs = @ \cup {ref}]
<1>1. SymbolsTyped(seen, n)
  BY AddKeepsSymbols
<1>2. name \in DOMAIN seen
  BY DEF code_symbol_add
<1>3. code_symbol_ref(table, name) = IF seen[name].line_num = 0 THEN noted ELSE seen
  BY DEF code_symbol_ref
<1>4. ref \in RefType(n)
  BY DEF RefType
<1> HIDE DEF seen, ref
<1>5. seen[name] \in SymbolType(n)
  BY <1>1, <1>2 DEF SymbolsTyped
<1> DEFINE changed == [seen[name] EXCEPT !.refs = @ \cup {ref}]
<1>6. changed \in SymbolType(n)
  BY <1>4, <1>5 DEF SymbolType
<1>7. noted = [seen EXCEPT ![name] = changed]
  BY <1>2
<1>8. DOMAIN noted = DOMAIN seen
  OBVIOUS
<1>9. SymbolsTyped(noted, n)
  <2> HIDE DEF changed
  <2> QED
    BY <1>1, <1>2, <1>6, <1>7 DEF SymbolsTyped
<1> QED
  BY <1>1, <1>2, <1>3, <1>8, <1>9

\* An address put into a word leaves a word.
LEMMA SetIsWord ==
  ASSUME NEW w \in Word, NEW a \in Int
  PROVE  RBML_SET_ARG3(w, a) \in Word
<1> DEFINE D == 128 * NREGS * NREGS
           q == w \div NADDR
           t == w % NADDR
           r == a % NADDR
<1>1. D \in Nat \ {0} /\ NADDR \in Nat \ {0} /\ HALF = NADDR * D
  <2>1. NREGS * NREGS \in Nat \ {0} /\ NADDR \in Nat \ {0}
    BY FieldSizes, WordAssumption
  <2>2. D = 128 * (NREGS * NREGS)
    BY WordAssumption
  <2>3. HALF = NADDR * D
    BY WordAssumption DEF HALF
  <2> QED
    BY <2>1, <2>2, <2>3
<1> HIDE DEF D
<1>2. w \in Int /\ -HALF <= w /\ w <= HALF - 1 /\ HALF \in Int
  BY FieldSizes DEF Word, RBML_WORD_MIN, RBML_WORD_MAX
<1>3. q \in Int /\ t \in 0..(NADDR - 1) /\ w = NADDR * q + t /\ r \in 0..(NADDR - 1)
  BY <1>1, <1>2, Division
<1>4. RBML_SET_ARG3(w, a) = (w - t) + r
  BY DEF RBML_SET_ARG3
<1> HIDE DEF q, t, r
<1> DEFINE x == NADDR * q
           up == NADDR * (q + D)
           down == NADDR * (q - D)
<1>5. x \in Int /\ up = x + HALF /\ down = x - HALF /\ up \in Int /\ down \in Int
  BY <1>1, <1>3
<1>6. /\ q + D <= -1 => up <= -NADDR
      /\ q - D >= 1 => down >= NADDR
      /\ q - D <= -1 => down <= -NADDR
      /\ q + D >= 1 => up >= NADDR
      /\ q + D \in Int /\ q - D \in Int
  BY <1>1, <1>3, ProductGrows
<1>7. (q + D = 0 => up = 0) /\ (q - D = 0 => down = 0)
  BY <1>1
<1>8. w = x + t
  BY <1>3
<1> HIDE DEF x, up, down
<1>9. up >= 0
  <2>1. up > -NADDR
    BY <1>1, <1>2, <1>3, <1>5, <1>8
  <2>2. ~(q + D <= -1)
    BY <1>1, <1>5, <1>6, <2>1
  <2> QED
    BY <1>1, <1>5, <1>6, <1>7, <2>2
<1>10. down <= -NADDR
  <2>1. down < 0
    BY <1>1, <1>2, <1>3, <1>5, <1>8
  <2>2. ~(q - D >= 1) /\ ~(q - D = 0)
    BY <1>1, <1>5, <1>6, <1>7, <2>1
  <2> QED
    BY <1>6, <2>2
<1>11. (w - t) + r = x + r /\ -HALF <= x + r /\ x + r <= HALF - 1 /\ x + r \in Int
  BY <1>1, <1>2, <1>3, <1>5, <1>8, <1>9, <1>10
<1> QED
  BY <1>2, <1>4, <1>11 DEF Word, RBML_WORD_MIN, RBML_WORD_MAX

\* Patching leaves words, and as many.
LEMMA PatchedIsText ==
  ASSUME NEW refs, text \in Seq(Word)
  PROVE  /\ Patched(refs) \in Seq(Word) /\ Len(Patched(refs)) = Len(text)
         /\ \A i \in 1..Len(text) :
              Patched(refs)[i] = IF \E ref \in refs : ref.offset = i - 1
                                 THEN RBML_SET_ARG3(text[i], Len(text)) ELSE text[i]
<1>1. Len(text) \in Nat /\ DOMAIN text = 1..Len(text) /\ \A i \in 1..Len(text) : text[i] \in Word
  BY LenProperties
<1>2. \A i \in 1..Len(text) : RBML_SET_ARG3(text[i], Len(text)) \in Word
  BY <1>1, SetIsWord
<1> DEFINE p == Patched(refs)
<1>3. p = [i \in 1..Len(text) |-> IF \E ref \in refs : ref.offset = i - 1
                                  THEN RBML_SET_ARG3(text[i], Len(text)) ELSE text[i]]
  BY <1>1 DEF Patched
<1>4. p \in [1..Len(text) -> Word]
  BY <1>1, <1>2, <1>3
<1>5. p \in Seq(Word) /\ Len(p) = Len(text)
  <2> HIDE DEF p
  <2> QED
    BY <1>1, <1>4, SeqDef, LenProperties
<1> QED
  BY <1>3, <1>5

\* A complete instruction adds a word, and a symbol at most.
LEMMA CompleteKeepsCode ==
  ASSUME NEW inst, Reading, CodeTyped, IsInstruction(inst), Complete(inst)
  PROVE  CodeTyped'
<1> DEFINE n == Len(text)
<1>1. n \in Nat /\ line_num \in Nat
  BY LineNumIsLine, CurrentFacts DEF CodeTyped
<1>2. SymbolsTyped(symbol_table', n)
  BY <1>1, RefKeepsSymbols DEF Complete, CodeTyped
<1>3. RefersTo(inst) # {} => symbol_table'[TheName(inst)].offset \in Int
  <2> SUFFICES ASSUME RefersTo(inst) # {} PROVE symbol_table'[TheName(inst)].offset \in Int
    OBVIOUS
  <2>1. TheName(inst) \in DOMAIN symbol_table'
    BY <1>1, RefKeepsSymbols DEF Complete, CodeTyped
  <2>2. symbol_table'[TheName(inst)] \in SymbolType(n)
    BY <1>2, <2>1 DEF SymbolsTyped
  <2> QED
    BY <1>1, <2>2 DEF SymbolType
<1> DEFINE a == IF RefersTo(inst) = {} THEN 0 ELSE symbol_table'[TheName(inst)].offset
<1>4. a \in Int
  BY <1>3
<1>5. code_emit(Encode(inst, a))
  BY DEF Complete
<1> HIDE DEF a
<1>6. text' = Append(text, Encode(inst, a)) /\ Encode(inst, a) \in Word
  BY <1>4, <1>5, EncodeIsWord DEF code_emit
<1>7. text' \in Seq(Word) /\ Len(text') = n + 1
  BY <1>6, AppendProperties DEF CodeTyped
<1>8. SymbolsTyped(symbol_table', n + 1)
  BY <1>1, <1>2, SymbolsStayTyped
<1> QED
  BY <1>7, <1>8 DEF CodeTyped

\* Every step keeps the types of the text and of the symbols.
LEMMA ParseKeepsCode ==
  ASSUME ParseTyped, CodeTyped, Parse
  PROVE  CodeTyped'
<1>1. Len(text) \in Nat /\ line_num \in Nat /\ Reading
  BY LineNumIsLine, CurrentFacts DEF CodeTyped, ParseTyped
<1>2. UNCHANGED code => CodeTyped'
  BY DEF CodeTyped, code
<1>3. CASE Instruction \/ Operand
  <2>1. PICK inst : UNCHANGED code \/ (IsInstruction(inst) /\ Complete(inst))
    BY <1>3, InstructionStep
  <2> QED
    BY <1>1, <1>2, <2>1, CompleteKeepsCode
<1>4. CASE NewLabel
  <2>1. /\ symbol_table' = code_symbol_add(symbol_table, partial[1].value, line_num)
        /\ UNCHANGED text
    BY <1>4 DEF NewLabel
  <2> QED
    BY <1>1, <2>1, AddKeepsSymbols DEF CodeTyped
<1>5. CASE ReferencedLabel
  <2> DEFINE name == partial[1].value
             defined == [line_num |-> line_num, offset |-> Len(text), refs |-> {}]
  <2>1. CASE /\ text' = Patched(symbol_table[name].refs)
             /\ symbol_table' = [symbol_table EXCEPT ![name] = defined]
    <3>1. text' \in Seq(Word) /\ Len(text') = Len(text)
      BY <2>1, PatchedIsText DEF CodeTyped
    <3>2. defined \in SymbolType(Len(text))
      <4>1. Len(text) \in 0..Len(text) /\ {} \in SUBSET RefType(Len(text))
        BY <1>1
      <4> QED
        BY <1>1, <4>1 DEF SymbolType
    <3>3. SymbolsTyped(symbol_table', Len(text))
      <4> HIDE DEF defined
      <4> QED
        BY <2>1, <3>2 DEF CodeTyped, SymbolsTyped
    <3> QED
      BY <3>1, <3>3 DEF CodeTyped
  <2>2. CASE UNCHANGED <<text, symbol_table>>
    BY <2>2 DEF CodeTyped
  <2> QED
    BY <1>5, <2>1, <2>2 DEF ReferencedLabel
<1>6. CASE BadCharacter \/ Discard \/ NewLine \/ Accept \/ Ident
  BY <1>2, <1>6 DEF BadCharacter, Discard, NewLine, Accept, Ident
<1>7. CASE DuplicateLabel \/ Unexpected \/ RunOutOfMemory \/ LostName
  BY <1>2, <1>7 DEF DuplicateLabel, Unexpected, SyntaxError, RunOutOfMemory, LostName
<1> QED
  BY <1>3, <1>4, <1>5, <1>6, <1>7 DEF Parse

-----------------------------------------------------------------------------
(* What the tokens of a line say of it.                                    *)

\* A body whose first token begins no instruction has none.
LEMMA NoInstruction ==
  ASSUME NEW S, NEW ln \in Seq(S), Len(ln) >= Skip(ln) + 1,
         ln[Skip(ln) + 1].kind \notin DOMAIN Operands
  PROVE  Body(ln) # <<>> /\ ~HasInstruction(ln)
<1>1. /\ Len(ln) \in Nat /\ Skip(ln) \in {0, 2} /\ Len(Body(ln)) = Len(ln) - Skip(ln)
      /\ \A i \in 1..Len(Body(ln)) : Body(ln)[i] = ln[Skip(ln) + i]
      /\ Body(ln) = <<>> <=> Len(ln) = Skip(ln)
  BY BodyFacts
<1>2. 1 \in 1..Len(Body(ln))
  BY <1>1
<1>3. Body(ln)[1] = ln[Skip(ln) + 1] /\ Body(ln) # <<>>
  BY <1>1, <1>2
<1> QED
  BY <1>3 DEF HasInstruction

\* A body that breaks off within an instruction has none.
LEMMA BrokenInstruction ==
  ASSUME NEW S, NEW ln \in Seq(S), NEW inst, Begun(inst), Skip(ln) + Len(inst) <= Len(ln),
         \A i \in 1..Len(inst) : inst[i] = ln[Skip(ln) + i],
         \/ Len(ln) = Skip(ln) + Len(inst)
         \/ ln[Skip(ln) + Len(inst) + 1].kind # Operands[inst[1].kind][Len(inst)]
  PROVE  Body(ln) # <<>> /\ ~HasInstruction(ln)
<1> DEFINE B == Body(ln)
           n == Len(inst)
           kinds == Operands[inst[1].kind]
<1>1. /\ Len(ln) \in Nat /\ Skip(ln) \in {0, 2} /\ Len(B) = Len(ln) - Skip(ln)
      /\ \A i \in 1..Len(B) : B[i] = ln[Skip(ln) + i]
      /\ B = <<>> <=> Len(ln) = Skip(ln)
  BY BodyFacts
<1>2. n \in Nat /\ n >= 1 /\ inst[1].kind \in DOMAIN Operands /\ n <= Len(kinds)
  BY DEF Begun
<1>3. Len(kinds) \in Nat /\ DOMAIN kinds = 1..Len(kinds)
  BY <1>2, OperandsFacts
<1>4. HasInstruction(ln) => /\ Len(B) > Len(Operands[B[1].kind])
                            /\ \A i \in DOMAIN Operands[B[1].kind] :
                                 B[i + 1].kind = Operands[B[1].kind][i]
  BY DEF HasInstruction
<1>5. Skip(ln) + n <= Len(ln) /\ \A i \in 1..n : inst[i] = ln[Skip(ln) + i]
  OBVIOUS
<1>6. Len(ln) = Skip(ln) + n \/ ln[Skip(ln) + n + 1].kind # kinds[n]
  OBVIOUS
<1> HIDE DEF B, n
<1>7. 1 \in 1..n /\ 1 \in 1..Len(B) /\ B # <<>>
  BY <1>1, <1>2, <1>5
<1>8. B[1] = inst[1]
  BY <1>1, <1>5, <1>7
<1>9. ~HasInstruction(ln)
  <2> SUFFICES ASSUME HasInstruction(ln) PROVE FALSE
    OBVIOUS
  <2>1. Len(B) > Len(kinds) /\ \A i \in DOMAIN kinds : B[i + 1].kind = kinds[i]
    BY <1>4, <1>8
  <2> HIDE DEF kinds
  <2>2. n \in DOMAIN kinds /\ n + 1 \in 1..Len(B) /\ Len(ln) # Skip(ln) + n
    BY <1>1, <1>2, <1>3, <2>1
  <2>3. B[n + 1] = ln[Skip(ln) + (n + 1)] /\ Skip(ln) + (n + 1) = Skip(ln) + n + 1
    BY <1>1, <1>2, <2>2
  <2> QED
    BY <1>6, <2>1, <2>2, <2>3
<1> QED
  BY <1>7, <1>9 DEF B

\* A body that begins with an instruction has that one.
LEMMA WholeInstruction ==
  ASSUME NEW S, NEW ln \in Seq(S), NEW T, NEW inst \in Seq(T), IsInstruction(inst),
         Skip(ln) + Len(inst) <= Len(ln),
         \A i \in 1..Len(inst) : inst[i] = ln[Skip(ln) + i]
  PROVE  HasInstruction(ln) /\ InstructionOf(ln) = inst
<1> DEFINE B == Body(ln)
           n == Len(inst)
           kinds == Operands[inst[1].kind]
<1>1. /\ Len(ln) \in Nat /\ Skip(ln) \in {0, 2} /\ Len(B) = Len(ln) - Skip(ln)
      /\ \A i \in 1..Len(B) : B[i] = ln[Skip(ln) + i]
      /\ B = <<>> <=> Len(ln) = Skip(ln)
      /\ B \in Seq(S)
  BY BodyFacts
<1>2. /\ n \in Nat /\ n >= 1 /\ inst[1].kind \in DOMAIN Operands /\ n = 1 + Len(kinds)
      /\ \A i \in 1..Len(kinds) : inst[i + 1].kind = kinds[i]
  BY DEF IsInstruction
<1>3. Len(kinds) \in Nat /\ DOMAIN kinds = 1..Len(kinds)
  BY <1>2, OperandsFacts
<1>4. Skip(ln) + n <= Len(ln) /\ \A i \in 1..n : inst[i] = ln[Skip(ln) + i]
  OBVIOUS
<1>5. HasInstruction(ln) <=> /\ B # <<>> /\ B[1].kind \in DOMAIN Operands
                             /\ Len(B) > Len(Operands[B[1].kind])
                             /\ \A i \in DOMAIN Operands[B[1].kind] :
                                  B[i + 1].kind = Operands[B[1].kind][i]
  BY DEF HasInstruction
<1>6. InstructionOf(ln) = SubSeq(B, 1, 1 + Len(Operands[B[1].kind]))
  BY DEF InstructionOf
<1> HIDE DEF B
<1>7. n <= Len(B) /\ Len(B) \in Nat
  BY <1>1, <1>2, <1>4
<1>8. \A i \in 1..n : inst[i] = B[i]
  <2> SUFFICES ASSUME NEW i \in 1..n PROVE inst[i] = B[i]
    OBVIOUS
  <2>1. i \in 1..Len(B)
    BY <1>2, <1>7
  <2> QED
    BY <1>1, <1>4, <2>1
<1>9. B[1] = inst[1] /\ B # <<>>
  BY <1>1, <1>2, <1>4, <1>8
<1>10. HasInstruction(ln)
  <2>1. ASSUME NEW i \in 1..Len(kinds) PROVE B[i + 1].kind = kinds[i]
    <3>1. i + 1 \in 1..n
      BY <1>2, <1>3
    <3> QED
      BY <1>2, <1>8, <3>1
  <2>2. Len(B) > Len(kinds)
    BY <1>2, <1>3, <1>7
  <2> QED
    BY <1>2, <1>3, <1>5, <1>9, <2>1, <2>2
<1>11. InstructionOf(ln) = inst
  <2>1. InstructionOf(ln) = SubSeq(B, 1, n)
    BY <1>2, <1>6, <1>9
  <2> HIDE DEF n, kinds
  <2> DEFINE sub == SubSeq(B, 1, n)
  <2>2. sub \in Seq(S) /\ Len(sub) = n /\ \A i \in 1..n : sub[i] = B[i]
    BY <1>1, <1>2, <1>7
  <2> HIDE DEF sub
  <2>3. sub \in Seq(S \cup T) /\ inst \in Seq(S \cup T)
    <3>1. sub \in [1..n -> S] /\ inst \in [1..n -> T]
      BY <2>2, LenProperties DEF n
    <3>2. sub \in [1..n -> S \cup T] /\ inst \in [1..n -> S \cup T]
      BY <3>1
    <3> QED
      BY <1>2, <3>2, SeqDef
  <2>4. Len(sub) = Len(inst) /\ \A i \in 1..Len(sub) : sub[i] = inst[i]
    BY <1>8, <2>2 DEF n
  <2>5. sub = inst
    BY <2>3, <2>4, SeqEqual
  <2> QED
    BY <2>1, <2>5 DEF sub
<1> QED
  BY <1>10, <1>11

-----------------------------------------------------------------------------
(* Where the parser stands in its line.                                    *)

\* In line k of a file with p tokens taken: what the mode and the part of an
\* instruction say of the line.
PlaceAt(src, k, p, m, part) ==
  LET ln == Line(src, k)
  IN  /\ m = "line" => p = 0
      /\ m = "ident" => p = 1 /\ ln[1] = part[1]
      /\ m = "label" => p = 2 /\ Labelled(ln) /\ ~Redefines(Lines(src), k)
      /\ m = "operands" => /\ p = Skip(ln) + Len(part)
                           /\ \A i \in 1..Len(part) : part[i] = ln[Skip(ln) + i]
                           /\ ~Redefines(Lines(src), k)
      /\ m = "end" => k \in Giving(Lines(src)) /\ p = Skip(ln) + Len(InstructionOf(ln))
      /\ m = "error" => ~GoodLine(src, k) /\ (Labelled(ln) => p >= 2)

Place == PlaceAt(source, Here, Taken, mode, partial)

\* The lines whose words have been emitted, and those whose labels have been
\* read, in line k with p tokens taken.
DoneAt(src, k, m) ==
  {j \in Giving(Lines(src)) : j < k \/ (j = k /\ m \in {"end", "error"})}
LabelsAt(src, k, p) ==
  {j \in DOMAIN Lines(src) : Labelled(Lines(src)[j]) /\ (j < k \/ (j = k /\ p >= 2))}

Done == DoneAt(source, Here, mode)
LabelLines == LabelsAt(source, Here, Taken)
DefinedNames == {Label(Lines(source)[j]) : j \in LabelLines}

\* At the end of a line that is not in error nothing of it is missing.
LEMMA AtLineEnd ==
  ASSUME ParseTyped, Place, Taken = Len(Current), mode \in {"line", "label", "end", "error"}
  PROVE  /\ mode \in {"line", "label"} => Here \notin Giving(Lines(source))
         /\ Labelled(Current) => Taken >= 2
         /\ mode # "error" /\ ~HasBadCharacter(source, Here) => GoodLine(source, Here)
<1>1. /\ Here \in DOMAIN Lines(source) /\ Lines(source)[Here] = Current
      /\ Current \in Seq({source[j] : j \in DOMAIN source}) /\ Len(Current) \in Nat
      /\ \A i \in 1..Len(Current) : IsToken(Current[i])
  BY CurrentFacts DEF ParseTyped
<1>2. /\ Skip(Current) \in {0, 2} /\ (Body(Current) = <<>> <=> Len(Current) = Skip(Current))
      /\ Len(Body(Current)) = Len(Current) - Skip(Current)
  BY <1>1, BodyFacts
<1>3. Labelled(Current) => Len(Current) >= 2
  BY DEF Labelled
<1>4. CASE mode \in {"line", "label"}
  <2>1. /\ mode = "line" => Taken = 0
        /\ mode = "label" => Taken = 2 /\ Labelled(Current) /\ ~Redefines(Lines(source), Here)
    BY DEF Place, PlaceAt, Current
  <2>2. Len(Current) = Skip(Current) /\ ~Redefines(Lines(source), Here)
    <3>1. CASE mode = "line"
      <4>1. ~Labelled(Current)
        BY <1>1, <1>3, <2>1, <3>1
      <4> QED
        BY <1>1, <2>1, <3>1, <4>1 DEF Skip, Redefines
    <3>2. CASE mode = "label"
      BY <2>1, <3>2 DEF Skip
    <3> QED
      BY <1>4, <3>1, <3>2
  <2>3. Body(Current) = <<>>
    BY <1>2, <2>2
  <2>4. ~HasInstruction(Current)
    BY <2>3 DEF HasInstruction
  <2> QED
    BY <1>1, <1>3, <1>4, <2>2, <2>3, <2>4 DEF GoodLine, Giving
<1>5. CASE mode = "end"
  <2>1. Here \in Giving(Lines(source)) /\ Taken = Skip(Current) + Len(InstructionOf(Current))
    BY <1>5 DEF Place, PlaceAt, Current
  <2>2. HasInstruction(Current) /\ ~Redefines(Lines(source), Here)
    BY <1>1, <2>1 DEF Giving
  <2>3. /\ Len(InstructionOf(Current)) = Len(Body(Current))
             <=> InstructionOf(Current) = Body(Current)
        /\ Len(InstructionOf(Current)) \in Nat
    BY <1>1, <2>2, InstructionFacts DEF IsInstruction
  <2> DEFINE a == Len(InstructionOf(Current))
             b == Len(Body(Current))
             c == Len(Current)
             s == Skip(Current)
  <2>4. a = b
    <3>1. a \in Nat /\ c \in Nat /\ s \in {0, 2} /\ b = c - s /\ c = s + a
      BY <1>1, <1>2, <2>1, <2>3
    <3> HIDE DEF a, b, c, s
    <3> QED
      BY <3>1
  <2>5. InstructionOf(Current) = Body(Current)
    BY <2>3, <2>4
  <2> QED
    BY <1>1, <1>3, <1>5, <2>2, <2>5 DEF GoodLine
<1>6. CASE mode = "error"
  BY <1>3, <1>6
<1> QED
  BY <1>4, <1>5, <1>6

\* The place after a step.
LEMMA PlaceAfter ==
  ASSUME Reading, UNCHANGED source
  PROVE  /\ next' = next => Here' = Here /\ Taken' = Taken /\ Current' = Current
         /\ next' = next + 1 =>
              /\ token.kind = "NL" => Here' = Here + 1 /\ Taken' = 0
              /\ token.kind = "BAD" => Here' = Here /\ Taken' = Taken /\ Current' = Current
              /\ token.kind \notin {"NL", "BAD", "EOF"} =>
                   Here' = Here /\ Taken' = Taken + 1 /\ Current' = Current
         /\ Place' <=> PlaceAt(source, Here', Taken', mode', partial')
<1>1. next' = next => Here' = Here /\ Taken' = Taken /\ Current' = Current
  BY DEF Here, Taken, Current
<1>2. ASSUME next' = next + 1
      PROVE  Here' = LineNumber(source, next + 1) /\ Taken' = TakenAt(source, next + 1)
             /\ (Here' = Here => Current' = Current)
  BY <1>2 DEF Here, Taken, Current
<1>3. ASSUME next' = next + 1, token.kind = "NL" PROVE Here' = Here + 1 /\ Taken' = 0
  BY <1>2, <1>3, LooksAtNewLine
<1>4. ASSUME next' = next + 1, token.kind = "BAD"
      PROVE  Here' = Here /\ Taken' = Taken /\ Current' = Current
  BY <1>2, <1>4, LooksAtBadCharacter
<1>5. ASSUME next' = next + 1, token.kind \notin {"NL", "BAD", "EOF"}
      PROVE  Here' = Here /\ Taken' = Taken + 1 /\ Current' = Current
  BY <1>2, <1>5, LooksAtOther
<1>6. Place' <=> PlaceAt(source, Here', Taken', mode', partial')
  BY DEF Place
<1> QED
  BY <1>1, <1>3, <1>4, <1>5, <1>6

\* Lines are done with, and labels read, at certain steps only.
LEMMA SetsStay ==
  ASSUME Reading, UNCHANGED source, Here' = Here
  PROVE  /\ (mode' \in {"end", "error"} <=> mode \in {"end", "error"})
              \/ Here \notin Giving(Lines(source)) => Done' = Done
         /\ (Taken' >= 2 <=> Taken >= 2) \/ ~Labelled(Current) => LabelLines' = LabelLines
<1>1. Done' = DoneAt(source, Here, mode') /\ LabelLines' = LabelsAt(source, Here, Taken')
  BY DEF Done, LabelLines
<1>2. Lines(source)[Here] = Current
  BY CurrentFacts
<1>3. ASSUME (mode' \in {"end", "error"} <=> mode \in {"end", "error"})
              \/ Here \notin Giving(Lines(source))
      PROVE  Done' = Done
  BY <1>1, <1>3 DEF Done, DoneAt
<1>4. ASSUME (Taken' >= 2 <=> Taken >= 2) \/ ~Labelled(Current)
      PROVE  LabelLines' = LabelLines
  BY <1>1, <1>2, <1>4 DEF LabelLines, LabelsAt
<1> QED
  BY <1>3, <1>4

\* A token that is not expected spoils its line.
LEMMA UnexpectedSpoils ==
  ASSUME ParseTyped, Place, Unexpected
  PROVE  /\ ~GoodLine(source, Here) /\ mode # "error"
         /\ mode # "end" => Here \notin Giving(Lines(source))
         /\ Labelled(Current) => Taken >= 2
<1>1. /\ Here \in DOMAIN Lines(source) /\ Lines(source)[Here] = Current
      /\ Current \in Seq({source[j] : j \in DOMAIN source}) /\ Len(Current) \in Nat
      /\ \A i \in 1..Len(Current) : IsToken(Current[i])
      /\ Taken \in 0..Len(Current)
  BY CurrentFacts DEF ParseTyped
<1>2. \/ token.kind \in {"NL", "EOF"} /\ Taken = Len(Current)
      \/ token.kind \notin {"NL", "EOF", "BAD"} /\ Taken + 1 <= Len(Current)
           /\ Current[Taken + 1] = token
  BY LooksAtNewLine, LooksAtEnd, LooksAtOther DEF Unexpected, ParseTyped
<1>3. /\ Skip(Current) \in {0, 2} /\ (Body(Current) = <<>> <=> Len(Current) = Skip(Current))
      /\ Len(Body(Current)) = Len(Current) - Skip(Current)
  BY <1>1, BodyFacts
<1>4. ASSUME Body(Current) # <<>>, ~HasInstruction(Current)
      PROVE  ~GoodLine(source, Here) /\ Here \notin Giving(Lines(source))
  BY <1>1, <1>4 DEF GoodLine, Giving
<1>5. mode \in {"line", "ident", "label", "operands", "end"}
  BY DEF Unexpected
<1>6. CASE mode = "line"
  <2>1. Taken = 0 /\ token.kind \notin {"NL", "EOF", "IDENT"} \cup DOMAIN Operands
    BY <1>6 DEF Unexpected, Place, PlaceAt
  <2>2. Len(Current) >= 1 /\ Current[1] = token
    BY <1>1, <1>2, <2>1
  <2>3. ~Labelled(Current) /\ Skip(Current) = 0
    BY <2>1, <2>2 DEF Labelled, Skip
  <2>4. Len(Current) >= Skip(Current) + 1 /\ Current[Skip(Current) + 1].kind \notin DOMAIN Operands
    BY <1>1, <2>1, <2>2, <2>3
  <2>5. Body(Current) # <<>> /\ ~HasInstruction(Current)
    BY <1>1, <2>4, NoInstruction
  <2> QED
    BY <1>4, <1>6, <2>3, <2>5
<1>7. CASE mode = "ident"
  <2>1. Taken = 1 /\ Current[1].kind = "IDENT" /\ token.kind # "COLON"
    BY <1>7 DEF Unexpected, Place, PlaceAt, Current, ParseTyped
  <2>2. Len(Current) = 1 \/ (Len(Current) >= 2 /\ Current[2] = token)
    BY <1>1, <1>2, <2>1
  <2>3. ~Labelled(Current) /\ Skip(Current) = 0
    BY <2>1, <2>2 DEF Labelled, Skip
  <2>4. Len(Current) >= Skip(Current) + 1 /\ Current[Skip(Current) + 1].kind \notin DOMAIN Operands
    BY <1>1, <2>1, <2>2, <2>3, OperandsFacts
  <2>5. Body(Current) # <<>> /\ ~HasInstruction(Current)
    BY <1>1, <2>4, NoInstruction
  <2> QED
    BY <1>4, <1>7, <2>3, <2>5
<1>8. CASE mode = "label"
  <2>1. /\ Taken = 2 /\ Labelled(Current)
        /\ token.kind \notin {"NL", "EOF"} \cup DOMAIN Operands
    BY <1>8 DEF Unexpected, Place, PlaceAt, Current
  <2>2. Len(Current) >= 3 /\ Current[3] = token
    BY <1>1, <1>2, <2>1
  <2>3. Skip(Current) = 2
    BY <2>1 DEF Skip
  <2>4. Len(Current) >= Skip(Current) + 1 /\ Current[Skip(Current) + 1].kind \notin DOMAIN Operands
    BY <1>1, <2>1, <2>2, <2>3
  <2>5. Body(Current) # <<>> /\ ~HasInstruction(Current)
    BY <1>1, <2>4, NoInstruction
  <2> QED
    BY <1>4, <1>8, <2>1, <2>5
<1>9. CASE mode = "operands"
  <2>1. /\ Taken = Skip(Current) + Len(partial) /\ Begun(partial)
        /\ \A i \in 1..Len(partial) : partial[i] = Current[Skip(Current) + i]
        /\ token.kind # Operands[partial[1].kind][Len(partial)]
    BY <1>9 DEF Unexpected, Place, PlaceAt, Current, ParseTyped, Expected
  <2>2. Len(partial) \in Nat
    BY <2>1 DEF Begun
  <2>3. Skip(Current) + Len(partial) <= Len(Current)
    BY <1>1, <2>1
  <2>4. \/ Len(Current) = Skip(Current) + Len(partial)
        \/ Current[Skip(Current) + Len(partial) + 1].kind # Operands[partial[1].kind][Len(partial)]
    BY <1>1, <1>2, <2>1
  <2>5. Body(Current) # <<>> /\ ~HasInstruction(Current)
    BY <1>1, <2>1, <2>3, <2>4, BrokenInstruction
  <2>6. Labelled(Current) => Taken >= 2
    BY <2>1, <2>2 DEF Skip
  <2> QED
    BY <1>4, <1>9, <2>5, <2>6
<1>10. CASE mode = "end"
  <2>1. /\ Here \in Giving(Lines(source)) /\ Taken = Skip(Current) + Len(InstructionOf(Current))
        /\ token.kind \notin {"NL", "EOF"}
    BY <1>10 DEF Unexpected, Place, PlaceAt, Current
  <2>2. HasInstruction(Current)
    BY <1>1, <2>1 DEF Giving
  <2>3. /\ Len(InstructionOf(Current)) = Len(Body(Current))
             <=> InstructionOf(Current) = Body(Current)
        /\ Len(InstructionOf(Current)) \in Nat
        /\ Body(Current) # <<>>
    BY <1>1, <2>2, InstructionFacts DEF IsInstruction
  <2>4. Taken + 1 <= Len(Current)
    BY <1>2, <2>1
  <2> DEFINE a == Len(InstructionOf(Current))
             b == Len(Body(Current))
             c == Len(Current)
             s == Skip(Current)
  <2>5. a # b
    <3>1. a \in Nat /\ c \in Nat /\ s \in {0, 2} /\ b = c - s /\ (s + a) + 1 <= c
      BY <1>1, <1>3, <2>1, <2>3, <2>4
    <3> HIDE DEF a, b, c, s
    <3> QED
      BY <3>1
  <2>6. ~GoodLine(source, Here)
    BY <1>1, <2>3, <2>5 DEF GoodLine
  <2>7. Labelled(Current) => Taken >= 2
    BY <2>1, <2>3 DEF Skip
  <2> QED
    BY <1>10, <2>6, <2>7
<1> QED
  BY <1>5, <1>6, <1>7, <1>8, <1>9, <1>10

\* An unexpected token leaves the lines done with as they were.
LEMMA UnexpectedPlace ==
  ASSUME ParseTyped, Place, Unexpected
  PROVE  Place' /\ Done' = Done /\ LabelLines' = LabelLines
<1>1. Reading /\ UNCHANGED <<source, next>> /\ mode' = "error" /\ partial' = <<>>
  BY DEF ParseTyped, Unexpected, Looking, SyntaxError, Recover
<1>2. Here' = Here /\ Taken' = Taken /\ Current' = Current
  BY <1>1, PlaceAfter
<1>3. Place'
  BY <1>1, <1>2, PlaceAfter, UnexpectedSpoils DEF PlaceAt, Current
<1>4. Done' = Done /\ LabelLines' = LabelLines
  BY <1>1, <1>2, SetsStay, UnexpectedSpoils
<1> QED
  BY <1>3, <1>4

\* Nor do a rejected character and the tokens dropped after an error.
LEMMA DroppedPlace ==
  ASSUME ParseTyped, Place, BadCharacter \/ Discard
  PROVE  Place' /\ Done' = Done /\ LabelLines' = LabelLines
<1>1. /\ Reading /\ UNCHANGED <<source, mode, partial>> /\ next' = next + 1
      /\ token.kind = "BAD" \/ (mode = "error" /\ token.kind \notin {"NL", "EOF", "BAD"})
  BY DEF ParseTyped, BadCharacter, Discard, Looking
<1>2. CASE token.kind = "BAD"
  <2>1. Here' = Here /\ Taken' = Taken /\ Current' = Current
    BY <1>1, <1>2, PlaceAfter
  <2>2. Place'
    BY <1>1, <2>1, PlaceAfter DEF Place
  <2> QED
    BY <1>1, <2>1, <2>2, SetsStay
<1>3. CASE mode = "error" /\ token.kind \notin {"NL", "EOF", "BAD"}
  <2>1. Here' = Here /\ Taken' = Taken + 1 /\ Current' = Current
    BY <1>1, <1>3, PlaceAfter
  <2>2. ~GoodLine(source, Here) /\ (Labelled(Current) => Taken >= 2) /\ Taken \in Nat
    BY <1>1, <1>3, CurrentFacts DEF Place, PlaceAt, Current
  <2>3. Place'
    BY <1>1, <1>3, <2>1, <2>2, PlaceAfter DEF PlaceAt, Current
  <2>4. (Taken' >= 2 <=> Taken >= 2) \/ ~Labelled(Current)
    BY <2>1, <2>2
  <2> QED
    BY <1>1, <2>1, <2>3, <2>4, SetsStay
<1> QED
  BY <1>1, <1>2, <1>3

\* The next line begins with nothing of it done.
LEMMA NewLinePlace ==
  ASSUME ParseTyped, Place, NewLine
  PROVE  Place' /\ Done' = Done /\ LabelLines' = LabelLines
<1>1. /\ Reading /\ UNCHANGED source /\ next' = next + 1 /\ mode' = "line" /\ partial' = <<>>
      /\ token.kind = "NL" /\ mode \in {"line", "label", "end", "error"}
  BY DEF ParseTyped, NewLine, Looking, Shift
<1>2. Here' = Here + 1 /\ Taken' = 0 /\ Taken = Len(Current)
  BY <1>1, PlaceAfter, LooksAtNewLine
<1>3. Place'
  BY <1>1, <1>2, PlaceAfter DEF PlaceAt
<1>4. /\ mode \in {"line", "label"} => Here \notin Giving(Lines(source))
      /\ Labelled(Lines(source)[Here]) => Taken >= 2
  BY <1>1, <1>2, AtLineEnd, CurrentFacts
<1>5. Here \in Nat /\ \A j \in DOMAIN Lines(source) : j \in Nat
  BY <1>1, CurrentFacts, TokenIs, FileLine
<1>6. \A j \in DOMAIN Lines(source) : j < Here + 1 <=> j < Here \/ j = Here
  BY <1>5
<1>7. \A j \in DOMAIN Lines(source) : j # Here + 1 \/ ~(j < Here \/ j = Here)
  BY <1>5
<1>8. Done' = DoneAt(source, Here + 1, "line") /\ LabelLines' = LabelsAt(source, Here + 1, 0)
  BY <1>1, <1>2 DEF Done, LabelLines
<1>9. Done' = Done
  <2>1. \A j \in Giving(Lines(source)) : j \in DOMAIN Lines(source)
    BY DEF Giving
  <2>2. \A j \in Giving(Lines(source)) :
          j < Here + 1 <=> j < Here \/ (j = Here /\ mode \in {"end", "error"})
    BY <1>1, <1>4, <1>6, <2>1
  <2> QED
    BY <1>8, <2>2 DEF Done, DoneAt
<1>10. LabelLines' = LabelLines
  <2>1. ~(0 >= 2)
    OBVIOUS
  <2>2. \A j \in DOMAIN Lines(source) :
          Labelled(Lines(source)[j]) => (j < Here + 1 <=> j < Here \/ (j = Here /\ Taken >= 2))
    BY <1>4, <1>6
  <2> QED
    BY <1>8, <2>1, <2>2 DEF LabelLines, LabelsAt
<1> QED
  BY <1>3, <1>9, <1>10

\* A name at the start of a line may become a label.
LEMMA IdentPlace ==
  ASSUME ParseTyped, Place, Ident
  PROVE  Place' /\ Done' = Done /\ LabelLines' = LabelLines
<1>1. /\ Reading /\ UNCHANGED source /\ next' = next + 1 /\ mode' = "ident"
      /\ partial' = <<token>> /\ token.kind = "IDENT" /\ mode = "line"
  BY DEF ParseTyped, Ident, Looking, Shift
<1>2. Here' = Here /\ Taken' = Taken + 1 /\ Current' = Current /\ Current[Taken + 1] = token
  BY <1>1, PlaceAfter, LooksAtOther
<1>3. Taken = 0
  BY <1>1 DEF Place, PlaceAt
<1>4. Place'
  BY <1>1, <1>2, <1>3, PlaceAfter DEF PlaceAt, Current
<1> QED
  BY <1>1, <1>2, <1>3, <1>4, SetsStay

\* The process may end or the parser stop where it stands.
LEMMA StandingPlace ==
  ASSUME ParseTyped, Place, UNCHANGED <<source, parse>>
  PROVE  Place' /\ Done' = Done /\ LabelLines' = LabelLines
<1>1. Reading /\ UNCHANGED <<source, next, mode, partial>>
  BY DEF ParseTyped, parse
<1>2. Here' = Here /\ Taken' = Taken /\ Current' = Current
  BY <1>1, PlaceAfter
<1>3. Place'
  BY <1>1, <1>2, PlaceAfter DEF Place
<1> QED
  BY <1>1, <1>2, <1>3, SetsStay

\* A colon after the name that starts a line makes it a label: one that an
\* earlier line has if, and only if, the name is defined.
LEMMA AtColon ==
  ASSUME ParseTyped, Place, mode = "ident", token.kind = "COLON"
  PROVE  /\ Taken = 1 /\ Labelled(Current) /\ Label(Current) = partial[1].value
         /\ Here \notin LabelLines
         /\ partial[1].value \in DefinedNames <=> Redefines(Lines(source), Here)
<1>1. /\ Reading /\ Here \in DOMAIN Lines(source) /\ Lines(source)[Here] = Current
      /\ Len(Current) \in Nat /\ Here \in 1..Last /\ Last \in Nat
      /\ DOMAIN Lines(source) = 1..Last /\ IsFile(source)
  BY CurrentFacts, TokenIs, LinesFacts DEF ParseTyped, Last
<1>2. Taken = 1 /\ Current[1] = partial[1] /\ partial[1].kind = "IDENT"
  BY DEF Place, PlaceAt, Current, ParseTyped
<1>3. Taken + 1 <= Len(Current) /\ Current[Taken + 1] = token
  BY <1>1, LooksAtOther
<1>4. Labelled(Current) /\ Label(Current) = partial[1].value
  BY <1>1, <1>2, <1>3 DEF Labelled, Label
<1>5. \A j \in DOMAIN Lines(source) :
        j \in LabelLines <=> Labelled(Lines(source)[j]) /\ j \in 1..(Here - 1)
  <2>1. \A j \in DOMAIN Lines(source) :
          (j < Here \/ (j = Here /\ Taken >= 2)) <=> j \in 1..(Here - 1)
    BY <1>1, <1>2
  <2> QED
    BY <2>1 DEF LabelLines, LabelsAt
<1>6. Here \notin LabelLines
  BY <1>1, <1>5
<1>7. 1..(Here - 1) \subseteq DOMAIN Lines(source) /\ LabelLines \subseteq DOMAIN Lines(source)
  BY <1>1 DEF LabelLines, LabelsAt
<1>8. \A j : j \in LabelLines <=> Labelled(Lines(source)[j]) /\ j \in 1..(Here - 1)
  BY <1>5, <1>7
<1>9. partial[1].value \in DefinedNames <=>
        \E j \in 1..(Here - 1) : /\ Labelled(Lines(source)[j])
                                 /\ Label(Lines(source)[j]) = partial[1].value
  BY <1>8 DEF DefinedNames
<1>10. Redefines(Lines(source), Here) <=>
         \E j \in 1..(Here - 1) : /\ Labelled(Lines(source)[j])
                                  /\ Label(Lines(source)[j]) = partial[1].value
  BY <1>1, <1>4 DEF Redefines
<1> QED
  BY <1>2, <1>4, <1>6, <1>9, <1>10

\* What a label that is read does to the lines.
LEMMA LabelRead ==
  ASSUME ParseTyped, Place, mode = "ident", token.kind = "COLON", UNCHANGED source,
         next' = next + 1
  PROVE  /\ Here' = Here /\ Taken' = 2 /\ Current' = Current
         /\ LabelLines' = LabelLines \cup {Here}
         /\ DefinedNames' = DefinedNames \cup {partial[1].value}
<1>1. Reading /\ Here \in DOMAIN Lines(source) /\ Lines(source)[Here] = Current /\ Here \in Int
  BY CurrentFacts DEF ParseTyped
<1>2. Taken = 1 /\ Labelled(Current) /\ Label(Current) = partial[1].value
  BY AtColon
<1>3. Here' = Here /\ Taken' = 2 /\ Current' = Current
  BY <1>1, <1>2, PlaceAfter
<1>4. LabelLines' = LabelsAt(source, Here, 2)
  BY <1>3 DEF LabelLines
<1>5. LabelsAt(source, Here, 2) = LabelsAt(source, Here, 1) \cup {Here}
  <2>1. \A j : j \in LabelsAt(source, Here, 2) <=> j \in LabelsAt(source, Here, 1) \/ j = Here
    BY <1>1, <1>2 DEF LabelsAt
  <2> QED
    BY <2>1
<1>6. LabelLines' = LabelLines \cup {Here}
  BY <1>2, <1>4, <1>5 DEF LabelLines
<1>7. DefinedNames' = {Label(Lines(source)[j]) : j \in LabelLines'}
  BY DEF DefinedNames
<1>8. DefinedNames' = DefinedNames \cup {partial[1].value}
  <2>1. {Label(Lines(source)[j]) : j \in LabelLines \cup {Here}}
          = {Label(Lines(source)[j]) : j \in LabelLines} \cup {Label(Lines(source)[Here])}
    OBVIOUS
  <2> QED
    BY <1>1, <1>2, <1>6, <1>7, <2>1 DEF DefinedNames
<1> QED
  BY <1>3, <1>6, <1>8

\* A label of its own leaves the line to be completed.
LEMMA LabelPlace ==
  ASSUME ParseTyped, Place, NewLabel \/ ReferencedLabel, partial[1].value \notin DefinedNames
  PROVE  Place' /\ Done' = Done
<1>1. /\ mode = "ident" /\ token.kind = "COLON" /\ UNCHANGED source /\ next' = next + 1
      /\ mode' = "label" /\ partial' = <<>>
  BY DEF NewLabel, ReferencedLabel, Looking, Shift
<1>2. Here' = Here /\ Taken' = 2 /\ Reading
  BY <1>1, LabelRead DEF ParseTyped
<1>3. Labelled(Current) /\ ~Redefines(Lines(source), Here)
  BY <1>1, AtColon
<1>4. Place'
  BY <1>1, <1>2, <1>3, PlaceAfter DEF PlaceAt, Current
<1> QED
  BY <1>1, <1>2, <1>4, SetsStay

\* A label that is defined already spoils its line.
LEMMA DuplicatePlace ==
  ASSUME ParseTyped, Place, DuplicateLabel, partial[1].value \in DefinedNames
  PROVE  Place' /\ Done' = Done /\ DefinedNames' = DefinedNames /\ ~GoodLine(source, Here)
<1>1. /\ mode = "ident" /\ token.kind = "COLON" /\ UNCHANGED source /\ next' = next + 1
      /\ mode' = "error" /\ partial' = <<>>
  BY DEF DuplicateLabel, Looking
<1>2. /\ Here' = Here /\ Taken' = 2 /\ Reading
      /\ DefinedNames' = DefinedNames \cup {partial[1].value}
  BY <1>1, LabelRead DEF ParseTyped
<1>3. Redefines(Lines(source), Here)
  BY <1>1, AtColon
<1>4. ~GoodLine(source, Here) /\ Here \notin Giving(Lines(source))
  BY <1>3 DEF GoodLine, Giving
<1>5. Place'
  BY <1>1, <1>2, <1>4, PlaceAfter DEF PlaceAt, Current
<1>6. Done' = Done
  BY <1>1, <1>2, <1>4, SetsStay
<1>7. DefinedNames' = DefinedNames
  BY <1>2
<1> QED
  BY <1>4, <1>5, <1>6, <1>7

\* The tokens of an instruction are the line's, and a complete one is the
\* line's instruction.
LEMMA InstructionPlace ==
  ASSUME ParseTyped, Place, Instruction \/ Operand
  PROVE  /\ Place' /\ LabelLines' = LabelLines /\ Here' = Here
         /\ \/ UNCHANGED code /\ Done' = Done
            \/ /\ Here \in Giving(Lines(source)) /\ Here \notin Done /\ Done' = Done \cup {Here}
               /\ Completes /\ Complete(InstructionOf(Lines(source)[Here]))
<1>1. /\ Reading /\ Here \in DOMAIN Lines(source) /\ Lines(source)[Here] = Current
      /\ Len(Current) \in Nat /\ Taken \in Nat
      /\ Current \in Seq({source[j] : j \in DOMAIN source})
  BY CurrentFacts DEF ParseTyped
<1>2. PICK inst \in Seq(Passed(source, next + 1)) :
           /\ inst[1].kind \in DOMAIN Operands /\ Len(inst) \in Nat
           /\ IF mode = "operands" THEN /\ inst = Append(partial, token)
                                        /\ token.kind = Expected
                                        /\ Len(inst) = Len(partial) + 1
                                        /\ inst[1] = partial[1]
                                   ELSE mode \in {"line", "label"} /\ inst = <<token>>
           /\ token.kind \notin {"NL", "EOF", "BAD", "COLON"}
           /\ inst[Len(inst)] = token
           /\ \/ Completes /\ IsInstruction(inst) /\ Complete(inst)
              \/ Begun(inst) /\ Shift("operands", inst) /\ UNCHANGED code
  BY InstructionStep
<1>3. next' = next + 1 /\ UNCHANGED source
  BY <1>2 DEF Instruction, Operand, Looking, Complete, Shift
<1>4. /\ Here' = Here /\ Taken' = Taken + 1 /\ Current' = Current
      /\ Taken + 1 <= Len(Current) /\ Current[Taken + 1] = token
  BY <1>1, <1>2, <1>3, PlaceAfter, LooksAtOther
<1>5. Skip(Current) \in {0, 2} /\ ~Redefines(Lines(source), Here)
      /\ Taken + 1 = Skip(Current) + Len(inst)
      /\ \A i \in 1..Len(inst) : inst[i] = Current[Skip(Current) + i]
  <2>1. CASE mode = "operands"
    <3>1. /\ Taken = Skip(Current) + Len(partial)
          /\ \A i \in 1..Len(partial) : partial[i] = Current[Skip(Current) + i]
          /\ ~Redefines(Lines(source), Here)
      BY <2>1 DEF Place, PlaceAt, Current
    <3>2. partial \in Seq(Passed(source, next))
      BY DEF ParseTyped
    <3>3. /\ inst = Append(partial, token) /\ Len(inst) = Len(partial) + 1 /\ Len(partial) \in Nat
          /\ \A i \in 1..Len(partial) : inst[i] = partial[i]
          /\ inst[Len(inst)] = token
      <4> DEFINE T == Passed(source, next)
      <4>1. partial \in Seq(T \cup {token})
        <5>1. partial \in [1..Len(partial) -> T] /\ Len(partial) \in Nat
          BY <3>2, LenProperties
        <5>2. partial \in [1..Len(partial) -> T \cup {token}]
          BY <5>1
        <5> QED
          BY <5>1, <5>2, SeqDef
      <4>2. \A i \in 1..Len(partial) : Append(partial, token)[i] = partial[i]
        BY <4>1, AppendProperties
      <4> QED
        BY <1>2, <2>1, <3>2, <4>2, LenProperties
    <3>4. Skip(Current) \in {0, 2}
      BY DEF Skip
    <3>5. Taken + 1 = Skip(Current) + Len(inst)
      BY <3>1, <3>3, <3>4
    <3>6. \A i \in 1..Len(inst) : inst[i] = Current[Skip(Current) + i]
      <4> SUFFICES ASSUME NEW i \in 1..Len(inst) PROVE inst[i] = Current[Skip(Current) + i]
        OBVIOUS
      <4>1. i \in 1..Len(partial) \/ i = Len(inst)
        BY <3>3
      <4>2. i = Len(inst) => Skip(Current) + i = Taken + 1
        BY <3>5
      <4> QED
        BY <1>4, <3>1, <3>3, <4>1, <4>2
    <3> QED
      BY <3>1, <3>4, <3>5, <3>6
  <2>2. CASE mode = "line"
    <3>1. Taken = 0 /\ inst = <<token>> /\ token.kind \in DOMAIN Operands
      BY <1>2, <2>2 DEF Place, PlaceAt
    <3>2. Current[1] = token
      BY <1>4, <3>1
    <3>3. ~Labelled(Current) /\ Skip(Current) = 0
      BY <3>1, <3>2, OperandsFacts DEF Labelled, Skip
    <3>4. ~Redefines(Lines(source), Here)
      BY <1>1, <3>3 DEF Redefines
    <3>5. Len(inst) = 1 /\ \A i \in 1..1 : inst[i] = token /\ 0 + i = 1
      BY <3>1
    <3> QED
      BY <3>1, <3>2, <3>3, <3>4, <3>5
  <2>3. CASE mode = "label"
    <3>1. /\ Taken = 2 /\ inst = <<token>> /\ Labelled(Current)
          /\ ~Redefines(Lines(source), Here)
      BY <1>2, <2>3 DEF Place, PlaceAt, Current
    <3>2. Current[3] = token
      BY <1>4, <3>1
    <3>3. Skip(Current) = 2
      BY <3>1 DEF Skip
    <3>4. Len(inst) = 1 /\ \A i \in 1..1 : inst[i] = token /\ 2 + i = 3
      BY <3>1
    <3> QED
      BY <3>1, <3>2, <3>3, <3>4
  <2> QED
    BY <1>2, <2>1, <2>2, <2>3
<1>6. (Taken' >= 2 <=> Taken >= 2) \/ ~Labelled(Current)
  <2>1. Labelled(Current) => Skip(Current) = 2
    BY DEF Skip
  <2>2. mode = "line" => ~Labelled(Current)
    <3> SUFFICES ASSUME mode = "line", Labelled(Current) PROVE FALSE
      OBVIOUS
    <3>1. Taken = 0 /\ token.kind \in DOMAIN Operands
      BY <1>2 DEF Place, PlaceAt
    <3>2. Current[1] = token
      BY <1>4, <3>1
    <3> QED
      BY <3>1, <3>2, OperandsFacts DEF Labelled
  <2>3. mode = "label" => Taken = 2
    BY DEF Place, PlaceAt
  <2>4. mode = "operands" /\ Labelled(Current) => Taken >= 2
    <3> SUFFICES ASSUME mode = "operands", Labelled(Current) PROVE Taken >= 2
      OBVIOUS
    <3>1. Taken = Skip(Current) + Len(partial) /\ Len(partial) \in Nat
      BY DEF Place, PlaceAt, Current, ParseTyped, Begun
    <3> QED
      BY <2>1, <3>1
  <2>5. mode \in {"line", "label", "operands"}
    BY <1>2
  <2> QED
    BY <1>1, <1>4, <2>2, <2>3, <2>4, <2>5
<1>7. LabelLines' = LabelLines
  BY <1>1, <1>3, <1>4, <1>6, SetsStay
<1>8. CASE Completes /\ IsInstruction(inst) /\ Complete(inst)
  <2>1. mode' = "end" /\ partial' = <<>>
    BY <1>8 DEF Complete, Shift
  <2>2. Skip(Current) + Len(inst) <= Len(Current)
    BY <1>4, <1>5
  <2>3. HasInstruction(Current) /\ InstructionOf(Current) = inst
    BY <1>1, <1>5, <1>8, <2>2, WholeInstruction
  <2>4. Here \in Giving(Lines(source))
    BY <1>1, <1>5, <2>3 DEF Giving
  <2>5. Place'
    BY <1>3, <1>1, <1>4, <1>5, <2>1, <2>3, <2>4, PlaceAfter DEF PlaceAt, Current
  <2>6. mode \notin {"end", "error"}
    BY <1>2
  <2>7. Done' = DoneAt(source, Here, "end")
    BY <1>3, <1>4, <2>1 DEF Done
  <2>8. Here \notin Done /\ Done' = Done \cup {Here}
    <3>1. Here \in Int
      BY <1>1, CurrentFacts
    <3>2. \A j : j \in Done' <=> j \in Done \/ j = Here
      BY <2>4, <2>6, <2>7 DEF Done, DoneAt
    <3>3. Here \notin Done
      BY <2>6, <3>1 DEF Done, DoneAt
    <3> QED
      BY <3>2, <3>3
  <2> QED
    BY <1>1, <1>4, <1>7, <1>8, <2>3, <2>4, <2>5, <2>8
<1>9. CASE Begun(inst) /\ Shift("operands", inst) /\ UNCHANGED code
  <2>1. mode' = "operands" /\ partial' = inst
    BY <1>9 DEF Shift
  <2>2. Place'
    BY <1>1, <1>3, <1>4, <1>5, <2>1, PlaceAfter DEF PlaceAt, Current
  <2>3. mode \notin {"end", "error"} /\ mode' \notin {"end", "error"}
    BY <1>2, <2>1
  <2>4. Done' = Done
    BY <1>1, <1>3, <1>4, <2>3, SetsStay
  <2> QED
    BY <1>4, <1>7, <1>9, <2>2, <2>4
<1> QED
  BY <1>2, <1>8, <1>9

-----------------------------------------------------------------------------
(* What the text and the symbols are after the lines in D, of which the    *)
(* names in N are defined.                                                 *)

Inst(src, j) == InstructionOf(Lines(src)[j])
RefOf(src, j) == [line_num |-> j, offset |-> WordsBefore(Lines(src), j)]

SymbolsAre(src, table, D, N) ==
  /\ DOMAIN table = N \cup UNION {RefersTo(Inst(src, j)) : j \in D}
  /\ \A name \in DOMAIN table \cap N :
       /\ table[name].line_num # 0 /\ table[name].offset = Address(Lines(src), name)
       /\ table[name].refs = {}
  /\ \A name \in DOMAIN table \ N :
       /\ table[name].line_num = 0
       /\ table[name].refs = {RefOf(src, j) : j \in {i \in D : name \in RefersTo(Inst(src, i))}}

\* The word of line j: with the address of the name it refers to, once defined.
WordIs(src, w, j, N) ==
  \E a \in Int : /\ w = Encode(Inst(src, j), a)
                 /\ RefersTo(Inst(src, j)) = {} => a = 0
                 /\ \A name \in RefersTo(Inst(src, j)) \cap N : a = Address(Lines(src), name)

TextIs(src, t, D, N) ==
  /\ Len(t) = Cardinality(D)
  /\ \A j \in D : WordIs(src, t[WordsBefore(Lines(src), j) + 1], j, N)

CodeIs ==
  /\ SymbolsAre(source, symbol_table, Done, DefinedNames)
  /\ TextIs(source, text, Done, DefinedNames)

\* The lines done with are lines that give words, in the order of the text.
LEMMA DoneFacts ==
  ASSUME Reading
  PROVE  /\ Done \in SUBSET Giving(Lines(source)) /\ IsFiniteSet(Done)
         /\ Cardinality(Done) \in Nat /\ Here \in Int
         /\ mode \notin {"end", "error"} =>
              /\ WordsBefore(Lines(source), Here) = Cardinality(Done)
              /\ \A j \in Done : /\ WordsBefore(Lines(source), j) \in Nat
                                 /\ WordsBefore(Lines(source), j) + 1 \in 1..Cardinality(Done)
<1> DEFINE G == Giving(Lines(source))
<1>1. G \in SUBSET Int /\ IsFiniteSet(G) /\ Here \in Int
  BY TokenIs, GivingFacts, CurrentFacts
<1>2. Done \in SUBSET G
  BY DEF Done, DoneAt
<1>3. IsFiniteSet(Done) /\ Cardinality(Done) \in Nat
  <2> HIDE DEF G
  <2> QED
    BY <1>1, <1>2, FS_Subset, FS_CardinalityType
<1>4. ASSUME mode \notin {"end", "error"}
      PROVE  /\ Before(G, Here) = Cardinality(Done)
             /\ \A j \in Done : Before(G, j) \in Nat /\ Before(G, j) + 1 \in 1..Cardinality(Done)
  <2>1. Done = {j \in G : j < Here}
    BY <1>4 DEF Done, DoneAt
  <2> HIDE DEF G
  <2>2. Before(G, Here) = Cardinality(Done)
    BY <2>1 DEF Before
  <2>3. ASSUME NEW j \in Done
        PROVE  Before(G, j) \in Nat /\ Before(G, j) + 1 \in 1..Cardinality(Done)
    <3>1. j \in G /\ j \in Int /\ j < Here
      BY <1>1, <2>1
    <3>2. Before(G, j) < Before(G, Here)
      BY <1>1, <3>1, BeforeGrows
    <3>3. Before(G, j) \in Nat
      BY <1>1, BeforeType
    <3> QED
      BY <1>3, <2>2, <3>2, <3>3
  <2> QED
    BY <2>2, <2>3
<1> QED
  BY <1>1, <1>2, <1>3, <1>4 DEF WordsBefore

\* A name has a symbol with a line number if, and only if, its label is read.
LEMMA NamesDefined ==
  ASSUME CodeIs, NEW name
  PROVE  name \in DefinedNames <=> Defined(symbol_table, name)
BY DEF CodeIs, SymbolsAre, Defined

\* A label of its own that is read gets the address of the next word.
LEMMA LabelAddress ==
  ASSUME ParseTyped, Place, CodeIs, mode = "ident", token.kind = "COLON",
         partial[1].value \notin DefinedNames
  PROVE  /\ Address(Lines(source), partial[1].value) = Len(text)
         /\ line_num # 0 /\ Len(text) = Cardinality(Done) /\ Len(text) \in Nat
<1>1. /\ IsFile(source) /\ Here \in DOMAIN Lines(source) /\ Lines(source)[Here] = Current
      /\ Here \in 1..Last /\ Last \in Nat
  BY TokenIs, CurrentFacts DEF ParseTyped
<1>2. /\ Labelled(Current) /\ Label(Current) = partial[1].value
      /\ ~Redefines(Lines(source), Here)
  BY AtColon
<1>3. Address(Lines(source), partial[1].value) = WordsBefore(Lines(source), Here)
  BY <1>1, <1>2, AddressIs
<1>4. WordsBefore(Lines(source), Here) = Cardinality(Done) /\ Cardinality(Done) \in Nat
  BY DoneFacts DEF ParseTyped
<1>5. line_num = Here
  BY LooksAtOther DEF ParseTyped
<1> QED
  BY <1>1, <1>3, <1>4, <1>5 DEF CodeIs, TextIs

\* A label not referred to before gets a symbol; no word is waiting for it.
LEMMA NewLabelKeeps ==
  ASSUME ParseTyped, CodeTyped, Place, CodeIs, NewLabel
  PROVE  CodeIs'
<1> DEFINE name == partial[1].value
           N == DefinedNames
           D == Done
           lines == Lines(source)
           new == [line_num |-> line_num, offset |-> Len(text), refs |-> {}]
<1>1. /\ mode = "ident" /\ token.kind = "COLON" /\ UNCHANGED <<source, text>> /\ next' = next + 1
      /\ name \notin DOMAIN symbol_table
      /\ symbol_table' = code_symbol_add(symbol_table, name, line_num)
  BY DEF NewLabel, Looking, Shift
<1>2. name \notin N /\ \A j \in D : name \notin RefersTo(Inst(source, j))
  BY <1>1 DEF CodeIs, SymbolsAre
<1>3. Done' = D /\ DefinedNames' = N \cup {name}
  BY <1>1, <1>2, LabelPlace, LabelRead
<1>4. Address(lines, name) = Len(text) /\ line_num # 0
  BY <1>1, <1>2, LabelAddress
<1>5. symbol_table' = [n \in DOMAIN symbol_table \cup {name} |->
                         IF n = name THEN new ELSE symbol_table[n]]
  BY <1>1 DEF code_symbol_add
<1>6. SymbolsAre(source, symbol_table, D, N) /\ TextIs(source, text, D, N)
  BY DEF CodeIs
<1>7. SymbolsAre(source, symbol_table', D, N \cup {name})
  <2>1. DOMAIN symbol_table' = (N \cup {name}) \cup UNION {RefersTo(Inst(source, j)) : j \in D}
    BY <1>5, <1>6 DEF SymbolsAre
  <2>2. /\ symbol_table'[name] = new
        /\ \A n \in DOMAIN symbol_table : symbol_table'[n] = symbol_table[n]
    BY <1>1, <1>5
  <2>3. new.line_num = line_num /\ new.offset = Len(text) /\ new.refs = {}
    OBVIOUS
  <2>4. DOMAIN symbol_table' = DOMAIN symbol_table \cup {name}
    BY <1>5
  <2> HIDE DEF name, N, D, lines, new
  <2>5. \A n \in DOMAIN symbol_table' \cap (N \cup {name}) :
          /\ symbol_table'[n].line_num # 0 /\ symbol_table'[n].offset = Address(Lines(source), n)
          /\ symbol_table'[n].refs = {}
    BY <1>4, <1>6, <2>2, <2>3, <2>4 DEF SymbolsAre, lines
  <2>6. \A n \in DOMAIN symbol_table' \ (N \cup {name}) :
          /\ symbol_table'[n].line_num = 0
          /\ symbol_table'[n].refs =
               {RefOf(source, j) : j \in {i \in D : n \in RefersTo(Inst(source, i))}}
    BY <1>6, <2>2, <2>4 DEF SymbolsAre
  <2> QED
    BY <2>1, <2>5, <2>6 DEF SymbolsAre
<1>8. TextIs(source, text, D, N \cup {name})
  <2>1. \A j \in D :
          RefersTo(Inst(source, j)) \cap (N \cup {name}) = RefersTo(Inst(source, j)) \cap N
    BY <1>2
  <2> HIDE DEF name, N, D
  <2> QED
    BY <1>6, <2>1 DEF TextIs, WordIs
<1> QED
  BY <1>1, <1>3, <1>7, <1>8 DEF CodeIs

\* The words that wait for a label, and no others, get its address.
LEMMA ReferencedLabelKeeps ==
  ASSUME ParseTyped, CodeTyped, Place, CodeIs, ReferencedLabel, status' # "crashed"
  PROVE  CodeIs'
<1> DEFINE name == partial[1].value
           N == DefinedNames
           D == Done
           lines == Lines(source)
           refs == symbol_table[name].refs
           new == [line_num |-> line_num, offset |-> Len(text), refs |-> {}]
<1>1. /\ mode = "ident" /\ token.kind = "COLON" /\ UNCHANGED source /\ next' = next + 1
      /\ name \in DOMAIN symbol_table /\ ~Defined(symbol_table, name)
      /\ text' = Patched(refs)
      /\ symbol_table' = [symbol_table EXCEPT ![name] = new]
  BY DEF ReferencedLabel, Looking, Shift
<1>2. name \notin N
  BY <1>1, NamesDefined
<1>3. Done' = D /\ DefinedNames' = N \cup {name}
  BY <1>1, <1>2, LabelPlace, LabelRead
<1>4. Address(lines, name) = Len(text) /\ line_num # 0 /\ Len(text) = Cardinality(D)
      /\ Len(text) \in Nat
  BY <1>1, <1>2, LabelAddress
<1>5. SymbolsAre(source, symbol_table, D, N) /\ TextIs(source, text, D, N)
  BY DEF CodeIs
<1>6. SymbolsAre(source, symbol_table', D, N \cup {name})
  <2>1. DOMAIN symbol_table' = (N \cup {name}) \cup UNION {RefersTo(Inst(source, j)) : j \in D}
    BY <1>1, <1>5 DEF SymbolsAre
  <2>2. /\ symbol_table'[name] = new
        /\ \A n \in DOMAIN symbol_table \ {name} : symbol_table'[n] = symbol_table[n]
    BY <1>1
  <2>3. new.line_num = line_num /\ new.offset = Len(text) /\ new.refs = {}
    OBVIOUS
  <2>4. DOMAIN symbol_table' = DOMAIN symbol_table
    BY <1>1
  <2> HIDE DEF name, N, D, lines, new
  <2>5. \A n \in DOMAIN symbol_table' \cap (N \cup {name}) :
          /\ symbol_table'[n].line_num # 0 /\ symbol_table'[n].offset = Address(Lines(source), n)
          /\ symbol_table'[n].refs = {}
    BY <1>4, <1>5, <2>2, <2>3, <2>4 DEF SymbolsAre, lines
  <2>6. \A n \in DOMAIN symbol_table' \ (N \cup {name}) :
          /\ symbol_table'[n].line_num = 0
          /\ symbol_table'[n].refs =
               {RefOf(source, j) : j \in {i \in D : n \in RefersTo(Inst(source, i))}}
    BY <1>5, <2>2, <2>4 DEF SymbolsAre
  <2> QED
    BY <2>1, <2>5, <2>6 DEF SymbolsAre
<1>7. /\ Len(Patched(refs)) = Len(text)
      /\ \A i \in 1..Len(text) :
           Patched(refs)[i] = IF \E ref \in refs : ref.offset = i - 1
                              THEN RBML_SET_ARG3(text[i], Len(text)) ELSE text[i]
  BY PatchedIsText DEF CodeTyped
<1>8. refs = {RefOf(source, j) : j \in {i \in D : name \in RefersTo(Inst(source, i))}}
  BY <1>1, <1>2, <1>5 DEF SymbolsAre
<1>9. /\ \A j \in D : /\ j \in Giving(lines) /\ IsInstruction(Inst(source, j))
                      /\ WordsBefore(lines, j) \in Nat
                      /\ WordsBefore(lines, j) + 1 \in 1..Len(text)
      /\ IsFile(source)
  BY <1>1, <1>4, DoneFacts, GivingFacts, TokenIs DEF ParseTyped, Inst
<1>10. ASSUME NEW j \in D
       PROVE  WordIs(source, text'[WordsBefore(lines, j) + 1], j, N \cup {name})
  <2> DEFINE i == WordsBefore(lines, j) + 1
  <2>1. i \in 1..Len(text) /\ i - 1 = WordsBefore(lines, j)
    BY <1>9
  <2>2. PICK a \in Int : /\ text[i] = Encode(Inst(source, j), a)
                         /\ RefersTo(Inst(source, j)) = {} => a = 0
                         /\ \A n \in RefersTo(Inst(source, j)) \cap N : a = Address(lines, n)
    BY <1>5 DEF TextIs, WordIs
  <2> HIDE DEF i, name, lines, N, D, refs
  <2>3. CASE name \in RefersTo(Inst(source, j))
    <3>1. \E ref \in refs : ref.offset = i - 1
      <4>1. RefOf(source, j) \in refs /\ RefOf(source, j).offset = WordsBefore(lines, j)
        BY <1>8, <2>3 DEF RefOf, lines
      <4> QED
        BY <2>1, <4>1
    <3>2. text'[i] = RBML_SET_ARG3(text[i], Len(text))
      BY <1>1, <1>7, <2>1, <3>1
    <3>3. IsInstruction(Inst(source, j)) /\ RefersTo(Inst(source, j)) = {name}
      BY <1>9, <2>3, OneName
    <3>4. RBML_SET_ARG3(text[i], Len(text)) = Encode(Inst(source, j), Len(text))
      BY <1>4, <2>2, <3>3, PatchedWord
    <3>5. Len(text) \in Int
      BY <1>4
    <3>6. /\ text'[i] = Encode(Inst(source, j), Len(text))
          /\ \A n \in RefersTo(Inst(source, j)) \cap (N \cup {name}) : Len(text) = Address(lines, n)
          /\ RefersTo(Inst(source, j)) # {}
      BY <1>4, <3>2, <3>3, <3>4
    <3> QED
      BY <3>5, <3>6 DEF WordIs, i, lines
  <2>4. CASE name \notin RefersTo(Inst(source, j))
    <3>1. ~\E ref \in refs : ref.offset = i - 1
      <4> SUFFICES ASSUME NEW ref \in refs, ref.offset = i - 1 PROVE FALSE
        OBVIOUS
      <4>1. PICK k \in D : ref = RefOf(source, k) /\ name \in RefersTo(Inst(source, k))
        BY <1>8
      <4>2. WordsBefore(lines, k) = WordsBefore(lines, j)
        BY <2>1, <4>1 DEF RefOf, lines
      <4>3. k = j
        BY <1>9, <4>2, WordsTell DEF lines
      <4> QED
        BY <2>4, <4>1, <4>3
    <3>2. text'[i] = text[i]
      BY <1>1, <1>7, <2>1, <3>1
    <3>3. \A n \in RefersTo(Inst(source, j)) \cap (N \cup {name}) : a = Address(lines, n)
      BY <2>2, <2>4
    <3> QED
      BY <2>2, <3>2, <3>3 DEF WordIs, i, lines
  <2> QED
    BY <2>3, <2>4
<1>11. TextIs(source, text', D, N \cup {name})
  BY <1>1, <1>4, <1>7, <1>10 DEF TextIs
<1> QED
  BY <1>1, <1>3, <1>6, <1>11 DEF CodeIs

\* A name that the word of line k refers to: a defined one is left alone, any
\* other waits for its label.
LEMMA RefAdds ==
  ASSUME NEW src, NEW table, NEW D, NEW N, NEW k, SymbolsAre(src, table, D, N), k \notin D,
         Len(text) \in Nat, SymbolsTyped(table, Len(text)),
         NEW name, RefersTo(Inst(src, k)) = {name},
         [line_num |-> line_num, offset |-> Len(text)] = RefOf(src, k)
  PROVE  /\ SymbolsAre(src, code_symbol_ref(table, name), D \cup {k}, N)
         /\ name \in N => code_symbol_ref(table, name)[name].offset = Address(Lines(src), name)
<1> DEFINE Refs(n, S) == {RefOf(src, j) : j \in {i \in S : n \in RefersTo(Inst(src, i))}}
           seen == IF name \in DOMAIN table THEN table ELSE code_symbol_add(table, name, 0)
           after == code_symbol_ref(table, name)
           noted == [seen EXCEPT ![name].refs = @ \cup {RefOf(src, k)}]
<1>1. /\ DOMAIN table = N \cup UNION {RefersTo(Inst(src, j)) : j \in D}
      /\ \A n \in DOMAIN table \cap N :
           /\ table[n].line_num # 0 /\ table[n].offset = Address(Lines(src), n)
           /\ table[n].refs = {}
      /\ \A n \in DOMAIN table \ N :
           table[n].line_num = 0 /\ table[n].refs = Refs(n, D)
  BY DEF SymbolsAre
<1>2. UNION {RefersTo(Inst(src, j)) : j \in D \cup {k}}
        = (UNION {RefersTo(Inst(src, j)) : j \in D}) \cup {name}
  <2>1. {RefersTo(Inst(src, j)) : j \in D \cup {k}}
          = {RefersTo(Inst(src, j)) : j \in D} \cup {{name}}
    OBVIOUS
  <2>2. \A X : UNION (X \cup {{name}}) = (UNION X) \cup {name}
    OBVIOUS
  <2> QED
    BY <2>1, <2>2, Zenon
<1>3. \A n : n # name => Refs(n, D \cup {k}) = Refs(n, D)
  <2> SUFFICES ASSUME NEW n, n # name PROVE Refs(n, D \cup {k}) = Refs(n, D)
    OBVIOUS
  <2>1. {i \in D \cup {k} : n \in RefersTo(Inst(src, i))} = {i \in D : n \in RefersTo(Inst(src, i))}
    OBVIOUS
  <2> QED
    BY <2>1
<1>4. Refs(name, D \cup {k}) = Refs(name, D) \cup {RefOf(src, k)}
  <2>1. {i \in D \cup {k} : name \in RefersTo(Inst(src, i))}
          = {i \in D : name \in RefersTo(Inst(src, i))} \cup {k}
    OBVIOUS
  <2> QED
    BY <2>1
<1>5. after = IF seen[name].line_num = 0 THEN noted ELSE seen
  BY DEF code_symbol_ref
<1>6. CASE name \in N
  <2>1. name \in DOMAIN table /\ table[name].line_num # 0
    BY <1>1, <1>6
  <2>2. after = table
    BY <1>5, <2>1
  <2> HIDE DEF Refs, after
  <2>3. DOMAIN after = N \cup UNION {RefersTo(Inst(src, j)) : j \in D \cup {k}}
    <3> DEFINE U == UNION {RefersTo(Inst(src, j)) : j \in D}
    <3>1. DOMAIN table = N \cup U
      BY <1>1
    <3>2. UNION {RefersTo(Inst(src, j)) : j \in D \cup {k}} = U \cup {name}
      BY <1>2
    <3> HIDE DEF U
    <3> QED
      BY <1>6, <2>2, <3>1, <3>2
  <2>4. \A n \in DOMAIN after \cap N :
             /\ after[n].line_num # 0 /\ after[n].offset = Address(Lines(src), n)
             /\ after[n].refs = {}
    BY <1>1, <2>2
  <2>5. \A n \in DOMAIN after \ N :
             after[n].line_num = 0 /\ after[n].refs = Refs(n, D \cup {k})
    BY <1>1, <1>3, <1>6, <2>2
  <2>6. SymbolsAre(src, after, D \cup {k}, N)
    BY <2>3, <2>4, <2>5 DEF SymbolsAre, Refs
  <2> QED
    BY <1>1, <1>6, <2>1, <2>2, <2>6 DEF after
<1>7. CASE name \notin N
  <2>1. /\ name \in DOMAIN seen /\ DOMAIN seen = DOMAIN table \cup {name}
        /\ \A n \in DOMAIN table : seen[n] = table[n]
        /\ seen[name].line_num = 0 /\ seen[name].refs = Refs(name, D)
    <3>1. CASE name \in DOMAIN table
      BY <1>1, <1>7, <3>1
    <3>2. CASE name \notin DOMAIN table
      <4>1. seen = [n \in DOMAIN table \cup {name} |->
                      IF n = name THEN [line_num |-> 0, offset |-> Len(text), refs |-> {}]
                                  ELSE table[n]]
        BY <3>2 DEF code_symbol_add
      <4>2. {i \in D : name \in RefersTo(Inst(src, i))} = {}
        BY <1>1, <3>2
      <4>3. Refs(name, D) = {}
        BY <4>2
      <4> HIDE DEF Refs, seen
      <4> QED
        BY <3>2, <4>1, <4>3
    <3> QED
      BY <3>1, <3>2
  <2> HIDE DEF Refs, seen
  <2>2. after = noted
    BY <1>5, <2>1
  <2>3. /\ DOMAIN noted = DOMAIN seen /\ \A n \in DOMAIN seen \ {name} : noted[n] = seen[n]
        /\ noted[name] = [seen[name] EXCEPT !.refs = @ \cup {RefOf(src, k)}]
    BY <2>1
  <2>4. "refs" \in DOMAIN seen[name] /\ "line_num" \in DOMAIN seen[name]
    <3>1. SymbolsTyped(seen, Len(text))
      BY AddKeepsSymbols DEF seen
    <3> QED
      BY <2>1, <3>1 DEF SymbolsTyped, SymbolType
  <2>5. noted[name].line_num = 0 /\ noted[name].refs = Refs(name, D \cup {k})
    <3> DEFINE old == seen[name]
               ref == RefOf(src, k)
               one == [old EXCEPT !.refs = @ \cup {ref}]
    <3>1. noted[name] = one /\ old.line_num = 0 /\ old.refs = Refs(name, D)
          /\ "refs" \in DOMAIN old /\ "line_num" \in DOMAIN old
      BY <2>1, <2>3, <2>4
    <3> HIDE DEF old, ref, noted
    <3>2. one.line_num = old.line_num /\ one.refs = old.refs \cup {ref}
      BY <3>1
    <3> HIDE DEF one
    <3> QED
      BY <1>4, <3>1, <3>2 DEF ref
  <2> HIDE DEF noted, after
  <2>6. DOMAIN after = N \cup UNION {RefersTo(Inst(src, j)) : j \in D \cup {k}}
    BY <1>1, <1>2, <2>1, <2>2, <2>3
  <2>7. \A n \in DOMAIN after \cap N :
             /\ after[n].line_num # 0 /\ after[n].offset = Address(Lines(src), n)
             /\ after[n].refs = {}
    BY <1>1, <1>7, <2>1, <2>2, <2>3
  <2>8. \A n \in DOMAIN after \ N :
             after[n].line_num = 0 /\ after[n].refs = Refs(n, D \cup {k})
    <3> SUFFICES ASSUME NEW n \in DOMAIN after \ N
                 PROVE  after[n].line_num = 0 /\ after[n].refs = Refs(n, D \cup {k})
      OBVIOUS
    <3>1. CASE n = name
      BY <2>2, <2>5, <3>1
    <3>2. CASE n # name
      <4>1. n \in DOMAIN table \ N /\ after[n] = table[n]
        BY <2>1, <2>2, <2>3, <3>2
      <4> QED
        BY <1>1, <1>3, <3>2, <4>1
    <3> QED
      BY <3>1, <3>2
  <2>9. SymbolsAre(src, after, D \cup {k}, N)
    BY <2>6, <2>7, <2>8 DEF SymbolsAre, Refs
  <2> QED
    BY <1>7, <2>9 DEF after
<1> QED
  BY <1>6, <1>7

\* A line that refers to no name adds none.
LEMMA NoRefAdds ==
  ASSUME NEW src, NEW table, NEW D, NEW N, NEW k, SymbolsAre(src, table, D, N),
         RefersTo(Inst(src, k)) = {}
  PROVE  SymbolsAre(src, table, D \cup {k}, N)
<1>1. UNION {RefersTo(Inst(src, j)) : j \in D \cup {k}} = UNION {RefersTo(Inst(src, j)) : j \in D}
  <2>1. {RefersTo(Inst(src, j)) : j \in D \cup {k}} = {RefersTo(Inst(src, j)) : j \in D} \cup {{}}
    OBVIOUS
  <2>2. \A X : UNION (X \cup {{}}) = UNION X
    OBVIOUS
  <2> QED
    BY <2>1, <2>2, Zenon
<1>2. \A n : {i \in D \cup {k} : n \in RefersTo(Inst(src, i))}
               = {i \in D : n \in RefersTo(Inst(src, i))}
  OBVIOUS
<1> QED
  BY <1>1, <1>2 DEF SymbolsAre

\* The instruction of a line adds its word, and refers to its name.
LEMMA CompleteKeeps ==
  ASSUME ParseTyped, CodeTyped, Place, CodeIs, Instruction \/ Operand,
         Here \in Giving(Lines(source)), Here \notin Done, Done' = Done \cup {Here},
         DefinedNames' = DefinedNames, Completes, Complete(Inst(source, Here))
  PROVE  CodeIs'
<1> DEFINE N == DefinedNames
           D == Done
           k == Here
           inst == Inst(source, k)
           n == Len(text)
           a == IF RefersTo(inst) = {} THEN 0 ELSE symbol_table'[TheName(inst)].offset
<1>1. /\ Reading /\ IsFile(source) /\ n \in Nat /\ line_num \in Nat /\ UNCHANGED source
      /\ SymbolsTyped(symbol_table, n)
  BY TokenIs, LineNumIsLine, CurrentFacts
  DEF ParseTyped, CodeTyped, Instruction, Operand, Looking
<1>2. mode \notin {"end", "error"} /\ token.kind \notin {"NL", "BAD", "EOF"}
  <2>1. PICK i \in Seq(Passed(source, next + 1)) :
          /\ IF mode = "operands" THEN TRUE ELSE mode \in {"line", "label"}
          /\ token.kind \notin {"NL", "EOF", "BAD", "COLON"}
    BY InstructionStep
  <2> QED
    BY <2>1
<1>3. line_num = k /\ k \in Nat
  BY <1>1, <1>2, LooksAtOther, LineNumIsLine
<1>4. /\ SymbolsAre(source, symbol_table, D, N) /\ TextIs(source, text, D, N)
      /\ n = Cardinality(D)
  BY DEF CodeIs, TextIs
<1>5. /\ WordsBefore(Lines(source), k) = n /\ D \in SUBSET Giving(Lines(source)) /\ IsFiniteSet(D)
      /\ \A j \in D : WordsBefore(Lines(source), j) + 1 \in 1..n
  BY <1>1, <1>2, <1>4, DoneFacts
<1>6. RefOf(source, k) = [line_num |-> line_num, offset |-> n]
  BY <1>3, <1>5 DEF RefOf
<1>7. IsInstruction(inst)
  BY <1>1, GivingFacts DEF Inst
<1>8. /\ symbol_table' = IF RefersTo(inst) = {} THEN symbol_table
                         ELSE code_symbol_ref(symbol_table, TheName(inst))
      /\ text' = Append(text, Encode(inst, a))
  BY DEF Complete, code_emit
<1>9. /\ SymbolsAre(source, symbol_table', D \cup {k}, N)
      /\ a \in Int /\ (RefersTo(inst) = {} => a = 0)
      /\ \A name \in RefersTo(inst) \cap N : a = Address(Lines(source), name)
  <2>1. CASE RefersTo(inst) = {}
    <3>1. symbol_table' = symbol_table /\ a = 0
      BY <1>8, <2>1
    <3> HIDE DEF D, N, k, a
    <3>2. SymbolsAre(source, symbol_table, D \cup {k}, N)
      BY <1>4, <2>1, NoRefAdds DEF inst
    <3> QED
      BY <2>1, <3>1, <3>2
  <2>2. CASE RefersTo(inst) # {}
    <3> DEFINE name == TheName(inst)
    <3>1. RefersTo(inst) = {name}
      BY <1>7, <2>2, OneName
    <3>2. symbol_table' = code_symbol_ref(symbol_table, name) /\ a = symbol_table'[name].offset
      BY <1>8, <2>2
    <3>3. a \in Int
      <4>1. SymbolsTyped(symbol_table', n) /\ name \in DOMAIN symbol_table'
        BY <1>1, <3>2, RefKeepsSymbols
      <4>2. symbol_table'[name] \in SymbolType(n)
        BY <4>1 DEF SymbolsTyped
      <4>3. symbol_table'[name].offset \in 0..n
        BY <4>2 DEF SymbolType
      <4> QED
        BY <1>1, <3>2, <4>3
    <3> HIDE DEF D, N, k, a, name
    <3>4. /\ SymbolsAre(source, code_symbol_ref(symbol_table, name), D \cup {k}, N)
          /\ name \in N =>
               code_symbol_ref(symbol_table, name)[name].offset = Address(Lines(source), name)
      <4>1. k \notin D /\ [line_num |-> line_num, offset |-> Len(text)] = RefOf(source, k)
        BY <1>6 DEF D, k
      <4>2. Len(text) \in Nat /\ SymbolsTyped(symbol_table, Len(text))
        BY <1>1
      <4> QED
        BY <1>4, <3>1, <4>1, <4>2, RefAdds DEF inst
    <3>5. \A other \in RefersTo(inst) \cap N : a = Address(Lines(source), other)
      BY <3>1, <3>2, <3>4
    <3> QED
      BY <2>2, <3>2, <3>3, <3>4, <3>5
  <2> QED
    BY <2>1, <2>2
<1> HIDE DEF a
<1>10. Encode(inst, a) \in Word /\ text \in Seq(Word)
  BY <1>7, <1>9, EncodeIsWord DEF CodeTyped
<1>11. /\ Len(text') = n + 1 /\ text'[n + 1] = Encode(inst, a)
       /\ \A i \in 1..n : text'[i] = text[i]
  BY <1>8, <1>10, AppendProperties
<1>12. Cardinality(D \cup {k}) = n + 1
  BY <1>4, <1>5, FS_AddElement
<1>13. \A j \in D \cup {k} : WordIs(source, text'[WordsBefore(Lines(source), j) + 1], j, N)
  <2>1. WordIs(source, text'[WordsBefore(Lines(source), k) + 1], k, N)
    BY <1>5, <1>9, <1>11 DEF WordIs
  <2>2. \A j \in D : WordIs(source, text'[WordsBefore(Lines(source), j) + 1], j, N)
    BY <1>4, <1>5, <1>11 DEF TextIs
  <2> QED
    BY <2>1, <2>2
<1>14. TextIs(source, text', D \cup {k}, N)
  BY <1>11, <1>12, <1>13 DEF TextIs
<1> QED
  BY <1>1, <1>9, <1>14 DEF CodeIs

\* Every step keeps the place in the line and, but for the crash, the code.
LEMMA StepKeepsCode ==
  ASSUME ParseTyped, CodeTyped, Place, CodeIs, Parse
  PROVE  Place' /\ (status' # "crashed" => CodeIs')
<1>1. ASSUME UNCHANGED <<source, text, symbol_table>>, Done' = Done, DefinedNames' = DefinedNames
      PROVE  CodeIs'
  BY <1>1 DEF CodeIs
<1>2. ASSUME UNCHANGED source, LabelLines' = LabelLines PROVE DefinedNames' = DefinedNames
  BY <1>2 DEF DefinedNames
<1>3. CASE BadCharacter \/ Discard
  <2>1. UNCHANGED <<source, text, symbol_table>>
    BY <1>3 DEF BadCharacter, Discard, Looking, code
  <2> QED
    BY <1>1, <1>2, <1>3, <2>1, DroppedPlace
<1>4. CASE NewLine
  <2>1. UNCHANGED <<source, text, symbol_table>>
    BY <1>4 DEF NewLine, Looking, code
  <2> QED
    BY <1>1, <1>2, <1>4, <2>1, NewLinePlace
<1>5. CASE Ident
  <2>1. UNCHANGED <<source, text, symbol_table>>
    BY <1>5 DEF Ident, Looking, code
  <2> QED
    BY <1>1, <1>2, <1>5, <2>1, IdentPlace
<1>6. CASE Accept \/ RunOutOfMemory \/ LostName
  <2>1. UNCHANGED <<source, parse, text, symbol_table>>
    BY <1>6 DEF Accept, RunOutOfMemory, LostName, Looking, code
  <2> QED
    BY <1>1, <1>2, <2>1, StandingPlace
<1>7. CASE Unexpected
  <2>1. UNCHANGED <<source, text, symbol_table>>
    BY <1>7 DEF Unexpected, SyntaxError, Looking, code
  <2> QED
    BY <1>1, <1>2, <1>7, <2>1, UnexpectedPlace
<1>8. CASE NewLabel
  <2>1. partial[1].value \notin DefinedNames
    BY <1>8, NamesDefined DEF NewLabel, Defined
  <2> QED
    BY <1>8, <2>1, LabelPlace, NewLabelKeeps
<1>9. CASE ReferencedLabel
  <2>1. partial[1].value \notin DefinedNames
    BY <1>9, NamesDefined DEF ReferencedLabel
  <2> QED
    BY <1>9, <2>1, LabelPlace, ReferencedLabelKeeps
<1>10. CASE DuplicateLabel
  <2>1. partial[1].value \in DefinedNames
    BY <1>10, NamesDefined DEF DuplicateLabel
  <2>2. UNCHANGED <<source, text, symbol_table>>
    BY <1>10 DEF DuplicateLabel, Looking, code
  <2> QED
    BY <1>1, <1>10, <2>1, <2>2, DuplicatePlace
<1>11. CASE Instruction \/ Operand
  <2>1. UNCHANGED source
    BY <1>11 DEF Instruction, Operand, Looking
  <2>2. Place' /\ LabelLines' = LabelLines
    BY <1>11, InstructionPlace
  <2>3. DefinedNames' = DefinedNames
    BY <1>2, <2>1, <2>2
  <2>4. \/ UNCHANGED code /\ Done' = Done
        \/ /\ Here \in Giving(Lines(source)) /\ Here \notin Done /\ Done' = Done \cup {Here}
           /\ Completes /\ Complete(Inst(source, Here))
    BY <1>11, InstructionPlace DEF Inst
  <2> QED
    BY <1>1, <1>11, <2>1, <2>2, <2>3, <2>4, CompleteKeeps DEF code
<1> QED
  BY <1>3, <1>4, <1>5, <1>6, <1>7, <1>8, <1>9, <1>10, <1>11 DEF Parse

-----------------------------------------------------------------------------
(* The errors that have been reported.                                     *)

\* A line that is in error, or that comes behind one.
Spoiled(src, k) == ~GoodLine(src, k) \/ (k > 1 /\ ~GoodLine(src, k - 1))

ErrorsAre ==
  /\ num_errors \in Nat /\ reported \subseteq 1..Last
  /\ num_errors = 0 => /\ errstatus = 0 /\ mode # "error"
                       /\ \A k \in 1..(Here - 1) : GoodLine(source, k)
                       /\ \A i \in 1..(next - 1) : source[i].kind # "BAD"
  /\ num_errors # 0 => \E k \in DOMAIN Lines(source) : ~GoodLine(source, k)
  /\ \A k \in reported : Spoiled(source, k)

\* An error that is reported is that of the line the parser is in.
LEMMA ReportKeepsErrors ==
  ASSUME Reading, ErrorsAre, UNCHANGED source, parser_error, ~GoodLine(source, Here)
  PROVE  ErrorsAre'
<1>1. num_errors' = num_errors + 1 /\ reported' = reported \cup {line_num}
  BY DEF parser_error
<1>2. num_errors' \in Nat /\ num_errors' # 0 /\ Last' = Last
  BY <1>1 DEF ErrorsAre, Last
<1>3. line_num \in 1..Last /\ Here \in 1..Last /\ Last \in Nat /\ Here \in DOMAIN Lines(source)
      /\ (line_num = Here \/ line_num = Here + 1)
  BY LineNumIsLine, CurrentFacts
<1>4. Spoiled(source, line_num)
  <2>1. line_num = Here + 1 => line_num > 1 /\ line_num - 1 = Here
    BY <1>3
  <2> QED
    BY <1>3, <2>1 DEF Spoiled
<1> QED
  BY <1>1, <1>2, <1>3, <1>4 DEF ErrorsAre

\* Nothing is reported, but something has been, or the step goes on without
\* an error.
LEMMA QuietKeepsErrors ==
  ASSUME Reading, ErrorsAre, UNCHANGED <<source, errors>>,
         num_errors = 0 => /\ errstatus' = 0 /\ mode' # "error"
                           /\ \A k \in 1..(Here' - 1) : GoodLine(source, k)
                           /\ \A i \in 1..(next' - 1) : source[i].kind # "BAD"
  PROVE  ErrorsAre'
BY DEF ErrorsAre, errors, Last, Spoiled

\* A step that takes a token of a line which may still be good.
LEMMA TakingKeepsErrors ==
  ASSUME ParseTyped, ErrorsAre, UNCHANGED <<source, errors>>, next' = next + 1,
         token.kind \notin {"NL", "BAD", "EOF"}, errstatus = 0 => errstatus' = 0,
         mode # "error" => mode' # "error"
  PROVE  ErrorsAre'
<1>1. Reading /\ Here' = Here /\ IsFile(source) /\ next \in 1..Len(source) /\ token = source[next]
  BY PlaceAfter, TokenIs DEF ParseTyped
<1>2. \A i \in 1..(next' - 1) : i \in 1..(next - 1) \/ i = next
  BY <1>1
<1> QED
  BY <1>1, <1>2, QuietKeepsErrors DEF ErrorsAre

\* The line that ends is good if nothing has been reported.
LEMMA EndedLineIsGood ==
  ASSUME ParseTyped, Place, ErrorsAre, token.kind \in {"NL", "EOF"},
         mode \in {"line", "label", "end", "error"}, num_errors = 0
  PROVE  /\ \A k \in 1..Here : GoodLine(source, k)
         /\ \A i \in 1..next : token.kind = "NL" => source[i].kind # "BAD"
<1>1. /\ Reading /\ IsFile(source) /\ Len(source) \in Nat /\ next \in Int
      /\ Here \in 1..Last /\ Last \in Nat
  BY TokenIs, CurrentFacts DEF ParseTyped
<1>2. Taken = Len(Current)
  BY <1>1, LooksAtNewLine, LooksAtEnd
<1>3. /\ mode # "error" /\ \A k \in 1..(Here - 1) : GoodLine(source, k)
      /\ \A i \in 1..(next - 1) : source[i].kind # "BAD"
  BY DEF ErrorsAre
<1>4. ~HasBadCharacter(source, Here)
  <2> SUFFICES ASSUME NEW i \in DOMAIN source, source[i].kind = "BAD", LineNumber(source, i) = Here
               PROVE  FALSE
    BY DEF HasBadCharacter
  <2>1. i \in 1..Len(source)
    BY <1>1 DEF IsFile
  <2>2. i >= next
    BY <1>1, <1>3, <2>1
  <2>3. CASE token.kind = "EOF"
    <3>1. next = Len(source) + 1
      BY <1>1, <2>3, TokenIs
    <3> QED
      BY <1>1, <2>1, <2>2, <3>1
  <2>4. CASE token.kind = "NL"
    <3>1. token = source[next] /\ LineNumber(source, next + 1) = Here + 1
      BY <1>1, <2>4, TokenIs, LooksAtNewLine
    <3>2. i # next
      BY <2>4, <3>1
    <3>3. next + 1 <= i /\ next + 1 \in Int /\ i \in Int
      BY <1>1, <2>1, <2>2, <3>2
    <3>4. LineNumber(source, next + 1) <= LineNumber(source, i)
      BY <1>1, <3>3, LineNumbers
    <3> QED
      BY <1>1, <3>1, <3>4
  <2> QED
    BY <2>3, <2>4
<1>5. GoodLine(source, Here)
  BY <1>2, <1>3, <1>4, AtLineEnd
<1>6. \A k \in 1..Here : k \in 1..(Here - 1) \/ k = Here
  BY <1>1
<1>7. ASSUME token.kind = "NL" PROVE \A i \in 1..next : source[i].kind # "BAD"
  <2>1. \A i \in 1..next : i \in 1..(next - 1) \/ i = next
    BY <1>1
  <2>2. token = source[next]
    BY <1>1, <1>7, TokenIs
  <2> QED
    BY <1>3, <1>7, <2>1, <2>2
<1> QED
  BY <1>3, <1>5, <1>6, <1>7

\* Every step of the parser reports the errors of the lines it spoils.
LEMMA StepKeepsErrors ==
  ASSUME ParseTyped, Place, CodeIs, ErrorsAre, Parse
  PROVE  ErrorsAre'
<1>1. Reading /\ UNCHANGED source
  BY DEF ParseTyped, Parse, BadCharacter, Discard, NewLine, Accept, Ident, NewLabel, DuplicateLabel,
         ReferencedLabel, Instruction, Operand, Unexpected, RunOutOfMemory, LostName, Looking
<1>2. CASE BadCharacter
  <2>1. parser_error /\ token.kind = "BAD"
    BY <1>2 DEF BadCharacter
  <2>2. ~GoodLine(source, Here)
    BY <1>1, <2>1, LooksAtBadCharacter DEF GoodLine
  <2> QED
    BY <1>1, <2>1, <2>2, ReportKeepsErrors
<1>3. CASE Discard
  <2>1. /\ next' = next + 1 /\ mode = "error" /\ token.kind \notin {"NL", "BAD", "EOF"}
        /\ UNCHANGED <<mode, errstatus, errors>>
    BY <1>3 DEF Discard
  <2> QED
    BY <1>1, <2>1, TakingKeepsErrors
<1>4. CASE NewLine
  <2>1. /\ token.kind = "NL" /\ mode \in {"line", "label", "end", "error"} /\ UNCHANGED errors
        /\ next' = next + 1 /\ mode' = "line"
        /\ errstatus' = IF errstatus > 0 THEN errstatus - 1 ELSE 0
    BY <1>4 DEF NewLine, Shift
  <2>2. Here' = Here + 1 /\ Here \in Int /\ next \in Int
    BY <1>1, <2>1, PlaceAfter, CurrentFacts, TokenIs
  <2>3. Here' - 1 = Here /\ next' - 1 = next
    BY <2>1, <2>2
  <2>4. num_errors = 0 => errstatus' = 0
    BY <2>1 DEF ErrorsAre
  <2>5. num_errors = 0 => /\ \A k \in 1..Here : GoodLine(source, k)
                          /\ \A i \in 1..next : source[i].kind # "BAD"
    BY <2>1, EndedLineIsGood
  <2> QED
    BY <1>1, <2>1, <2>3, <2>4, <2>5, QuietKeepsErrors
<1>5. CASE Ident \/ NewLabel \/ ReferencedLabel
  <2>1. /\ token.kind \notin {"NL", "BAD", "EOF"} /\ UNCHANGED errors /\ next' = next + 1
        /\ mode' # "error" /\ errstatus' = IF errstatus > 0 THEN errstatus - 1 ELSE 0
    BY <1>5 DEF Ident, NewLabel, ReferencedLabel, Shift
  <2>2. errstatus = 0 => errstatus' = 0
    BY <2>1
  <2> QED
    BY <1>1, <2>1, <2>2, TakingKeepsErrors
<1>6. CASE Instruction \/ Operand
  <2>1. PICK inst \in Seq(Passed(source, next + 1)) :
          /\ token.kind \notin {"NL", "EOF", "BAD", "COLON"}
          /\ Complete(inst) \/ Shift("operands", inst)
    BY <1>6, InstructionStep
  <2>2. /\ next' = next + 1 /\ mode' # "error"
        /\ errstatus' = IF errstatus > 0 THEN errstatus - 1 ELSE 0
    BY <2>1 DEF Complete, Shift
  <2>3. UNCHANGED errors
    BY <1>6 DEF Instruction, Operand
  <2>4. errstatus = 0 => errstatus' = 0
    BY <2>2
  <2> QED
    BY <1>1, <2>1, <2>2, <2>3, <2>4, TakingKeepsErrors
<1>7. CASE DuplicateLabel
  <2>1. parser_error /\ Defined(symbol_table, partial[1].value)
    BY <1>7 DEF DuplicateLabel
  <2>2. ~GoodLine(source, Here)
    BY <1>7, <2>1, NamesDefined, DuplicatePlace
  <2> QED
    BY <1>1, <2>1, <2>2, ReportKeepsErrors
<1>8. CASE Unexpected
  <2>1. ~GoodLine(source, Here)
    BY <1>8, UnexpectedSpoils
  <2>2. CASE errstatus = 0
    <3>1. parser_error
      BY <1>8, <2>2 DEF Unexpected, SyntaxError
    <3> QED
      BY <1>1, <2>1, <3>1, ReportKeepsErrors
  <2>3. CASE errstatus # 0
    <3>1. UNCHANGED errors /\ num_errors # 0
      BY <1>8, <2>3 DEF Unexpected, SyntaxError, ErrorsAre
    <3> QED
      BY <1>1, <3>1, QuietKeepsErrors
  <2> QED
    BY <2>2, <2>3
<1>9. CASE Accept \/ RunOutOfMemory \/ LostName
  <2>1. UNCHANGED <<errors, next, mode, errstatus>>
    BY <1>9 DEF Accept, RunOutOfMemory, LostName, parse
  <2>2. Here' = Here
    BY <1>1, <2>1, PlaceAfter
  <2> QED
    BY <1>1, <2>1, <2>2, QuietKeepsErrors DEF ErrorsAre
<1> QED
  BY <1>2, <1>3, <1>4, <1>5, <1>6, <1>7, <1>8, <1>9 DEF Parse

-----------------------------------------------------------------------------
(* The end of the file: what is left to check, and what has been built.    *)

\* The parser has come to the end of the file.
AtFilesEnd ==
  /\ ParseTyped /\ Place
  /\ token.kind = "EOF" /\ mode \in {"line", "label", "end", "error"}

\* At the end of the file no line is left to be done.
LEMMA EndFacts ==
  ASSUME AtFilesEnd
  PROVE  /\ Reading /\ IsFile(source) /\ Here = Last /\ Last \in Nat
         /\ DOMAIN Lines(source) = 1..Last
         /\ Done = Giving(Lines(source)) /\ DefinedNames = Names(Lines(source))
<1>1. /\ Reading /\ IsFile(source) /\ Here = Last /\ Last \in Nat /\ Taken = Len(Current)
      /\ DOMAIN Lines(source) = 1..Last /\ Lines(source)[Here] = Current
  BY TokenIs, CurrentFacts, LooksAtEnd, LinesFacts DEF AtFilesEnd, ParseTyped, Last
<1>2. /\ mode \in {"line", "label"} => Here \notin Giving(Lines(source))
      /\ Labelled(Current) => Taken >= 2
  BY <1>1, AtLineEnd DEF AtFilesEnd
<1>3. \A j \in 1..Last : j < Here \/ j = Here
  BY <1>1
<1>4. Done = Giving(Lines(source))
  <2>1. Giving(Lines(source)) \subseteq 1..Last
    BY <1>1 DEF Giving
  <2>2. mode \in {"line", "label", "end", "error"}
    BY DEF AtFilesEnd
  <2> QED
    BY <1>2, <1>3, <2>1, <2>2 DEF Done, DoneAt
<1>5. LabelLines = {j \in DOMAIN Lines(source) : Labelled(Lines(source)[j])}
  BY <1>1, <1>2, <1>3 DEF LabelLines, LabelsAt
<1> QED
  BY <1>1, <1>4, <1>5 DEF DefinedNames, Names

\* The references left are those of the lines that refer to no label.
LEMMA UnresolvedFacts ==
  ASSUME AtFilesEnd, CodeIs
  PROVE  /\ IsFiniteSet(Unresolved)
         /\ Unresolved = {} <=> \A k \in DOMAIN Lines(source) : ~Dangling(source, k)
         /\ \A u \in Unresolved : u[2].line_num \in 1..Last /\ Dangling(source, u[2].line_num)
<1> DEFINE G == Giving(Lines(source))
           N == Names(Lines(source))
           f == [j \in G |-> <<TheName(Inst(source, j)), RefOf(source, j)>>]
           T == {f[j] : j \in G}
<1>1. /\ DOMAIN Lines(source) = 1..Last /\ IsFile(source) /\ Done = G /\ DefinedNames = N
      /\ G \in SUBSET (1..Last) /\ IsFiniteSet(G)
  BY EndFacts, GivingFacts
<1>2. \A j \in G : IsInstruction(Inst(source, j))
  BY <1>1, GivingFacts DEF Inst
<1>3. SymbolsAre(source, symbol_table, G, N)
  BY <1>1 DEF CodeIs
<1>4. \A k \in DOMAIN Lines(source) :
        Dangling(source, k) <=> k \in G /\ ~(RefersTo(Inst(source, k)) \subseteq N)
  BY DEF Dangling, Inst
<1> HIDE DEF G, N
<1>5. ASSUME NEW u \in Unresolved
      PROVE  \E j \in G : u = f[j] /\ ~(RefersTo(Inst(source, j)) \subseteq N)
  <2>1. PICK name \in DOMAIN symbol_table :
          \E ref \in symbol_table[name].refs : u = <<name, ref>>
    BY DEF Unresolved
  <2>2. PICK ref \in symbol_table[name].refs : u = <<name, ref>>
    BY <2>1
  <2>3. name \notin N
    BY <1>3, <2>2 DEF SymbolsAre
  <2>4. PICK j \in G : ref = RefOf(source, j) /\ name \in RefersTo(Inst(source, j))
    BY <1>3, <2>2, <2>3 DEF SymbolsAre
  <2>5. TheName(Inst(source, j)) = name
    BY <1>2, <2>4, OneName
  <2> QED
    BY <2>2, <2>3, <2>4, <2>5
<1>6. ASSUME NEW k \in G, ~(RefersTo(Inst(source, k)) \subseteq N)
      PROVE  Unresolved # {}
  <2>1. PICK name \in RefersTo(Inst(source, k)) : name \notin N
    BY <1>6
  <2>2. name \in DOMAIN symbol_table
    BY <1>3, <2>1 DEF SymbolsAre
  <2>3. RefOf(source, k) \in symbol_table[name].refs
    BY <1>3, <2>1, <2>2 DEF SymbolsAre
  <2>4. <<name, RefOf(source, k)>> \in Unresolved
    BY <2>2, <2>3 DEF Unresolved
  <2> QED
    BY <2>4
<1>7. IsFiniteSet(Unresolved)
  <2>1. f \in Surjection(G, T)
    BY DEF Surjection
  <2>2. IsFiniteSet(T)
    <3> HIDE DEF f, T
    <3> QED
      BY <1>1, <2>1, FS_Surjection
  <2>3. Unresolved \in SUBSET T
    BY <1>5
  <2> HIDE DEF T
  <2> QED
    BY <2>2, <2>3, FS_Subset
<1>8. ASSUME NEW u \in Unresolved
      PROVE  u[2].line_num \in 1..Last /\ Dangling(source, u[2].line_num)
  <2>1. PICK j \in G : u = f[j] /\ ~(RefersTo(Inst(source, j)) \subseteq N)
    BY <1>5
  <2>2. u[2].line_num = j
    BY <2>1 DEF RefOf
  <2> QED
    BY <1>1, <1>4, <2>1, <2>2
<1>9. ASSUME NEW k \in DOMAIN Lines(source), Dangling(source, k)
      PROVE  Unresolved # {}
  BY <1>4, <1>6, <1>9
<1> QED
  BY <1>1, <1>7, <1>8, <1>9

\* With a label for every name, the text built in one pass is the program.
LEMMA TextIsTheProgram ==
  ASSUME AtFilesEnd, CodeTyped, CodeIs, \A k \in DOMAIN Lines(source) : ~Dangling(source, k)
  PROVE  text = Program(source)
<1> DEFINE lines == Lines(source)
           G == Giving(lines)
           N == Names(lines)
           AddressIn(inst) == IF RefersTo(inst) = {} THEN 0
                              ELSE Address(lines, CHOOSE name \in RefersTo(inst) : TRUE)
<1>1. /\ IsFile(source) /\ Done = G /\ DefinedNames = N
      /\ G \in SUBSET Int /\ IsFiniteSet(G) /\ \A k \in G : k \in DOMAIN Lines(source)
  BY EndFacts, GivingFacts
<1>2. TextIs(source, text, G, N)
  BY <1>1 DEF CodeIs
<1>3. Program(source) = [n \in 1..Cardinality(G) |->
                           Encode(Inst(source, Nth(G, n)), AddressIn(Inst(source, Nth(G, n))))]
  BY DEF Program, Inst
<1>4. ASSUME NEW j \in G, NEW w, WordIs(source, w, j, N)
      PROVE  w = Encode(Inst(source, j), AddressIn(Inst(source, j)))
  <2>1. PICK a \in Int : /\ w = Encode(Inst(source, j), a)
                         /\ RefersTo(Inst(source, j)) = {} => a = 0
                         /\ \A name \in RefersTo(Inst(source, j)) \cap N : a = Address(lines, name)
    BY <1>4 DEF WordIs
  <2>2. RefersTo(Inst(source, j)) \subseteq N
    BY <1>1 DEF Dangling, Inst
  <2>3. a = AddressIn(Inst(source, j))
    <3>1. RefersTo(Inst(source, j)) # {} =>
            (CHOOSE name \in RefersTo(Inst(source, j)) : TRUE) \in RefersTo(Inst(source, j))
      OBVIOUS
    <3> HIDE DEF lines, N
    <3> QED
      BY <2>1, <2>2, <3>1
  <2> QED
    BY <2>1, <2>3
<1> HIDE DEF G, N, AddressIn
<1>5. ASSUME NEW n \in 1..Cardinality(G)
      PROVE  text[n] = Encode(Inst(source, Nth(G, n)), AddressIn(Inst(source, Nth(G, n))))
  <2>1. Nth(G, n) \in G /\ Before(G, Nth(G, n)) = n - 1
    BY <1>1, NthExists
  <2>2. WordsBefore(Lines(source), Nth(G, n)) + 1 = n
    BY <2>1 DEF WordsBefore, G
  <2>3. WordIs(source, text[n], Nth(G, n), N)
    BY <1>2, <2>1, <2>2 DEF TextIs
  <2> QED
    BY <1>4, <2>1, <2>3
<1>6. text = [n \in 1..Cardinality(G) |-> text[n]]
  <2>1. text \in [1..Len(text) -> Word] /\ Len(text) = Cardinality(G)
    BY <1>2, LenProperties DEF CodeTyped, TextIs
  <2> QED
    BY <2>1
<1> QED
  BY <1>3, <1>5, <1>6

\* What the assembler answers: whether the file is a program, and which.
Answer ==
  /\ num_errors \in Nat /\ reported \subseteq 1..Last
  /\ num_errors = 0 <=> WellFormed(source)
  /\ WellFormed(source) => text = Program(source)
  /\ Len(text) = Cardinality(Giving(Lines(source)))
  /\ \A k \in reported : Spoiled(source, k) \/ Dangling(source, k)

\* The last pass over the symbols completes the answer (symbol.c:136-146).
LEMMA CheckGivesAnswer ==
  ASSUME AtFilesEnd, CodeTyped, CodeIs, ErrorsAre, code_check_refs
  PROVE  Answer'
<1> DEFINE D == DOMAIN Lines(source)
           c == Cardinality(Unresolved)
<1>1. /\ UNCHANGED <<source, text>> /\ num_errors' = num_errors + c
      /\ reported' = reported \cup {u[2].line_num : u \in Unresolved}
  BY DEF code_check_refs, code
<1>2. /\ D = 1..Last /\ Here = Last /\ Last \in Nat
      /\ Done = Giving(Lines(source))
  BY EndFacts
<1>3. num_errors \in Nat /\ reported \subseteq 1..Last /\ \A k \in reported : Spoiled(source, k)
  BY DEF ErrorsAre
<1>4. num_errors = 0 <=> \A k \in D : GoodLine(source, k)
  <2>1. num_errors # 0 => \E k \in D : ~GoodLine(source, k)
    BY DEF ErrorsAre
  <2>2. num_errors = 0 => \A k \in 1..Here : GoodLine(source, k)
    BY EndedLineIsGood DEF AtFilesEnd
  <2> QED
    BY <1>2, <2>1, <2>2
<1>5. c \in Nat /\ (c = 0 <=> \A k \in D : ~Dangling(source, k))
  BY UnresolvedFacts, FS_CardinalityType, FS_EmptySet
<1>6. num_errors' \in Nat /\ (num_errors' = 0 <=> num_errors = 0 /\ c = 0)
  <2> HIDE DEF c
  <2> QED
    BY <1>1, <1>3, <1>5
<1>7. num_errors' = 0 <=> WellFormed(source)
  BY <1>4, <1>5, <1>6 DEF WellFormed
<1>8. WellFormed(source) => text = Program(source)
  BY TextIsTheProgram DEF WellFormed
<1>9. Len(text) = Cardinality(Giving(Lines(source)))
  BY <1>2 DEF CodeIs, TextIs
<1>10. /\ reported' \subseteq 1..Last
       /\ \A k \in reported' : Spoiled(source, k) \/ Dangling(source, k)
  BY <1>1, <1>3, UnresolvedFacts
<1> QED
  BY <1>1, <1>6, <1>7, <1>8, <1>9, <1>10 DEF Answer, Last

-----------------------------------------------------------------------------
(* All of it holds of every state.                                         *)

\* The inductive invariant: where the parser stands in its line, what the
\* lines done with have given, what has been reported of them, and at the end
\* the answer.
Assembled ==
  /\ ParseTyped /\ CodeTyped /\ Place
  /\ status \in {"parsing", "parsed", "checked", "died", "crashed"}
  /\ status # "crashed" => CodeIs
  /\ status # "checked" => ErrorsAre
  /\ status = "parsed" => AtFilesEnd
  /\ status = "checked" => Answer

\* At the start of a file nothing is done.
LEMMA AssembledInitially == Init => Assembled
<1> SUFFICES ASSUME Init PROVE Assembled
  OBVIOUS
<1>1. /\ source \in Sources /\ next = 1 /\ mode = "line" /\ partial = <<>> /\ errstatus = 0
      /\ num_errors = 0 /\ reported = {} /\ text = <<>> /\ symbol_table = <<>>
      /\ status = "parsing"
  BY DEF Init
<1>2. IsFile(source) /\ Len(source) \in Nat
  BY <1>1, SourcesAreFiles DEF IsFile
<1>3. Reading
  BY <1>1, <1>2 DEF Reading
<1>4. Here = 1 /\ Taken = 0
  BY <1>1, <1>2, AtFileStart DEF Here, Taken
<1>5. ParseTyped
  BY <1>1, <1>3 DEF ParseTyped
<1>6. CodeTyped
  BY <1>1 DEF CodeTyped, SymbolsTyped
<1>7. Place
  BY <1>1, <1>4 DEF Place, PlaceAt
<1>8. Done = {} /\ DefinedNames = {}
  <2>1. Giving(Lines(source)) \subseteq DOMAIN Lines(source)
    BY DEF Giving
  <2>2. \A j \in DOMAIN Lines(source) : j \in Nat /\ j >= 1 /\ ~(j < 1)
    BY <1>2, LinesFacts
  <2>3. Done = {}
    BY <1>1, <1>4, <2>1, <2>2 DEF Done, DoneAt
  <2>4. LabelLines = {}
    BY <1>4, <2>2 DEF LabelLines, LabelsAt
  <2> QED
    BY <2>3, <2>4 DEF DefinedNames
<1>9. CodeIs
  <2>1. Len(text) = 0 /\ DOMAIN symbol_table = {}
    BY <1>1
  <2> QED
    BY <1>8, <2>1, FS_EmptySet DEF CodeIs, SymbolsAre, TextIs
<1>10. ErrorsAre
  BY <1>1, <1>4 DEF ErrorsAre
<1> QED
  BY <1>1, <1>5, <1>6, <1>7, <1>9, <1>10 DEF Assembled

\* A step of the parser keeps it.
LEMMA ParseKeepsAssembled ==
  ASSUME Assembled, Parse
  PROVE  Assembled'
<1>1. status = "parsing" /\ UNCHANGED source
  BY DEF Parse, BadCharacter, Discard, NewLine, Accept, Ident, NewLabel, DuplicateLabel,
         ReferencedLabel, Instruction, Operand, Unexpected, RunOutOfMemory, LostName, Looking
<1>2. ParseTyped /\ CodeTyped /\ Place /\ CodeIs /\ ErrorsAre
  BY <1>1 DEF Assembled
<1>3. ParseTyped' /\ CodeTyped'
  BY <1>2, ParseKeepsTypes, ParseKeepsCode
<1>4. Place' /\ (status' # "crashed" => CodeIs') /\ ErrorsAre'
  BY <1>2, StepKeepsCode, StepKeepsErrors
<1>5. /\ status' \in {"parsing", "parsed", "died", "crashed"}
      /\ status' = "parsed" => Accept
  <2>1. CASE BadCharacter \/ Discard \/ NewLine \/ Ident \/ NewLabel \/ DuplicateLabel
    BY <1>1, <2>1 DEF BadCharacter, Discard, NewLine, Ident, NewLabel, DuplicateLabel
  <2>2. CASE Instruction \/ Operand \/ Unexpected
    BY <1>1, <2>2 DEF Instruction, Operand, Unexpected, SyntaxError
  <2>3. CASE ReferencedLabel
    BY <1>1, <2>3 DEF ReferencedLabel
  <2>4. CASE Accept \/ RunOutOfMemory \/ LostName
    BY <2>4 DEF Accept, RunOutOfMemory, LostName
  <2> QED
    BY <2>1, <2>2, <2>3, <2>4 DEF Parse
<1>6. Accept => AtFilesEnd'
  <2> SUFFICES ASSUME Accept PROVE AtFilesEnd'
    OBVIOUS
  <2>1. UNCHANGED <<source, next, mode>>
    BY <1>1 DEF Accept, parse
  <2>2. token' = token
    BY <2>1 DEF token, AtEnd
  <2> QED
    BY <1>3, <1>4, <2>1, <2>2 DEF AtFilesEnd, Accept
<1> QED
  BY <1>3, <1>4, <1>5, <1>6 DEF Assembled

\* Nothing that is said depends on more than what the parser keeps.
LEMMA AssembledStays ==
  ASSUME Assembled, UNCHANGED <<source, parse, errors, text, symbol_table, status>>
  PROVE  Assembled'
<1>1. UNCHANGED <<source, next, mode, partial, errstatus, num_errors, reported, text,
                  symbol_table, status>>
  BY DEF parse, errors
<1>2. /\ UNCHANGED <<Here, Last, Taken, Done, LabelLines, DefinedNames, token>>
  BY <1>1 DEF Here, Last, Taken, Done, LabelLines, DefinedNames, token, AtEnd
<1>3. ParseTyped' /\ CodeTyped' /\ Place'
  BY <1>1, <1>2, StandingKeepsTypes DEF Assembled, parse, CodeTyped, Place
<1>4. (CodeIs' <=> CodeIs) /\ (ErrorsAre' <=> ErrorsAre) /\ (Answer' <=> Answer)
  BY <1>1, <1>2 DEF CodeIs, ErrorsAre, Answer
<1>5. AtFilesEnd => AtFilesEnd'
  BY <1>1, <1>2, <1>3 DEF AtFilesEnd
<1> QED
  BY <1>1, <1>3, <1>4, <1>5 DEF Assembled

\* So does the check at the end.
LEMMA CheckKeepsAssembled ==
  ASSUME Assembled, code_check_refs
  PROVE  Assembled'
<1>1. /\ status = "parsed" /\ status' = "checked"
      /\ UNCHANGED <<source, next, mode, partial, errstatus, text, symbol_table, parse>>
  BY DEF code_check_refs, parse, code
<1>2. UNCHANGED <<Here, Taken, Done, LabelLines, DefinedNames>>
  BY <1>1 DEF Here, Taken, Done, LabelLines, DefinedNames
<1>3. Answer'
  BY <1>1, CheckGivesAnswer DEF Assembled
<1>4. ParseTyped' /\ CodeTyped' /\ Place'
  BY <1>1, <1>2, StandingKeepsTypes DEF Assembled, CodeTyped, Place
<1>5. CodeIs'
  BY <1>1, <1>2 DEF Assembled, CodeIs
<1> QED
  BY <1>1, <1>3, <1>4, <1>5 DEF Assembled

\* Every step keeps the inductive invariant.
LEMMA AssembledAlways == Spec => []Assembled
<1>1. Assembled /\ [Next]_avars => Assembled'
  <2> SUFFICES ASSUME Assembled, [Next]_avars PROVE Assembled'
    OBVIOUS
  <2>1. CASE Finished \/ UNCHANGED avars
    BY <2>1, AssembledStays DEF Finished, avars, code
  <2> QED
    BY <2>1, ParseKeepsAssembled, CheckKeepsAssembled DEF Next
<1> QED
  BY <1>1, AssembledInitially, PTL DEF Spec

-----------------------------------------------------------------------------
(* What the assembler answers.                                             *)

\* Whatever the file, every variable keeps its type; the text stays within what
\* is allocated and the symbols within the text (rbml_parser.y, code.c, symbol.c).
THEOREM TypesStay == Spec => []TypeOK
<1>1. Assembled /\ Inv => TypeOK
  <2> SUFFICES ASSUME Assembled, Inv PROVE TypeOK
    OBVIOUS
  <2>1. ParseTyped /\ CodeTyped /\ TextFits
    BY DEF Assembled, Inv, Room, TextFits
  <2>2. num_errors \in Nat /\ reported \subseteq 1..LineNumber(source, Len(source) + 1)
    BY DEF Assembled, ErrorsAre, Answer, Last
  <2>3. \A i \in DOMAIN partial : partial[i] \in {source[j] : j \in 1..(next - 1)}
    <3>1. partial \in Seq(Passed(source, next))
      BY <2>1 DEF ParseTyped
    <3>2. DOMAIN partial = 1..Len(partial)
      BY <3>1, LenProperties
    <3>3. \A i \in 1..Len(partial) : partial[i] \in Passed(source, next)
      BY <3>1, ElementOfSeq
    <3> QED
      BY <3>2, <3>3 DEF Passed
  <2>4. \A name \in DOMAIN symbol_table :
          symbol_table[name] \in [line_num : Nat, offset : 0..Len(text),
                                  refs : SUBSET [line_num : Nat, offset : 0..Len(text)]]
    BY <2>1 DEF CodeTyped, SymbolsTyped, SymbolType, RefType
  <2> QED
    BY <2>1, <2>2, <2>3, <2>4 DEF TypeOK, Assembled, ParseTyped, Reading, CodeTyped
<1> QED
  BY <1>1, AssembledAlways, InvAlways, PTL

\* Whatever the file, the assembler ends without an error if, and only if, every
\* line is one the grammar accepts, no label is defined twice and every name
\* that is referred to is a label: what yacc keeps to itself while it recovers
\* hides no error, and recovery invents none (rbml_parser.y, symbol.c:136-146).
THEOREM ErrorsTellIllFormed == Spec => []ErrorsIffIllFormed
<1>1. Assembled => ErrorsIffIllFormed
  BY DEF Assembled, Answer, ErrorsIffIllFormed
<1> QED
  BY <1>1, AssembledAlways, PTL

\* Whatever the program, the text built in one pass, with the words that refer
\* to a label patched when it appears, is the one two passes define
\* (code.c:64-132, symbol.c:117-130).
THEOREM OnePassIsTwo == Spec => []TextIsProgram
<1>1. Assembled => TextIsProgram
  BY DEF Assembled, Answer, TextIsProgram
<1> QED
  BY <1>1, AssembledAlways, PTL

\* Whatever the file, every line that holds a complete instruction and whose
\* label is its own gives one word, and no other line gives one: an error costs
\* its own line only (rbml_parser.y:51-57).
THEOREM ErrorsCostTheirLine == Spec => []RecoversAtNextLine
<1>1. Assembled => RecoversAtNextLine
  BY DEF Assembled, Answer, RecoversAtNextLine
<1> QED
  BY <1>1, AssembledAlways, PTL

\* Whatever the file, a line that is reported is in error or comes right behind
\* one that is (rbml_lex.l:16, parser.c:63-74).
THEOREM ReportsAreOfErrors == Spec => []ReportedIsInError
<1>1. Assembled => ReportedIsInError
  BY DEF Assembled, Answer, Spoiled, ReportedIsInError
<1> QED
  BY <1>1, AssembledAlways, PTL

-----------------------------------------------------------------------------
(* The command around it.                                                  *)

\* The text is in the output file, or was lost without anybody looking.
Stored == ~lost /\ output_file # "wild" => output = {text}

\* The inductive invariant of the command: a file is written only for a text
\* without errors, and only the last exit says so.
Commanded ==
  /\ Assembled
  /\ stage \in {"writing", "closing"} => status = "checked" /\ num_errors = 0
  /\ stage = "freeing" => status = "checked" /\ (num_errors = 0 => Stored)
  /\ exit_status = "0" => /\ stage = "exited" /\ status = "checked" /\ num_errors = 0
                          /\ Stored

\* The steps around the parser leave what it has answered alone.
LEMMA AroundTheParser ==
  ASSUME Commanded, UNCHANGED avars
  PROVE  Assembled' /\ UNCHANGED <<source, status, num_errors, text>>
<1>1. UNCHANGED <<source, parse, errors, code, status>>
  BY DEF avars
<1> QED
  BY <1>1, AssembledStays DEF Commanded, code, errors

\* The parser's steps are taken before anything is written.
LEMMA AssembleKeepsCommanded ==
  ASSUME Commanded, Assemble
  PROVE  Commanded' /\ UNCHANGED output
<1>1. stage = "assembling" /\ UNCHANGED <<option, output_file, written>>
  BY DEF Assemble
<1>2. Assembled'
  BY ParseKeepsAssembled, CheckKeepsAssembled DEF Assemble, Commanded
<1>3. /\ stage' \in {"assembling", "exited"}
      /\ exit_status' \in {exit_status, "1", "signal"}
  BY <1>1 DEF Assemble, Exit, process
<1>4. exit_status # "0"
  BY <1>1 DEF Commanded
<1> QED
  BY <1>1, <1>2, <1>3, <1>4 DEF Commanded, written

\* Every step keeps it, and only those taken for a program write the output.
LEMMA CommandStep ==
  ASSUME Commanded, [RNext]_rvars
  PROVE  Commanded' /\ (~WellFormed(source) => output' = output)
<1>1. CASE Assemble
  BY <1>1, AssembleKeepsCommanded
<1>2. ASSUME UNCHANGED avars
      PROVE  Assembled' /\ UNCHANGED <<source, status, num_errors, text>>
  BY <1>2, AroundTheParser
<1>3. status = "checked" /\ num_errors = 0 => WellFormed(source)
  BY DEF Commanded, Assembled, Answer
<1>4. stage # "exited" => exit_status # "0"
  BY DEF Commanded
<1>5. CASE Options \/ OpenInput
  <2>1. UNCHANGED <<avars, written>> /\ stage # "exited"
    BY <1>5 DEF Options, OpenInput
  <2>2. /\ stage' \in {"opening", "assembling", "exited"}
        /\ exit_status' \in {exit_status, "1"}
    BY <1>5 DEF Options, OpenInput, GoOn, Exit
  <2> QED
    BY <1>2, <1>4, <2>1, <2>2 DEF Commanded, written
<1>6. CASE ReportTotal
  <2>1. /\ UNCHANGED <<avars, written, exit_status>> /\ stage' = "freeing"
        /\ stage # "exited" /\ status = "checked" /\ num_errors # 0
    BY <1>6 DEF ReportTotal, GoOn
  <2> QED
    BY <1>2, <1>4, <2>1 DEF Commanded, written
<1>7. CASE OpenOutput
  <2>1. /\ UNCHANGED <<avars, lost>> /\ stage # "exited" /\ status = "checked" /\ num_errors = 0
        /\ stage' \in {"writing", "exited"} /\ exit_status' \in {exit_status, "1", "signal"}
    BY <1>7 DEF OpenOutput, GoOn, Exit
  <2> QED
    BY <1>2, <1>3, <1>4, <2>1 DEF Commanded
<1>8. CASE Write
  <2>1. /\ UNCHANGED <<avars, lost>> /\ stage = "writing"
        /\ stage' \in {"closing", "exited"} /\ exit_status' \in {exit_status, "1"}
    BY <1>8 DEF Write, GoOn, Exit
  <2> QED
    BY <1>2, <1>3, <1>4, <2>1 DEF Commanded
<1>9. CASE Close
  <2>1. /\ UNCHANGED <<avars, output_file, exit_status>> /\ stage = "closing" /\ stage' = "freeing"
        /\ output_file # "wild" => output' = {text} \/ lost'
    BY <1>9 DEF Close, GoOn
  <2> QED
    BY <1>2, <1>3, <1>4, <2>1 DEF Commanded, Stored
<1>10. CASE Free
  <2>1. /\ UNCHANGED <<avars, output_file, written>> /\ stage = "freeing" /\ stage' = "exited"
        /\ exit_status' = "0" => num_errors = 0
    BY <1>10 DEF Free, Exit
  <2> QED
    BY <1>2, <2>1 DEF Commanded, Stored, written
<1>11. CASE Exited \/ UNCHANGED rvars
  <2>1. UNCHANGED <<avars, output_file, written, stage, exit_status>>
    BY <1>11 DEF Exited, rvars, process
  <2> QED
    BY <1>2, <2>1 DEF Commanded, Stored, written
<1> QED
  BY <1>1, <1>5, <1>6, <1>7, <1>8, <1>9, <1>10, <1>11 DEF RNext

\* So it holds of every state of the command.
LEMMA CommandedAlways == RSpec => []Commanded
<1>1. RInit => Commanded
  BY AssembledInitially DEF RInit, Commanded
<1>2. Commanded /\ [RNext]_rvars => Commanded'
  BY CommandStep
<1> QED
  BY <1>1, <1>2, PTL DEF RSpec

\* Whatever the file, whatever stdio buffers and whichever call fails: the
\* command that exits with status 0 has read a program, and the output file
\* holds it, but for a failing fclose and a name that was never set
\* (rbmlc.c:130-142, code.c:137-152).
THEOREM SuccessTells == RSpec => []SuccessHoldsProgram
<1>1. Commanded => SuccessHoldsProgram
  <2> SUFFICES ASSUME Commanded, exit_status = "0", ~lost, output_file # "wild"
               PROVE  WellFormed(source) /\ output = {Program(source)}
    BY DEF SuccessHoldsProgram
  <2>1. status = "checked" /\ num_errors = 0 /\ output = {text}
    BY DEF Commanded, Stored
  <2>2. WellFormed(source) /\ text = Program(source)
    BY <2>1 DEF Commanded, Assembled, Answer
  <2> QED
    BY <2>1, <2>2
<1> QED
  BY <1>1, CommandedAlways, PTL

\* Whatever the file, no step of the command touches the output file unless
\* what was read is a program (rbmlc.c:134-138).
THEOREM BadSourcesKeepOutput == RSpec => BadSourceKeepsOutput
<1>1. Commanded /\ [RNext]_rvars => [~WellFormed(source) => output' = output]_rvars
  BY CommandStep
<1> QED
  BY <1>1, CommandedAlways, PTL DEF RSpec, BadSourceKeepsOutput
=============================================================================
