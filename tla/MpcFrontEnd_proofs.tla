------------------------- MODULE MpcFrontEnd_proofs -------------------------
(***************************************************************************)
(* The front end reads the lines of the file and gives what they mean, for *)
(* every file and every length of the buffer, as long as mpc_parse gives   *)
(* what each line means.                                                   *)
(***************************************************************************)
EXTENDS MpcFrontEnd, Recursion_proofs, SequenceTheorems, FiniteSetTheorems, TLAPS

\* The least number of a set is the one that is no greater than any.
LEMMA MinIs ==
  ASSUME NEW S \in SUBSET Int, NEW m \in S, \A x \in S : m <= x
  PROVE  Min(S) = m
<1>1. \A y \in S : (\A x \in S : y <= x) => y = m
  OBVIOUS
<1> QED
  BY <1>1 DEF Min

-----------------------------------------------------------------------------
(* The characters of a file and its newlines.                              *)

Total == Cardinality(Newlines) + (IF Terminated THEN 0 ELSE 1)

LEMMA FileFacts ==
  ASSUME file \in Files
  PROVE  /\ file.text \in Seq(Range(file.text)) /\ Len(file.text) \in Nat
         /\ DOMAIN file.text = 1..Len(file.text)
         /\ BUFSIZE \in Nat /\ BUFSIZE >= 2
         /\ Newlines \in SUBSET Int /\ IsFiniteSet(Newlines)
         /\ \A i : i \in Newlines <=> i \in 1..Len(file.text) /\ file.text[i] = "LF"
         /\ Cardinality(Newlines) \in Nat /\ Total \in Nat
         /\ DOMAIN Lines = 1..Total
<1>1. /\ file.text \in Seq(Range(file.text)) /\ Len(file.text) \in Nat
      /\ DOMAIN file.text = 1..Len(file.text)
      /\ BUFSIZE \in Nat /\ BUFSIZE >= 2
  BY FilesAssumption
<1>2. Newlines \in SUBSET (1..Len(file.text))
  BY <1>1 DEF Newlines
<1>3. IsFiniteSet(1..Len(file.text))
  BY <1>1, FS_Interval
<1>4. IsFiniteSet(Newlines)
  BY <1>2, <1>3, FS_Subset
<1>5. Cardinality(Newlines) \in Nat
  BY <1>4, FS_CardinalityType
<1>6. \A i : i \in Newlines <=> i \in 1..Len(file.text) /\ file.text[i] = "LF"
  BY <1>1 DEF Newlines
<1>7. DOMAIN Lines = 1..Total
  BY DEF Lines, Total
<1> QED
  BY <1>1, <1>2, <1>4, <1>5, <1>6, <1>7 DEF Total

\* A place at the start of a line: the beginning of the file, or where a newline is,
\* with n newlines up to it.
LineStart(s, n) == s \in Newlines \cup {0} /\ Before(Newlines, s + 1) = n

\* No newline from s, exclusive, to e, exclusive.
Clear(s, e) == \A i \in Newlines : i <= s \/ e <= i

\* The place is that of the newline with its number.
LEMMA StartNumber ==
  ASSUME file \in Files, NEW s, NEW n, LineStart(s, n)
  PROVE  /\ s \in 0..Len(file.text) /\ n \in 0..Cardinality(Newlines)
         /\ NewlineNumber(n) = s
<1>1. /\ Newlines \in SUBSET Int /\ IsFiniteSet(Newlines) /\ Cardinality(Newlines) \in Nat
      /\ Len(file.text) \in Nat
      /\ \A i : i \in Newlines <=> i \in 1..Len(file.text) /\ file.text[i] = "LF"
  BY FileFacts
<1>2. s \in 0..Len(file.text) /\ s \in Int
  BY <1>1 DEF LineStart
<1>3. n = Before(Newlines, s + 1) /\ n \in Nat /\ n <= Cardinality(Newlines)
  BY <1>1, BeforeType DEF LineStart
<1>4. CASE s = 0
  <2>1. \A j \in Newlines : 1 <= j
    BY <1>1
  <2>2. Before(Newlines, 1) = 0
    BY <1>1, <2>1, BeforeLeast
  <2> QED
    BY <1>2, <1>3, <1>4, <2>2 DEF NewlineNumber
<1>5. CASE s # 0
  <2>1. s \in Newlines
    BY <1>5 DEF LineStart
  <2>2. Before(Newlines, s + 1) = Before(Newlines, s) + 1
    BY <1>1, <1>2, <2>1, BeforeNext
  <2>3. /\ Before(Newlines, s) + 1 \in 1..Cardinality(Newlines)
        /\ Nth(Newlines, Before(Newlines, s) + 1) = s
    BY <1>1, <2>1, NthIs
  <2>4. n \in 1..Cardinality(Newlines) /\ n # 0 /\ Nth(Newlines, n) = s
    BY <1>3, <2>2, <2>3
  <2> QED
    BY <1>2, <1>3, <2>4 DEF NewlineNumber
<1> QED
  BY <1>4, <1>5

\* The next newline has the next number, and ends the next line.
LEMMA NextStart ==
  ASSUME file \in Files, NEW s, NEW n, LineStart(s, n),
         NEW e \in Newlines, s < e, Clear(s, e)
  PROVE  /\ LineStart(e, n + 1)
         /\ n + 1 \in 1..Total
         /\ Lines[n + 1] = SubSeq(file.text, s + 1, e - 1)
         /\ n + 1 = Total => Terminated
<1>1. /\ Newlines \in SUBSET Int /\ IsFiniteSet(Newlines) /\ Cardinality(Newlines) \in Nat
      /\ Len(file.text) \in Nat /\ Total \in Nat /\ DOMAIN Lines = 1..Total
      /\ \A i : i \in Newlines <=> i \in 1..Len(file.text) /\ file.text[i] = "LF"
  BY FileFacts
<1>2. s \in 0..Len(file.text) /\ n \in 0..Cardinality(Newlines) /\ NewlineNumber(n) = s
  BY StartNumber
<1>3. Before(Newlines, e) = Before(Newlines, s + 1)
  <2>1. \A j \in Newlines : j < e <=> j < s + 1
    BY <1>1, <1>2 DEF Clear
  <2>2. {j \in Newlines : j < e} = {j \in Newlines : j < s + 1}
    BY <2>1
  <2> QED
    BY <2>2 DEF Before
<1>4. Before(Newlines, e + 1) = n + 1
  <2>1. Before(Newlines, e + 1) = Before(Newlines, e) + 1
    BY <1>1, BeforeNext
  <2> QED
    BY <1>3, <2>1 DEF LineStart
<1>5. LineStart(e, n + 1)
  BY <1>4 DEF LineStart
<1>6. n + 1 \in 0..Cardinality(Newlines) /\ NewlineNumber(n + 1) = e
  BY <1>5, StartNumber
<1>7. n + 1 \in 1..Total
  BY <1>1, <1>2, <1>6 DEF Total
<1>8. Lines[n + 1] = SubSeq(file.text, NewlineNumber((n + 1) - 1) + 1, NewlineNumber(n + 1) - 1)
  BY <1>1, <1>7 DEF Lines
<1>9. (n + 1) - 1 = n
  BY <1>2
<1>10. n + 1 = Total => Terminated
  BY <1>1, <1>2, <1>6 DEF Total
<1> QED
  BY <1>2, <1>5, <1>6, <1>7, <1>8, <1>9, <1>10

\* What follows the last newline is a line with the last number, if it is not empty.
LEMMA LastStart ==
  ASSUME file \in Files, NEW s, NEW n, LineStart(s, n), Clear(s, Len(file.text) + 1)
  PROVE  /\ s = Len(file.text) => n = Total
         /\ s < Len(file.text) =>
              /\ n + 1 = Total /\ n + 1 \in 1..Total /\ ~Terminated
              /\ Lines[n + 1] = SubSeq(file.text, s + 1, Len(file.text))
<1>1. /\ Newlines \in SUBSET Int /\ IsFiniteSet(Newlines) /\ Cardinality(Newlines) \in Nat
      /\ Len(file.text) \in Nat /\ Total \in Nat /\ DOMAIN Lines = 1..Total
      /\ \A i : i \in Newlines <=> i \in 1..Len(file.text) /\ file.text[i] = "LF"
  BY FileFacts
<1>2. s \in 0..Len(file.text) /\ n \in 0..Cardinality(Newlines) /\ NewlineNumber(n) = s
  BY StartNumber
<1>3. n = Cardinality(Newlines)
  <2>1. \A j \in Newlines : j < s + 1
    BY <1>1, <1>2 DEF Clear
  <2> QED
    BY <1>1, <1>2, <2>1, BeforeAll DEF LineStart
<1>4. ASSUME s = Len(file.text) PROVE n = Total
  BY <1>1, <1>3, <1>4 DEF Total, Terminated, LineStart
<1>5. ASSUME s < Len(file.text)
      PROVE  /\ n + 1 = Total /\ n + 1 \in 1..Total /\ ~Terminated
             /\ Lines[n + 1] = SubSeq(file.text, s + 1, Len(file.text))
  <2>1. ~Terminated
    BY <1>1, <1>2, <1>5 DEF Terminated, Clear
  <2>2. n + 1 = Total /\ n + 1 \in 1..Total
    BY <1>1, <1>3, <2>1 DEF Total
  <2>3. NewlineNumber(n + 1) = Len(file.text) + 1
    BY <1>1, <1>3 DEF NewlineNumber
  <2>4. Lines[n + 1] = SubSeq(file.text, NewlineNumber((n + 1) - 1) + 1, NewlineNumber(n + 1) - 1)
    BY <1>1, <2>2 DEF Lines
  <2>5. (n + 1) - 1 = n /\ (Len(file.text) + 1) - 1 = Len(file.text)
    BY <1>1, <1>2
  <2> QED
    BY <1>2, <2>1, <2>2, <2>3, <2>4, <2>5
<1> QED
  BY <1>4, <1>5

\* There is a next newline, or none.
LEMMA NextOrLast ==
  ASSUME file \in Files, NEW s, NEW n, LineStart(s, n)
  PROVE  \/ \E e \in Newlines : s < e /\ Clear(s, e)
         \/ Clear(s, Len(file.text) + 1)
<1> DEFINE S == {i \in Newlines : s < i}
<1>1. /\ Newlines \in SUBSET Int /\ Len(file.text) \in Nat
      /\ \A i : i \in Newlines <=> i \in 1..Len(file.text) /\ file.text[i] = "LF"
  BY FileFacts
<1>2. s \in 0..Len(file.text)
  BY StartNumber
<1>3. CASE S = {}
  BY <1>1, <1>2, <1>3 DEF Clear
<1>4. CASE S # {}
  <2>1. S \subseteq Nat
    BY <1>1
  <2>2. PICK e \in S : \A k \in S : e <= k
    BY <1>4, <2>1, LeastNatural
  <2>3. \A i \in Newlines : i <= s \/ e <= i
    BY <1>1, <1>2, <2>2
  <2> QED
    BY <2>2, <2>3 DEF Clear
<1> QED
  BY <1>3, <1>4

-----------------------------------------------------------------------------
(* Pieces of the file.                                                     *)

Piece(a, b) == SubSeq(file.text, a, b)

LEMMA PieceIs ==
  ASSUME file \in Files, NEW a \in 1..(Len(file.text) + 1), NEW b \in (a - 1)..Len(file.text)
  PROVE  /\ Piece(a, b) \in Seq(Range(file.text)) /\ Len(Piece(a, b)) = (b - a) + 1
         /\ DOMAIN Piece(a, b) = 1..((b - a) + 1)
         /\ \A i \in 1..((b - a) + 1) : Piece(a, b)[i] = file.text[a + i - 1]
         /\ a \in Int /\ b \in Int /\ (b - a) + 1 \in Nat
         /\ \A i \in a..b : file.text[i] \in Range(file.text)
<1> DEFINE T == file.text
           R == Range(T)
<1>1. T \in Seq(R) /\ Len(T) \in Nat /\ DOMAIN T = 1..Len(T)
  BY FileFacts
<1>2. a \in Int /\ b \in Int /\ (b - a) + 1 \in Nat /\ a..b \subseteq 1..Len(T)
  BY <1>1
<1>3. \A i \in a..b : T[i] \in R
  <2> HIDE DEF T
  <2> QED
    BY <1>1, <1>2 DEF Range
<1> DEFINE P == SubSeq(T, a, b)
<1>4. /\ P \in Seq(R) /\ Len(P) = (IF a <= b THEN b - a + 1 ELSE 0)
      /\ \A i \in 1..(b - a + 1) : P[i] = T[a + i - 1]
  <2> HIDE DEF T, R
  <2> QED
    BY <1>2, <1>3, SubSeqProperties
<1>5. Len(P) = (b - a) + 1
  BY <1>2, <1>4
<1>6. DOMAIN P = 1..((b - a) + 1)
  <2> HIDE DEF P
  <2> QED
    BY <1>4, <1>5
<1> QED
  BY <1>2, <1>3, <1>4, <1>5, <1>6 DEF Piece

\* The first character of a set in a piece, or just past it, is at m.
FirstAt(a, b, set, m) ==
  /\ m \in a..(b + 1)
  /\ \A i \in a..(m - 1) : file.text[i] \notin set
  /\ m <= b => file.text[m] \in set

LEMMA FirstExists ==
  ASSUME file \in Files, NEW a \in 1..(Len(file.text) + 1), NEW b \in (a - 1)..Len(file.text),
         NEW set
  PROVE  \E m \in Int : FirstAt(a, b, set, m)
<1>1. Len(file.text) \in Nat
  BY FileFacts
<1>2. a \in Int /\ b \in Int /\ a >= 1 /\ b + 1 >= a
  BY <1>1
<1> DEFINE S == {i \in a..b : file.text[i] \in set} \cup {b + 1}
<1>3. S \subseteq Nat /\ S # {} /\ S \subseteq a..(b + 1)
  BY <1>2
<1>4. PICK m \in S : \A k \in S : m <= k
  <2> HIDE DEF S
  <2> QED
    BY <1>3, LeastNatural
<1>5. \A i \in a..(m - 1) : file.text[i] \notin set
  BY <1>2, <1>3, <1>4
<1>6. m <= b => file.text[m] \in set
  BY <1>2, <1>3, <1>4
<1> QED
  BY <1>2, <1>3, <1>5, <1>6 DEF FirstAt

\* A piece cut at the first of some characters is the piece up to it.
LEMMA CutPiece ==
  ASSUME file \in Files, NEW a \in 1..(Len(file.text) + 1), NEW b \in (a - 1)..Len(file.text),
         NEW set, NEW m, FirstAt(a, b, set, m)
  PROVE  Cut(Piece(a, b), set) = Piece(a, m - 1)
<1> DEFINE P == Piece(a, b)
           R == Range(file.text)
           L == (b - a) + 1
           f == (m - a) + 1
           S == {i \in DOMAIN P : P[i] \in set} \cup {Len(P) + 1}
<1>1. /\ P \in Seq(R) /\ Len(P) = L /\ DOMAIN P = 1..L
      /\ \A i \in 1..L : P[i] = file.text[a + i - 1]
      /\ a \in Int /\ b \in Int /\ L \in Nat
  BY PieceIs
<1>2. Len(file.text) \in Nat
  BY FileFacts
<1>3. /\ m \in Int /\ a <= m /\ m <= b + 1
      /\ \A i \in a..(m - 1) : file.text[i] \notin set
      /\ m <= b => file.text[m] \in set
  BY <1>1 DEF FirstAt
<1>4. f \in Int /\ 1 <= f /\ f <= L + 1
  BY <1>1, <1>3
<1>5. S \in SUBSET Int
  <2> HIDE DEF P
  <2> QED
    BY <1>1
<1>6. f \in S
  <2>1. CASE m <= b
    <3>1. f \in 1..L /\ a + f - 1 = m
      BY <1>1, <1>3, <2>1
    <3>2. P[f] = file.text[m]
      BY <1>1, <3>1
    <3> QED
      BY <1>1, <1>3, <2>1, <3>1, <3>2
  <2>2. CASE ~(m <= b)
    <3>1. f = L + 1
      BY <1>1, <1>3, <2>2
    <3> QED
      BY <1>1, <3>1
  <2> QED
    BY <2>1, <2>2
<1>7. \A x \in S : f <= x
  <2> SUFFICES ASSUME NEW x \in S PROVE f <= x
    OBVIOUS
  <2>1. CASE x = Len(P) + 1
    BY <1>1, <1>4, <2>1
  <2>2. CASE x \in DOMAIN P /\ P[x] \in set
    <3>1. x \in 1..L /\ file.text[a + x - 1] \in set
      BY <1>1, <2>2
    <3>2. ~(a + x - 1 \in a..(m - 1))
      BY <1>3, <3>1
    <3> QED
      BY <1>1, <1>3, <3>1, <3>2
  <2> QED
    BY <2>1, <2>2
<1>8. First(P, set) = f
  <2>1. Min(S) = f
    <3> HIDE DEF S, f
    <3> QED
      BY <1>5, <1>6, <1>7, MinIs
  <2> QED
    BY <2>1 DEF First
<1>9. Cut(P, set) = SubSeq(P, 1, f - 1)
  BY <1>8 DEF Cut, Upto
<1>10. f - 1 = m - a /\ m - a \in Nat /\ m - a <= L /\ 1..(m - a) \subseteq 1..L
  BY <1>1, <1>3, <1>4
<1> DEFINE C == SubSeq(P, 1, m - a)
<1>11. \A i \in 1..(m - a) : P[i] \in R
  BY <1>1, <1>10
<1>12. /\ C \in Seq(R) /\ Len(C) = (IF 1 <= m - a THEN (m - a) - 1 + 1 ELSE 0)
       /\ \A i \in 1..((m - a) - 1 + 1) : C[i] = P[1 + i - 1]
  <2> HIDE DEF P, R
  <2> QED
    BY <1>10, <1>11, SubSeqProperties
<1> DEFINE D == Piece(a, m - 1)
<1>13. /\ D \in Seq(R) /\ Len(D) = ((m - 1) - a) + 1
       /\ \A i \in 1..(((m - 1) - a) + 1) : D[i] = file.text[a + i - 1]
  <2>1. m - 1 \in (a - 1)..Len(file.text)
    BY <1>1, <1>2, <1>3
  <2> QED
    BY <2>1, PieceIs
<1>14. Len(C) = m - a /\ Len(D) = m - a
  BY <1>1, <1>3, <1>10, <1>12, <1>13
<1>15. ASSUME NEW i \in 1..(m - a) PROVE C[i] = D[i]
  <2>1. i \in 1..((m - a) - 1 + 1) /\ 1 + i - 1 = i /\ i \in 1..(((m - 1) - a) + 1) /\ i \in 1..L
    BY <1>1, <1>3, <1>10
  <2>2. C[i] = P[i]
    <3> HIDE DEF C, P
    <3> QED
      BY <1>12, <2>1
  <2>3. D[i] = file.text[a + i - 1] /\ P[i] = file.text[a + i - 1]
    BY <1>1, <1>13, <2>1
  <2> QED
    BY <2>2, <2>3
<1>16. C = D
  <2> HIDE DEF C, D, R
  <2> QED
    BY <1>12, <1>13, <1>14, <1>15, SeqEqual
<1> QED
  BY <1>9, <1>10, <1>16

\* Without a newline a piece is cut at its comment.
LEMMA CutNoNewline ==
  ASSUME file \in Files, NEW a \in 1..(Len(file.text) + 1), NEW b \in (a - 1)..Len(file.text),
         \A i \in a..b : file.text[i] # "LF"
  PROVE  /\ Cut(Piece(a, b), {"LF", ";"}) = Cut(Piece(a, b), {";"})
         /\ "LF" \notin Range(Piece(a, b))
<1>0. a \in Int /\ b \in Int
  BY PieceIs
<1>1. PICK m \in Int : FirstAt(a, b, {";"}, m)
  BY FirstExists
<1>2. FirstAt(a, b, {"LF", ";"}, m)
  <2>1. /\ m \in a..(b + 1)
        /\ \A i \in a..(m - 1) : file.text[i] \notin {";"}
        /\ m <= b => file.text[m] \in {";"}
    BY <1>1 DEF FirstAt
  <2>2. m \in Int /\ m <= b + 1
    <3>1. m \in a..(b + 1)
      BY <2>1
    <3> QED
      BY <1>0, <3>1
  <2>3. ASSUME NEW i \in a..(m - 1) PROVE file.text[i] \notin {"LF", ";"}
    <3>1. i \in a..b
      BY <1>0, <2>2
    <3> QED
      BY <2>1, <3>1
  <2> QED
    BY <2>1, <2>3 DEF FirstAt
<1>3. "LF" \notin Range(Piece(a, b))
  <2> SUFFICES ASSUME NEW k \in DOMAIN Piece(a, b) PROVE Piece(a, b)[k] # "LF"
    BY DEF Range
  <2>1. k \in 1..((b - a) + 1) /\ Piece(a, b)[k] = file.text[a + k - 1]
    BY PieceIs
  <2>2. a + k - 1 \in a..b
    BY <1>0, <2>1
  <2> QED
    BY <2>1, <2>2
<1>4. Cut(Piece(a, b), {"LF", ";"}) = Piece(a, m - 1)
  BY <1>2, CutPiece
<1>5. Cut(Piece(a, b), {";"}) = Piece(a, m - 1)
  BY <1>1, CutPiece
<1> QED
  BY <1>3, <1>4, <1>5

\* With its newline a line is cut at its comment, or before the newline.
LEMMA CutNewline ==
  ASSUME file \in Files, NEW a \in 1..(Len(file.text) + 1), NEW b \in a..Len(file.text),
         \A i \in a..(b - 1) : file.text[i] # "LF", file.text[b] = "LF"
  PROVE  /\ Cut(Piece(a, b), {"LF", ";"}) = Cut(Piece(a, b - 1), {";"})
         /\ "LF" \in Range(Piece(a, b))
<1>0. Len(file.text) \in Nat
  BY FileFacts
<1>1. a \in Int /\ b \in Int /\ a <= b /\ b \in (a - 1)..Len(file.text)
      /\ b - 1 \in (a - 1)..Len(file.text)
  BY <1>0
<1>2. PICK m \in Int : FirstAt(a, b - 1, {";"}, m)
  BY <1>1, FirstExists
<1>3. FirstAt(a, b, {"LF", ";"}, m)
  <2>1. /\ m \in a..((b - 1) + 1)
        /\ \A i \in a..(m - 1) : file.text[i] \notin {";"}
        /\ m <= b - 1 => file.text[m] \in {";"}
    BY <1>2 DEF FirstAt
  <2>2. m \in Int /\ a <= m /\ m <= b
    <3>1. (b - 1) + 1 = b
      BY <1>1
    <3>2. m \in a..b
      BY <2>1, <3>1
    <3> QED
      BY <1>1, <3>2
  <2>3. ASSUME NEW i \in a..(m - 1) PROVE file.text[i] \notin {"LF", ";"}
    <3>1. i \in a..(b - 1)
      BY <1>1, <2>2
    <3> QED
      BY <2>1, <3>1
  <2>4. file.text[m] \in {"LF", ";"}
    <3>1. CASE m = b
      BY <3>1
    <3>2. CASE m <= b - 1
      BY <2>1, <3>2
    <3>3. m = b \/ m <= b - 1
      BY <1>1, <2>2
    <3> QED
      BY <3>1, <3>2, <3>3
  <2>5. m \in a..(b + 1)
    BY <1>1, <2>2
  <2> QED
    BY <2>3, <2>4, <2>5 DEF FirstAt
<1>4. "LF" \in Range(Piece(a, b))
  <2> DEFINE k == (b - a) + 1
  <2>1. k \in 1..k /\ a + k - 1 = b
    BY <1>1
  <2>2. DOMAIN Piece(a, b) = 1..k /\ Piece(a, b)[k] = file.text[a + k - 1]
    BY <1>1, <2>1, PieceIs
  <2> HIDE DEF k
  <2> QED
    BY <2>1, <2>2 DEF Range
<1>5. Cut(Piece(a, b), {"LF", ";"}) = Piece(a, m - 1)
  BY <1>1, <1>3, CutPiece
<1>6. Cut(Piece(a, b - 1), {";"}) = Piece(a, m - 1)
  BY <1>1, <1>2, CutPiece
<1> QED
  BY <1>4, <1>5, <1>6

\* Without a NUL the buffer is what was read.
LEMMA CutNoNul ==
  ASSUME file \in Files, NEW a \in 1..(Len(file.text) + 1), NEW b \in (a - 1)..Len(file.text),
         NulFree
  PROVE  Cut(Piece(a, b), {"NUL"}) = Piece(a, b)
<1>1. a \in Int /\ b \in Int /\ \A i \in a..b : file.text[i] \in Range(file.text)
  BY PieceIs
<1>2. \A i \in a..b : file.text[i] \notin {"NUL"}
  BY <1>1 DEF NulFree
<1>3. b + 1 \in a..(b + 1) /\ (b + 1) - 1 = b /\ ~(b + 1 <= b)
  <2>1. Len(file.text) \in Nat
    BY FileFacts
  <2> QED
    BY <1>1, <2>1
<1>4. FirstAt(a, b, {"NUL"}, b + 1)
  BY <1>2, <1>3 DEF FirstAt
<1> QED
  BY <1>3, <1>4, CutPiece

-----------------------------------------------------------------------------
(* Reading a line.                                                         *)

\* The place q is that after line k, or within the line that follows it.
PlaceAt(q, k) == LineStart(q, k) \/ (q = Len(file.text) /\ k = Total)
Within(q, k) ==
  \E s : LineStart(s, k) /\ s <= q /\ q \in 0..Len(file.text) /\ Clear(s, q + 1)

\* Line n was read, or is too long and was read in part.
Fits(n) ==
  /\ n \in (1..Total) \ Long
  /\ line' = Code(n) /\ stage' = "parsing" /\ num_errors' = num_errors
  /\ PlaceAt(pos', n) /\ pos' \in 0..Len(file.text)
  /\ num_warnings' = num_warnings + (IF n = Total /\ ~Terminated THEN 1 ELSE 0)

TooBig(n) ==
  /\ n \in (1..Total) \cap Long
  /\ line' = <<>> /\ stage' = "skipping" /\ num_errors' = num_errors + 1
  /\ Within(pos', n - 1) /\ pos' \in 0..Len(file.text)
  /\ num_warnings' = num_warnings

\* fgets stops at the next newline or at the end, unless the buffer is full before.
LEMMA ChunkEndIs ==
  ASSUME file \in Files, pos \in 0..Len(file.text), NEW e \in Newlines \cup {Len(file.text)},
         pos < e \/ e = Len(file.text), Clear(pos, e)
  PROVE  /\ ChunkEnd = IF e <= pos + BUFSIZE - 1 THEN e ELSE pos + BUFSIZE - 1
         /\ \A i : i \in NextNewlines <=> i \in Newlines /\ pos < i
<1> DEFINE N == Len(file.text)
           p == pos + BUFSIZE - 1
           S == NextNewlines \cup {N, p}
<1>1. /\ N \in Nat /\ BUFSIZE \in Nat /\ BUFSIZE >= 2 /\ Newlines \in SUBSET Int
      /\ \A i : i \in Newlines <=> i \in 1..N /\ file.text[i] = "LF"
  BY FileFacts
<1>2. pos \in Nat /\ pos <= N /\ p \in Int /\ pos < p /\ e \in Int /\ e <= N
  BY <1>1
<1>3. \A i : i \in NextNewlines <=> i \in Newlines /\ pos < i
  <2>1. \A i : i \in (pos + 1)..N <=> i \in 1..N /\ pos < i
    BY <1>1, <1>2
  <2> QED
    BY <1>1, <2>1 DEF NextNewlines
<1>4. S \in SUBSET Int
  BY <1>1, <1>2, <1>3
<1>5. e \in S
  BY <1>2, <1>3
<1>6. \A i \in NextNewlines : e <= i
  BY <1>1, <1>2, <1>3 DEF Clear
<1>7. CASE e <= p
  <2>1. \A x \in S : e <= x
    BY <1>2, <1>6, <1>7
  <2>2. Min(S) = e
    <3> HIDE DEF S
    <3> QED
      BY <1>4, <1>5, <2>1, MinIs
  <2> QED
    BY <1>3, <1>7, <2>2 DEF ChunkEnd
<1>8. CASE ~(e <= p)
  <2>1. \A x \in S : p <= x
    <3>1. p <= e
      BY <1>2, <1>8
    <3>2. \A i \in NextNewlines : i \in Int /\ p <= i
      BY <1>1, <1>2, <1>3, <1>6, <3>1
    <3> QED
      BY <1>2, <3>1, <3>2
  <2>2. p \in S
    OBVIOUS
  <2>3. Min(S) = p
    <3> HIDE DEF S, p
    <3> QED
      BY <1>4, <2>1, <2>2, MinIs
  <2> QED
    BY <1>3, <1>8, <2>3 DEF ChunkEnd
<1> QED
  BY <1>7, <1>8

\* At the end of the file nothing is read.
LEMMA NothingAtEnd ==
  ASSUME file \in Files, pos = Len(file.text)
  PROVE  NothingRead
<1>1. /\ Len(file.text) \in Nat /\ BUFSIZE \in Nat /\ BUFSIZE >= 2 /\ Newlines \in SUBSET Int
      /\ \A i : i \in Newlines <=> i \in 1..Len(file.text) /\ file.text[i] = "LF"
  BY FileFacts
<1>2. pos \in 0..Len(file.text) /\ Clear(pos, pos)
  BY <1>1 DEF Clear
<1>3. /\ ChunkEnd = IF pos <= pos + BUFSIZE - 1 THEN pos ELSE pos + BUFSIZE - 1
      /\ pos \notin NextNewlines
  BY <1>1, <1>2, ChunkEndIs
<1>4. ChunkEnd = pos
  BY <1>1, <1>2, <1>3
<1>5. HitEnd
  BY <1>1, <1>3, <1>4 DEF HitEnd
<1> QED
  BY <1>5 DEF NothingRead

\* A line of the file is the piece between its newlines; it is long if that
\* with its newline and the end of the string is more than the buffer holds.
LEMMA LineIsPiece ==
  ASSUME file \in Files, NEW n \in 1..Total, NEW a \in 1..(Len(file.text) + 1),
         NEW b \in (a - 1)..Len(file.text), Lines[n] = Piece(a, b)
  PROVE  (n \in Long <=> (b - a) + 1 > BUFSIZE - 2) /\ Code(n) = Cut(Piece(a, b), {";"})
<1>1. DOMAIN Lines = 1..Total
  BY FileFacts
<1>2. Len(Piece(a, b)) = (b - a) + 1
  BY PieceIs
<1> QED
  BY <1>1, <1>2 DEF Long, Code

\* The next line is read, or a part of it that fills the buffer.
LEMMA ReadsNextLine ==
  ASSUME file \in Files, NulFree, NEW k \in Nat, PlaceAt(pos, k), pos \in 0..Len(file.text),
         ReadLine
  PROVE  Fits(k + 1) \/ TooBig(k + 1)
<1> DEFINE N == Len(file.text)
           p == pos + BUFSIZE - 1
           P == Piece(pos + 1, ChunkEnd)
<1>1. /\ N \in Nat /\ BUFSIZE \in Nat /\ BUFSIZE >= 2 /\ Newlines \in SUBSET Int
      /\ \A i : i \in Newlines <=> i \in 1..N /\ file.text[i] = "LF"
  BY FileFacts
<1>2. pos # N
  BY NothingAtEnd DEF ReadLine
<1>3. LineStart(pos, k) /\ pos < N /\ pos \in Nat /\ p \in Int /\ pos + 1 \in 1..(N + 1)
  BY <1>1, <1>2 DEF PlaceAt
<1>4. ASSUME ChunkEnd \in pos..N
      PROVE  /\ pos' = ChunkEnd
             /\ IF TooLong(P)
                THEN /\ num_errors' = num_errors + 1 /\ line' = <<>> /\ stage' = "skipping"
                     /\ num_warnings' = num_warnings
                ELSE /\ line' = Cut(P, {"LF", ";"}) /\ stage' = "parsing"
                     /\ num_warnings' = num_warnings + (IF "LF" \in Range(P) THEN 0 ELSE 1)
                     /\ num_errors' = num_errors
  <2>1. ChunkEnd \in ((pos + 1) - 1)..N
    BY <1>1, <1>3, <1>4
  <2>2. Cut(P, {"NUL"}) = P
    BY <1>3, <2>1, CutNoNul
  <2>3. Cut(Chunk, {"NUL"}) = P
    BY <2>2 DEF Chunk, Piece
  <2> HIDE DEF P
  <2> QED
    BY <2>3 DEF ReadLine
<1>5. (k + 1) - 1 = k
  OBVIOUS
<1>6. N \in Nat /\ BUFSIZE \in Nat /\ BUFSIZE >= 2 /\ pos \in Nat /\ pos < N /\ p \in Int
  BY <1>1, <1>3
<1>7. ASSUME NEW e \in Newlines, pos < e, Clear(pos, e)
      PROVE  Fits(k + 1) \/ TooBig(k + 1)
  <2>0. e \in 1..N /\ e \in Int /\ file.text[e] = "LF"
    BY <1>1
  <2>1. /\ LineStart(e, k + 1) /\ k + 1 \in 1..Total
        /\ Lines[k + 1] = Piece(pos + 1, e - 1)
        /\ k + 1 = Total => Terminated
    BY <1>3, <1>7, NextStart DEF Piece
  <2>2. /\ ChunkEnd = IF e <= p THEN e ELSE p
        /\ \A i : i \in NextNewlines <=> i \in Newlines /\ pos < i
    BY <1>7, ChunkEndIs
  <2>3. e - 1 \in ((pos + 1) - 1)..N /\ ((e - 1) - (pos + 1)) + 1 = (e - 1) - pos
    BY <1>1, <1>3, <1>7, <2>0
  <2>4. /\ k + 1 \in Long <=> ((e - 1) - (pos + 1)) + 1 > BUFSIZE - 2
        /\ Code(k + 1) = Cut(Piece(pos + 1, e - 1), {";"})
    BY <1>3, <2>1, <2>3, LineIsPiece
  <2>5. \A i \in (pos + 1)..(e - 1) : file.text[i] # "LF"
    <3> SUFFICES ASSUME NEW i \in (pos + 1)..(e - 1), file.text[i] = "LF" PROVE FALSE
      OBVIOUS
    <3>1. i \in 1..N /\ pos < i /\ i < e
      BY <1>1, <1>3, <2>0
    <3>2. i \in Newlines
      BY <1>1, <3>1
    <3>3. i <= pos \/ e <= i
      BY <1>7, <3>2 DEF Clear
    <3>4. i \in Int /\ pos \in Int /\ e \in Int
      BY <1>3, <2>0, <3>1
    <3> QED
      BY <3>1, <3>3, <3>4
  <2>6. CASE e <= p
    <3>1. ChunkEnd = e /\ ChunkEnd \in pos..N /\ e \in (pos + 1)..N
      BY <1>1, <1>3, <1>7, <2>0, <2>2, <2>6
    <3>2. Cut(P, {"LF", ";"}) = Code(k + 1) /\ "LF" \in Range(P)
      <4>1. /\ Cut(Piece(pos + 1, e), {"LF", ";"}) = Cut(Piece(pos + 1, e - 1), {";"})
            /\ "LF" \in Range(Piece(pos + 1, e))
        BY <1>3, <2>0, <2>5, <3>1, CutNewline
      <4> QED
        BY <2>4, <3>1, <4>1
    <3>3. ~TooLong(P)
      BY <3>2 DEF TooLong
    <3>4. k + 1 \notin Long
      <4>1. ~(((e - 1) - (pos + 1)) + 1 > BUFSIZE - 2)
        <5> HIDE DEF N
        <5> QED
          BY <1>6, <2>0, <2>6
      <4> QED
        BY <2>4, <4>1
    <3>5. pos' = e /\ line' = Code(k + 1) /\ stage' = "parsing" /\ num_errors' = num_errors
          /\ num_warnings' = num_warnings + 0
      <4> HIDE DEF P
      <4> QED
        BY <1>4, <3>1, <3>2, <3>3
    <3>6. (IF k + 1 = Total /\ ~Terminated THEN 1 ELSE 0) = 0
      BY <2>1
    <3>7. pos' \in 0..N
      BY <1>1, <2>0, <3>5
    <3> QED
      BY <2>1, <3>4, <3>5, <3>6, <3>7 DEF Fits, PlaceAt
  <2>7. CASE ~(e <= p)
    <3>1. ChunkEnd = p /\ ChunkEnd \in pos..N /\ p \in ((pos + 1) - 1)..N /\ p < e /\ pos < p
      BY <1>1, <1>3, <1>7, <2>0, <2>2, <2>7
    <3>2. \A i \in (pos + 1)..p : file.text[i] # "LF"
      BY <1>1, <1>3, <2>0, <2>5, <3>1
    <3>3. "LF" \notin Range(P)
      BY <1>3, <3>1, <3>2, CutNoNewline
    <3>4. TooLong(P)
      BY <1>1, <1>3, <3>1, <3>3 DEF TooLong, HitEnd
    <3>5. k + 1 \in Long
      <4>1. ((e - 1) - (pos + 1)) + 1 > BUFSIZE - 2
        <5> HIDE DEF N
        <5> QED
          BY <1>6, <2>0, <2>7
      <4> QED
        BY <2>4, <4>1
    <3>6. /\ pos' = p /\ line' = <<>> /\ stage' = "skipping" /\ num_errors' = num_errors + 1
          /\ num_warnings' = num_warnings
      <4> HIDE DEF P
      <4> QED
        BY <1>4, <3>1, <3>4
    <3>7. Within(p, k) /\ p \in 0..N
      <4>1. Clear(pos, p + 1)
        <5> SUFFICES ASSUME NEW i \in Newlines PROVE i <= pos \/ p + 1 <= i
          BY DEF Clear
        <5>1. i \in Int /\ p + 1 <= e
          BY <1>1, <1>6, <2>0, <3>1
        <5>2. i <= pos \/ e <= i
          BY <1>7 DEF Clear
        <5> HIDE DEF N, p
        <5> QED
          BY <1>6, <2>0, <5>1, <5>2
      <4>2. p \in 0..N /\ pos <= p
        BY <1>1, <1>3, <3>1
      <4> QED
        BY <1>3, <4>1, <4>2 DEF Within
    <3> QED
      BY <1>5, <2>1, <3>5, <3>6, <3>7 DEF TooBig
  <2> QED
    BY <2>6, <2>7
<1>8. ASSUME Clear(pos, N + 1) PROVE Fits(k + 1) \/ TooBig(k + 1)
  <2>1. /\ k + 1 = Total /\ k + 1 \in 1..Total /\ ~Terminated
        /\ Lines[k + 1] = Piece(pos + 1, N)
    BY <1>3, <1>8, LastStart DEF Piece
  <2>2. Clear(pos, N)
    BY <1>1, <1>3, <1>8 DEF Clear
  <2>3. /\ ChunkEnd = IF N <= p THEN N ELSE p
        /\ \A i : i \in NextNewlines <=> i \in Newlines /\ pos < i
    BY <2>2, ChunkEndIs
  <2>4. N \in ((pos + 1) - 1)..N /\ (N - (pos + 1)) + 1 = N - pos
    BY <1>1, <1>3
  <2>5. /\ k + 1 \in Long <=> (N - (pos + 1)) + 1 > BUFSIZE - 2
        /\ Code(k + 1) = Cut(Piece(pos + 1, N), {";"})
    BY <1>3, <2>1, <2>4, LineIsPiece
  <2>6. \A i \in (pos + 1)..N : file.text[i] # "LF"
    <3> SUFFICES ASSUME NEW i \in (pos + 1)..N, file.text[i] = "LF" PROVE FALSE
      OBVIOUS
    <3>1. i \in 1..N /\ pos < i /\ i < N + 1
      BY <1>1, <1>3
    <3>2. i \in Newlines
      BY <1>1, <3>1
    <3> QED
      BY <1>8, <3>1, <3>2 DEF Clear
  <2>7. CASE N < p
    <3>1. ChunkEnd = N /\ ChunkEnd \in pos..N
      BY <1>1, <1>3, <2>3, <2>7
    <3>2. Cut(P, {"LF", ";"}) = Code(k + 1) /\ "LF" \notin Range(P)
      <4>1. /\ Cut(Piece(pos + 1, N), {"LF", ";"}) = Cut(Piece(pos + 1, N), {";"})
            /\ "LF" \notin Range(Piece(pos + 1, N))
        BY <1>3, <2>4, <2>6, CutNoNewline
      <4> QED
        BY <2>5, <3>1, <4>1
    <3>3. HitEnd
      <4>1. N \notin Newlines
        BY <1>1, <1>3, <2>6
      <4> QED
        BY <2>3, <2>7, <3>1, <4>1 DEF HitEnd
    <3>4. ~TooLong(P)
      BY <3>3 DEF TooLong
    <3>5. k + 1 \notin Long
      <4>1. ~((N - (pos + 1)) + 1 > BUFSIZE - 2)
        <5> HIDE DEF N
        <5> QED
          BY <1>6, <2>7
      <4> QED
        BY <2>5, <4>1
    <3>6. pos' = N /\ line' = Code(k + 1) /\ stage' = "parsing" /\ num_errors' = num_errors
          /\ num_warnings' = num_warnings + 1
      <4> HIDE DEF P
      <4> QED
        BY <1>4, <3>1, <3>2, <3>4
    <3>7. (IF k + 1 = Total /\ ~Terminated THEN 1 ELSE 0) = 1
      BY <2>1
    <3>8. pos' \in 0..N
      BY <1>1, <3>6
    <3> QED
      BY <2>1, <3>5, <3>6, <3>7, <3>8 DEF Fits, PlaceAt
  <2>8. CASE ~(N < p)
    <3>0. p \in pos..N /\ p \in ((pos + 1) - 1)..N /\ p <= N /\ pos < p
      <4> HIDE DEF N
      <4> QED
        BY <1>6, <2>8
    <3>1. /\ ChunkEnd = p /\ ChunkEnd \in pos..N /\ p \in ((pos + 1) - 1)..N
          /\ p <= N /\ pos < p
      <4>1. ChunkEnd = p
        <5>1. N <= p => N = p
          <6> HIDE DEF N
          <6> QED
            BY <1>6, <2>8
        <5> HIDE DEF N, p
        <5> QED
          BY <2>3, <5>1
      <4> QED
        BY <3>0, <4>1
    <3>2. \A i \in (pos + 1)..p : file.text[i] # "LF"
      BY <1>1, <1>3, <2>6, <3>1
    <3>3. "LF" \notin Range(P)
      BY <1>3, <3>1, <3>2, CutNoNewline
    <3>4. TooLong(P)
      BY <1>1, <1>3, <3>1, <3>3 DEF TooLong, HitEnd
    <3>5. k + 1 \in Long
      <4>1. (N - (pos + 1)) + 1 > BUFSIZE - 2
        <5> HIDE DEF N
        <5> QED
          BY <1>6, <2>8
      <4> QED
        BY <2>5, <4>1
    <3>6. /\ pos' = p /\ line' = <<>> /\ stage' = "skipping" /\ num_errors' = num_errors + 1
          /\ num_warnings' = num_warnings
      <4> HIDE DEF P
      <4> QED
        BY <1>4, <3>1, <3>4
    <3>7. Within(p, k) /\ p \in 0..N
      <4>1. Clear(pos, p + 1)
        <5> SUFFICES ASSUME NEW i \in Newlines PROVE i <= pos \/ p + 1 <= i
          BY DEF Clear
        <5>1. i \in Int /\ p <= N
          BY <1>1, <3>1
        <5>2. i <= pos \/ N + 1 <= i
          BY <1>8 DEF Clear
        <5> HIDE DEF N, p
        <5> QED
          BY <1>6, <5>1, <5>2
      <4>2. p \in 0..N /\ pos <= p
        BY <1>1, <1>3, <3>1
      <4> QED
        BY <1>3, <4>1, <4>2 DEF Within
    <3> QED
      BY <1>5, <2>1, <3>5, <3>6, <3>7 DEF TooBig
  <2> QED
    BY <2>7, <2>8
<1> QED
  BY <1>3, <1>7, <1>8, NextOrLast

-----------------------------------------------------------------------------
(* What the lines say, counted.                                            *)

GoodLabels == Labels(Good)
GoodWords == Words(Good)
Dups == Duplicates(GoodLabels)
Bad == DOMAIN Lines \ Good
Value(k) == Wrap(strtol(Meant(k).word[1]))

LEMMA SetFacts ==
  ASSUME file \in Files
  PROVE  /\ Long \subseteq 1..Total /\ Good \subseteq (1..Total) \ Long /\ Bad = (1..Total) \ Good
         /\ \A k : k \in Good <=> k \in (1..Total) \ Long /\ Derived(Code(k))
         /\ GoodLabels \subseteq Good /\ GoodWords \subseteq Good /\ Dups \subseteq GoodLabels
         /\ GoodLabels \in SUBSET Int /\ GoodWords \in SUBSET Int
         /\ Dups \in SUBSET Int /\ Bad \in SUBSET Int
         /\ IsFiniteSet(GoodLabels) /\ IsFiniteSet(GoodWords)
         /\ IsFiniteSet(Dups) /\ IsFiniteSet(Bad)
<1>1. DOMAIN Lines = 1..Total /\ Total \in Nat
  BY FileFacts
<1>2. /\ Long \subseteq 1..Total /\ Good \subseteq (1..Total) \ Long /\ Bad = (1..Total) \ Good
      /\ \A k : k \in Good <=> k \in (1..Total) \ Long /\ Derived(Code(k))
  BY <1>1 DEF Long, Good, Bad
<1>3. GoodLabels \subseteq Good /\ GoodWords \subseteq Good /\ Dups \subseteq GoodLabels
  BY DEF GoodLabels, GoodWords, Dups, Labels, Words, Duplicates
<1>4. IsFiniteSet(1..Total) /\ 1..Total \subseteq Int
  BY <1>1, FS_Interval
<1>5. /\ GoodLabels \in SUBSET (1..Total) /\ GoodWords \in SUBSET (1..Total)
      /\ Dups \in SUBSET (1..Total) /\ Bad \in SUBSET (1..Total)
  BY <1>2, <1>3
<1>6. IsFiniteSet(GoodLabels) /\ IsFiniteSet(GoodWords) /\ IsFiniteSet(Dups) /\ IsFiniteSet(Bad)
  BY <1>4, <1>5, FS_Subset
<1> QED
  BY <1>2, <1>3, <1>4, <1>5, <1>6

\* What the lines before one give: the first of the labels, and the words.
SymbolsOf(l) ==
  {[name |-> Name(k), line_num |-> k, address |-> Before(GoodWords, k)] :
     k \in {i \in GoodLabels \ Dups : i < l}}

TextOf(tx, w) ==
  /\ tx \in Seq({Value(k) : k \in GoodWords})
  /\ Len(tx) = Before(GoodWords, w)
  /\ \A k \in GoodWords : k < w => tx[Before(GoodWords, k) + 1] = Value(k)

ErrorsOf(l, b) == Before(Bad, b) + Before(Dups, l)

Produced(l, w, b, sy, tx, er) ==
  sy = SymbolsOf(l) /\ TextOf(tx, w) /\ er = ErrorsOf(l, b)

\* A line with no label gives no symbol.
LEMMA NoLabel ==
  ASSUME file \in Files, NEW n \in Int, n \notin GoodLabels, NEW w, NEW b, NEW sy, NEW tx, NEW er,
         Produced(n, w, b, sy, tx, er)
  PROVE  Produced(n + 1, w, b, sy, tx, er)
<1>1. /\ GoodLabels \in SUBSET Int /\ Dups \in SUBSET Int /\ IsFiniteSet(Dups) /\ n \notin Dups
  BY SetFacts
<1>2. Before(Dups, n + 1) = Before(Dups, n)
  BY <1>1, BeforeNext
<1>3. {i \in GoodLabels \ Dups : i < n + 1} = {i \in GoodLabels \ Dups : i < n}
  <2>1. \A i \in GoodLabels \ Dups : i < n + 1 <=> i < n
    BY <1>1
  <2> QED
    BY <2>1
<1>4. SymbolsOf(n + 1) = SymbolsOf(n)
  BY <1>3 DEF SymbolsOf
<1> QED
  BY <1>2, <1>4 DEF Produced, ErrorsOf

\* A label that an earlier line has is an error.
LEMMA DuplicateCounts ==
  ASSUME file \in Files, NEW n \in Dups, NEW w, NEW b, NEW sy, NEW tx, NEW er,
         Produced(n, w, b, sy, tx, er)
  PROVE  Produced(n + 1, w, b, sy, tx, er + 1)
<1>1. /\ GoodLabels \in SUBSET Int /\ Dups \in SUBSET Int /\ IsFiniteSet(Dups)
      /\ Bad \in SUBSET Int /\ IsFiniteSet(Bad) /\ n \in Int
  BY SetFacts
<1>2. Before(Dups, n + 1) = Before(Dups, n) + 1
  BY <1>1, BeforeNext
<1>3. {i \in GoodLabels \ Dups : i < n + 1} = {i \in GoodLabels \ Dups : i < n}
  <2>1. \A i \in GoodLabels \ Dups : i < n + 1 <=> i < n
    BY <1>1
  <2> QED
    BY <2>1
<1>4. SymbolsOf(n + 1) = SymbolsOf(n)
  BY <1>3 DEF SymbolsOf
<1>5. Before(Dups, n) \in Nat /\ Before(Bad, b) \in Nat
  BY <1>1, BeforeType
<1>6. er = Before(Bad, b) + Before(Dups, n)
  BY DEF Produced, ErrorsOf
<1>7. er + 1 = Before(Bad, b) + Before(Dups, n + 1)
  BY <1>2, <1>5, <1>6
<1> QED
  BY <1>4, <1>7 DEF Produced, ErrorsOf

\* A label that no earlier line has is a symbol, at the next word.
LEMMA FirstLabel ==
  ASSUME file \in Files, NEW n \in GoodLabels \ Dups, NEW w, NEW b, NEW sy, NEW tx, NEW er,
         Produced(n, w, b, sy, tx, er)
  PROVE  Produced(n + 1, w, b,
                  sy \cup {[name |-> Name(n), line_num |-> n, address |-> Before(GoodWords, n)]},
                  tx, er)
<1>1. /\ GoodLabels \in SUBSET Int /\ Dups \in SUBSET Int /\ IsFiniteSet(Dups) /\ n \in Int
  BY SetFacts
<1>2. Before(Dups, n + 1) = Before(Dups, n)
  BY <1>1, BeforeNext
<1> DEFINE S == {i \in GoodLabels \ Dups : i < n}
           T == {i \in GoodLabels \ Dups : i < n + 1}
           Symbol(k) == [name |-> Name(k), line_num |-> k, address |-> Before(GoodWords, k)]
<1>3. T = S \cup {n}
  <2>1. \A i \in GoodLabels \ Dups : i < n + 1 <=> i < n \/ i = n
    BY <1>1
  <2> QED
    BY <2>1
<1>4. {Symbol(k) : k \in T} = {Symbol(k) : k \in S} \cup {Symbol(n)}
  <2> HIDE DEF S, T, Symbol
  <2> QED
    BY <1>3
<1>5. SymbolsOf(n + 1) = SymbolsOf(n) \cup {Symbol(n)}
  BY <1>4 DEF SymbolsOf
<1> QED
  BY <1>2, <1>5 DEF Produced, ErrorsOf

\* A line with no word gives none.
LEMMA NoWord ==
  ASSUME file \in Files, NEW n \in Int, n \notin GoodWords, NEW l, NEW b, NEW sy, NEW tx, NEW er,
         Produced(l, n, b, sy, tx, er)
  PROVE  Produced(l, n + 1, b, sy, tx, er)
<1>1. GoodWords \in SUBSET Int /\ IsFiniteSet(GoodWords)
  BY SetFacts
<1>2. Before(GoodWords, n + 1) = Before(GoodWords, n)
  BY <1>1, BeforeNext
<1>3. \A k \in GoodWords : k < n + 1 <=> k < n
  BY <1>1
<1>4. TextOf(tx, n) => TextOf(tx, n + 1)
  BY <1>2, <1>3 DEF TextOf
<1> QED
  BY <1>4 DEF Produced

\* The word of a line is the next of the text.
LEMMA NextWord ==
  ASSUME file \in Files, NEW n \in GoodWords, NEW l, NEW b, NEW sy, NEW tx, NEW er,
         Produced(l, n, b, sy, tx, er)
  PROVE  Produced(l, n + 1, b, sy, Append(tx, Value(n)), er)
<1> DEFINE V == {Value(k) : k \in GoodWords}
           ty == Append(tx, Value(n))
           m == Before(GoodWords, n)
<1>1. GoodWords \in SUBSET Int /\ IsFiniteSet(GoodWords) /\ n \in Int
  BY SetFacts
<1>2. Before(GoodWords, n + 1) = m + 1 /\ m \in Nat
  BY <1>1, BeforeNext, BeforeType
<1>3. tx \in Seq(V) /\ Len(tx) = m /\ \A k \in GoodWords : k < n => tx[Before(GoodWords, k) + 1] = Value(k)
  BY DEF Produced, TextOf
<1>4. Value(n) \in V
  OBVIOUS
<1>5. /\ ty \in Seq(V) /\ Len(ty) = m + 1
      /\ \A i \in 1..m : ty[i] = tx[i]
      /\ ty[m + 1] = Value(n)
  <2> HIDE DEF V, m
  <2> QED
    BY <1>2, <1>3, <1>4, AppendProperties
<1>6. ASSUME NEW k \in GoodWords, k < n + 1
      PROVE  ty[Before(GoodWords, k) + 1] = Value(k)
  <2>1. CASE k = n
    BY <1>5, <2>1
  <2>2. CASE k # n
    <3>1. k \in Int /\ k < n /\ k <= n
      BY <1>1, <1>6, <2>2
    <3>2. Before(GoodWords, k) \in Nat /\ Before(GoodWords, k) < m
      BY <1>1, <3>1, BeforeType, BeforeGrows
    <3>3. Before(GoodWords, k) + 1 \in 1..m
      BY <1>2, <3>2
    <3> HIDE DEF ty
    <3> QED
      BY <1>3, <1>5, <3>1, <3>3
  <2> QED
    BY <2>1, <2>2
<1>7. TextOf(ty, n + 1)
  <2> HIDE DEF ty, m
  <2> QED
    BY <1>2, <1>5, <1>6 DEF TextOf
<1> QED
  BY <1>7 DEF Produced

\* A line that is not good is one error, and a good one none.
LEMMA BadCounts ==
  ASSUME file \in Files, NEW n \in 1..Total, NEW l, NEW w, NEW sy, NEW tx, NEW er,
         Produced(l, w, n, sy, tx, er)
  PROVE  /\ n \in Good => Produced(l, w, n + 1, sy, tx, er)
         /\ n \notin Good => Produced(l, w, n + 1, sy, tx, er + 1)
<1>1. /\ Bad \in SUBSET Int /\ IsFiniteSet(Bad) /\ Bad = (1..Total) \ Good
      /\ Dups \in SUBSET Int /\ IsFiniteSet(Dups) /\ n \in Int
  BY SetFacts
<1>2. Before(Bad, n) \in Nat /\ Before(Dups, l) \in Nat
  BY <1>1, BeforeType
<1>3. Before(Bad, n + 1) = IF n \in Bad THEN Before(Bad, n) + 1 ELSE Before(Bad, n)
  BY <1>1, BeforeNext
<1>4. er = Before(Bad, n) + Before(Dups, l)
  BY DEF Produced, ErrorsOf
<1>5. n \in Good => er = Before(Bad, n + 1) + Before(Dups, l)
  BY <1>1, <1>3, <1>4
<1>6. n \notin Good => er + 1 = Before(Bad, n + 1) + Before(Dups, l)
  BY <1>1, <1>2, <1>3, <1>4
<1> QED
  BY <1>5, <1>6 DEF Produced, ErrorsOf

\* A symbol has the name of a line's label just if that label is a duplicate.
LEMMA DefinedIsDuplicate ==
  ASSUME file \in Files, NEW n \in GoodLabels
  PROVE  (\E s \in SymbolsOf(n) : s.name = Name(n)) <=> n \in Dups
<1>1. GoodLabels \in SUBSET Int /\ GoodLabels \subseteq 1..Total
  BY SetFacts
<1>2. \A k : k \in Dups <=> k \in GoodLabels /\ \E j \in GoodLabels : j < k /\ Name(j) = Name(k)
  BY DEF Dups, Duplicates
<1> DEFINE Symbol(k) == [name |-> Name(k), line_num |-> k, address |-> Before(GoodWords, k)]
<1>3. ASSUME NEW s \in SymbolsOf(n), s.name = Name(n) PROVE n \in Dups
  <2>1. PICK k \in GoodLabels \ Dups : k < n /\ s = Symbol(k)
    BY DEF SymbolsOf
  <2>2. Name(k) = Name(n)
    BY <1>3, <2>1
  <2> QED
    BY <1>2, <2>1, <2>2
<1>4. ASSUME n \in Dups PROVE \E s \in SymbolsOf(n) : s.name = Name(n)
  <2> DEFINE S == {j \in GoodLabels : j < n /\ Name(j) = Name(n)}
  <2>1. S \subseteq Nat /\ S # {}
    <3>1. \A j \in GoodLabels : j \in Nat
      BY <1>1
    <3>2. PICK j \in GoodLabels : j < n /\ Name(j) = Name(n)
      BY <1>2, <1>4
    <3> QED
      BY <3>1, <3>2
  <2>2. PICK j \in S : \A k \in S : j <= k
    <3> HIDE DEF S
    <3> QED
      BY <2>1, LeastNatural
  <2>3. j \in GoodLabels /\ j < n /\ Name(j) = Name(n) /\ j \in Int
    BY <1>1, <2>2
  <2>4. j \notin Dups
    <3> SUFFICES ASSUME NEW i \in GoodLabels, i < j, Name(i) = Name(j) PROVE FALSE
      BY <1>2
    <3>1. i \in Int /\ n \in Int
      BY <1>1
    <3>2. i \in S
      BY <2>3, <3>1
    <3> QED
      BY <2>2, <2>3, <3>1, <3>2
  <2>5. Symbol(j) \in SymbolsOf(n)
    BY <2>3, <2>4 DEF SymbolsOf
  <2>6. Symbol(j).name = Name(n)
    BY <2>3
  <2> QED
    BY <2>5, <2>6
<1> QED
  BY <1>3, <1>4

-----------------------------------------------------------------------------
(* The children of a line's tree, one by one.                              *)

\* The rest of the children has those with a tag that are not the first.
LEMMA TailTagged ==
  ASSUME NEW S, NEW cs \in Seq(S), cs # <<>>, NEW tag
  PROVE  /\ Tail(cs) \in Seq(S)
         /\ Tagged(cs, tag) \subseteq Nat \ {0} /\ Tagged(Tail(cs), tag) \subseteq Nat \ {0}
         /\ \A i \in Nat \ {0} : /\ i \in Tagged(Tail(cs), tag) <=> i + 1 \in Tagged(cs, tag)
                                 /\ i \in Tagged(Tail(cs), tag) => Tail(cs)[i] = cs[i + 1]
         /\ 1 \in Tagged(cs, tag) <=> Head(cs).tag = tag
         /\ 1 \in DOMAIN cs /\ Head(cs) = cs[1]
<1>1. Len(cs) \in Nat /\ Len(cs) >= 1 /\ DOMAIN cs = 1..Len(cs)
  BY EmptySeq
<1>2. /\ Tail(cs) \in Seq(S) /\ Len(Tail(cs)) = Len(cs) - 1 /\ DOMAIN Tail(cs) = 1..(Len(cs) - 1)
      /\ \A i \in 1..(Len(cs) - 1) : Tail(cs)[i] = cs[i + 1]
      /\ Head(cs) = cs[1]
  BY <1>1
<1>3. 1 \in DOMAIN cs
  BY <1>1
<1>4. 1 \in Tagged(cs, tag) <=> Head(cs).tag = tag
  BY <1>2, <1>3 DEF Tagged
<1>5. Tagged(cs, tag) \subseteq Nat \ {0} /\ Tagged(Tail(cs), tag) \subseteq Nat \ {0}
  BY <1>1, <1>2 DEF Tagged
<1>6. ASSUME NEW i \in Nat \ {0}
      PROVE  /\ i \in Tagged(Tail(cs), tag) <=> i + 1 \in Tagged(cs, tag)
             /\ i \in Tagged(Tail(cs), tag) => Tail(cs)[i] = cs[i + 1]
  <2>1. i \in DOMAIN Tail(cs) <=> i + 1 \in DOMAIN cs
    BY <1>1, <1>2
  <2>2. i \in DOMAIN Tail(cs) => Tail(cs)[i] = cs[i + 1]
    BY <1>2
  <2> QED
    BY <2>1, <2>2 DEF Tagged
<1> QED
  BY <1>2, <1>3, <1>4, <1>5, <1>6

\* The one with a tag stays until it is the first, which it is then not any more.
LEMMA TailGiven ==
  ASSUME NEW S, NEW cs \in Seq(S), cs # <<>>, NEW tag, NEW child, NEW said,
         Given(cs, tag, child, said)
  PROVE  /\ Head(cs).tag # tag =>
              /\ Given(Tail(cs), tag, child, said)
              /\ Tagged(Tail(cs), tag) = {} <=> Tagged(cs, tag) = {}
         /\ Head(cs).tag = tag =>
              /\ said # <<>> /\ Tagged(Tail(cs), tag) = {} /\ Tagged(cs, tag) = {1}
              /\ Head(cs).children[child].contents = said[1]
<1> DEFINE T == Tagged(cs, tag)
           U == Tagged(Tail(cs), tag)
<1>1. /\ T \subseteq Nat \ {0} /\ U \subseteq Nat \ {0}
      /\ \A i \in Nat \ {0} : (i \in U <=> i + 1 \in T) /\ (i \in U => Tail(cs)[i] = cs[i + 1])
      /\ 1 \in T <=> Head(cs).tag = tag
      /\ Head(cs) = cs[1]
  <2>0. T \subseteq Nat \ {0} /\ U \subseteq Nat \ {0}
    BY TailTagged
  <2>1. ASSUME NEW i \in Nat \ {0}
        PROVE  (i \in U <=> i + 1 \in T) /\ (i \in U => Tail(cs)[i] = cs[i + 1])
    <3>1. i \in U <=> i + 1 \in T
      BY TailTagged
    <3>2. i \in U => Tail(cs)[i] = cs[i + 1]
      <4>1. Len(cs) \in Nat /\ Len(cs) >= 1
        BY EmptySeq
      <4>2. i \in U => i \in 1..Len(Tail(cs))
        BY DEF Tagged
      <4> HIDE DEF U
      <4> QED
        BY <4>1, <4>2
    <3> QED
      BY <3>1, <3>2
  <2>2. (1 \in T <=> Head(cs).tag = tag) /\ Head(cs) = cs[1]
    BY TailTagged
  <2> QED
    BY <2>0, <2>1, <2>2
<1>2. /\ said = <<>> => T = {}
      /\ said # <<>> => \E i \in DOMAIN cs : T = {i} /\ cs[i].children[child].contents = said[1]
  BY DEF Given
<1>3. T \subseteq DOMAIN cs /\ U \subseteq DOMAIN Tail(cs)
  BY DEF Tagged
<1> HIDE DEF T, U
<1>4. CASE Head(cs).tag = tag
  <2>1. 1 \in T
    BY <1>1, <1>4
  <2>2. said # <<>>
    BY <1>2, <2>1
  <2>3. T = {1} /\ cs[1].children[child].contents = said[1]
    BY <1>2, <2>1, <2>2
  <2>4. U = {}
    BY <1>1, <2>3
  <2> QED
    BY <1>1, <1>4, <2>2, <2>3, <2>4 DEF T, U
<1>5. CASE Head(cs).tag # tag
  <2>1. 1 \notin T
    BY <1>1, <1>5
  <2>2. CASE said = <<>>
    <3>1. T = {}
      BY <1>2, <2>2
    <3>2. U = {}
      BY <1>1, <3>1
    <3> QED
      BY <1>5, <2>2, <3>1, <3>2 DEF T, U, Given
  <2>3. CASE said # <<>>
    <3>1. PICK i \in DOMAIN cs : T = {i} /\ cs[i].children[child].contents = said[1]
      BY <1>2, <2>3
    <3>2. i \in Nat \ {0} /\ i # 1
      BY <1>1, <2>1, <3>1
    <3>3. i - 1 \in Nat \ {0} /\ (i - 1) + 1 = i
      BY <3>2
    <3>4. i - 1 \in U /\ Tail(cs)[i - 1] = cs[i]
      BY <1>1, <3>1, <3>3
    <3>5. U = {i - 1}
      <4>1. ASSUME NEW j \in U PROVE j = i - 1
        <5>1. j \in Nat \ {0} /\ j + 1 \in T
          BY <1>1
        <5>2. j + 1 = i
          BY <3>1, <5>1
        <5> QED
          BY <3>2, <5>1, <5>2
      <4> QED
        BY <3>4, <4>1
    <3>6. i - 1 \in DOMAIN Tail(cs)
      BY <1>3, <3>4
    <3>7. Given(Tail(cs), tag, child, said)
      BY <2>3, <3>1, <3>4, <3>5, <3>6 DEF U, Given
    <3> QED
      BY <1>5, <3>1, <3>4, <3>7 DEF T, U
  <2> QED
    BY <2>2, <2>3
<1> QED
  BY <1>4, <1>5

\* The order stays, and if the word is the first no label is left.
LEMMA TailInOrder ==
  ASSUME NEW S, NEW cs \in Seq(S), cs # <<>>, InOrder(cs)
  PROVE  /\ InOrder(Tail(cs))
         /\ Head(cs).tag = WordTag => Tagged(cs, LabelTag) = {}
<1>1. ASSUME NEW i \in Tagged(Tail(cs), LabelTag), NEW j \in Tagged(Tail(cs), WordTag)
      PROVE  i < j
  <2>1. i \in Nat \ {0} /\ i + 1 \in Tagged(cs, LabelTag)
    BY TailTagged
  <2>2. j \in Nat \ {0} /\ j + 1 \in Tagged(cs, WordTag)
    BY TailTagged
  <2>3. i + 1 < j + 1
    BY <2>1, <2>2 DEF InOrder
  <2> QED
    BY <2>1, <2>2, <2>3
<1>2. ASSUME Head(cs).tag = WordTag, NEW i \in Tagged(cs, LabelTag) PROVE FALSE
  <2>1. i \in Nat \ {0}
    BY TailTagged
  <2>2. 1 \in Tagged(cs, WordTag)
    BY <1>2, TailTagged
  <2>3. i < 1
    BY <2>2 DEF InOrder
  <2> QED
    BY <2>1, <2>3
<1> QED
  BY <1>1, <1>2 DEF InOrder

-----------------------------------------------------------------------------
(* The invariant of the front end, of the variables or of their next values. *)

Warned(n) == IF n = Total /\ ~Terminated THEN 1 ELSE 0

\* The position is between lines, or within the one that is skipped, and the
\* buffer holds the line with the number, or nothing for one too long.
Reads(q, n, st, warned, ln) ==
  /\ q \in 0..Len(file.text) /\ n \in 0..Total
  /\ st \in {"reading", "parsing", "emitting"} => PlaceAt(q, n)
  /\ st = "returned" => n = Total
  /\ st = "skipping" => n \in Long /\ Within(q, n - 1) /\ warned = 0
  /\ st \in {"skipping", "parsing", "emitting"} =>
       n \in 1..Total /\ ln = IF n \in Long THEN <<>> ELSE Code(n)
  /\ st \in {"reading", "parsing", "emitting", "returned"} => warned = Warned(n)

\* Of the line with this number a label or word is still to come, or none is.
Past(cs, tag, n) == IF Tagged(cs, tag) = {} THEN n + 1 ELSE n

Remaining(cs, n) ==
  /\ \E S : cs \in Seq(S)
  /\ Tagged(cs, LabelTag) # {} => n \in GoodLabels /\ Given(cs, LabelTag, 1, Meant(n).label)
  /\ Tagged(cs, WordTag) # {} => n \in GoodWords /\ Given(cs, WordTag, 2, Meant(n).word)
  /\ Tagged(cs, LabelTag) # {} /\ n \in GoodWords => Tagged(cs, WordTag) # {}
  /\ InOrder(cs)

\* What was produced is what the lines read so far give.
Gives(n, st, cs, sy, tx, er) ==
  /\ st \in {"reading", "returned"} => Produced(n + 1, n + 1, n + 1, sy, tx, er)
  /\ st \in {"skipping", "parsing"} =>
       Produced(n, n, IF n \in Long THEN n + 1 ELSE n, sy, tx, er)
  /\ st = "emitting" =>
       Remaining(cs, n) /\ Produced(Past(cs, LabelTag, n), Past(cs, WordTag, n), n + 1, sy, tx, er)

Translated ==
  /\ Reads(pos, line_num, stage, num_warnings, line)
  /\ Gives(line_num, stage, children, symbols, text, num_errors)

FrontNext ==
  /\ file' = file
  /\ Reads(pos', line_num', stage', num_warnings', line')
  /\ Gives(line_num', stage', children', symbols', text', num_errors')

FrontInv == file \in Files /\ (NulFree => Translated)

LEMMA FrontStarts ==
  ASSUME Init
  PROVE  FrontInv
<1>1. file \in Files
  BY DEF Init
<1>2. /\ pos = 0 /\ line_num = 0 /\ num_errors = 0 /\ num_warnings = 0 /\ symbols = {} /\ text = <<>>
      /\ stage = "reading"
  BY DEF Init
<1>3. /\ Newlines \in SUBSET Int /\ IsFiniteSet(Newlines) /\ Total \in Nat
      /\ Cardinality(Newlines) \in Nat /\ Len(file.text) \in Nat
      /\ \A i : i \in Newlines <=> i \in 1..Len(file.text) /\ file.text[i] = "LF"
  BY <1>1, FileFacts
<1>4. /\ GoodLabels \in SUBSET Int /\ GoodWords \in SUBSET Int
      /\ Dups \in SUBSET Int /\ Bad \in SUBSET Int
      /\ IsFiniteSet(GoodWords) /\ IsFiniteSet(Dups) /\ IsFiniteSet(Bad)
      /\ GoodLabels \subseteq 1..Total /\ GoodWords \subseteq 1..Total
      /\ Dups \subseteq 1..Total /\ Bad \subseteq 1..Total
  BY <1>1, SetFacts
<1>5. PlaceAt(0, 0)
  <2>1. \A i \in Newlines : 1 <= i
    BY <1>3
  <2>2. Before(Newlines, 1) = 0
    BY <1>3, <2>1, BeforeLeast
  <2>3. 0 + 1 = 1
    OBVIOUS
  <2> QED
    BY <2>2, <2>3 DEF PlaceAt, LineStart
<1>6. Warned(0) = 0
  BY <1>3 DEF Warned, Total
<1>7. Reads(0, 0, "reading", 0, line)
  BY <1>3, <1>5, <1>6 DEF Reads
<1>8. Produced(1, 1, 1, {}, <<>>, 0)
  <2>1. /\ \A i \in GoodLabels : 1 <= i
        /\ \A i \in GoodWords : 1 <= i
        /\ \A i \in Dups : 1 <= i
        /\ \A i \in Bad : 1 <= i
    BY <1>3, <1>4
  <2>2. Before(GoodWords, 1) = 0
    BY <1>4, <2>1, BeforeLeast
  <2>3. Before(Dups, 1) = 0 /\ Before(Bad, 1) = 0
    BY <1>4, <2>1, BeforeLeast
  <2>4. {i \in GoodLabels \ Dups : i < 1} = {}
    <3>1. \A i \in GoodLabels : i \in Int /\ 1 <= i
      BY <1>4, <2>1
    <3>2. \A i \in GoodLabels : ~(i < 1)
      BY <3>1
    <3> QED
      BY <3>2
  <2>5. SymbolsOf(1) = {}
    BY <2>4 DEF SymbolsOf
  <2>6. TextOf(<<>>, 1)
    <3>1. \A k \in GoodWords : ~(k < 1)
      BY <1>4, <2>1
    <3>2. Len(<<>>) = 0 /\ <<>> \in Seq({Value(k) : k \in GoodWords})
      OBVIOUS
    <3> QED
      BY <2>2, <3>1, <3>2 DEF TextOf
  <2> QED
    BY <2>3, <2>5, <2>6 DEF Produced, ErrorsOf
<1>9. 0 + 1 = 1
  OBVIOUS
<1>10. Gives(0, "reading", children, {}, <<>>, 0)
  BY <1>8, <1>9 DEF Gives
<1> QED
  BY <1>1, <1>2, <1>7, <1>10 DEF FrontInv, Translated

\* The file is returned when it has been read to its end.
LEMMA EndOfFileKeeps ==
  ASSUME file \in Files, Translated, EndOfFile
  PROVE  FrontNext
<1> DEFINE N == Len(file.text)
           n == line_num
<1>1. /\ stage = "reading" /\ NothingRead /\ pos' = N
      /\ stage' = IF file.fails THEN "died" ELSE "returned"
      /\ file' = file /\ line_num' = n /\ num_warnings' = num_warnings /\ line' = line
      /\ children' = children /\ num_errors' = num_errors /\ symbols' = symbols /\ text' = text
  BY DEF EndOfFile, code
<1>2. /\ pos \in 0..N /\ n \in 0..Total /\ PlaceAt(pos, n) /\ num_warnings = Warned(n)
      /\ Produced(n + 1, n + 1, n + 1, symbols, text, num_errors)
  BY <1>1 DEF Translated, Reads, Gives
<1>3. N \in Nat /\ Newlines \in SUBSET Int
      /\ \A i : i \in Newlines <=> i \in 1..N /\ file.text[i] = "LF"
  BY FileFacts
<1>4. stage' = "returned" => n = Total
  <2> SUFFICES ASSUME ~file.fails PROVE n = Total
    BY <1>1
  <2>1. pos = N
    BY <1>1 DEF NothingRead
  <2>2. CASE LineStart(pos, n)
    <3>1. Clear(pos, N + 1)
      BY <1>3, <2>1 DEF Clear
    <3> QED
      BY <2>1, <2>2, <3>1, LastStart
  <2> QED
    BY <1>2, <2>2 DEF PlaceAt
<1>5. N \in 0..N
  BY <1>3
<1>6. stage' \in {"died", "returned"}
  BY <1>1
<1>7. Reads(pos', n, stage', num_warnings, line)
  BY <1>1, <1>2, <1>4, <1>5, <1>6 DEF Reads
<1>8. Gives(n, stage', children, symbols, text, num_errors)
  BY <1>2, <1>6 DEF Gives
<1> QED
  BY <1>1, <1>7, <1>8 DEF FrontNext

\* A line that was read is the next.
LEMMA ReadLineKeeps ==
  ASSUME file \in Files, NulFree, Translated, ReadLine
  PROVE  FrontNext
<1> DEFINE n == line_num
<1>1. /\ stage = "reading" /\ line_num' = n + 1
      /\ file' = file /\ children' = children /\ symbols' = symbols /\ text' = text
  BY DEF ReadLine, code
<1>2. /\ pos \in 0..Len(file.text) /\ n \in 0..Total /\ PlaceAt(pos, n) /\ num_warnings = Warned(n)
      /\ Produced(n + 1, n + 1, n + 1, symbols, text, num_errors)
  BY <1>1 DEF Translated, Reads, Gives
<1>3. Total \in Nat /\ Long \subseteq 1..Total /\ Good \subseteq (1..Total) \ Long
  BY FileFacts, SetFacts
<1>4. n \in Nat
  BY <1>2, <1>3
<1>5. Fits(n + 1) \/ TooBig(n + 1)
  <2> HIDE DEF n
  <2>1. ASSUME NEW k \in Nat, k = n PROVE Fits(k + 1) \/ TooBig(k + 1)
    BY <1>2, <2>1, ReadsNextLine
  <2> QED
    BY <1>4, <2>1
<1>6. n + 1 \in 1..Total
  BY <1>5 DEF Fits, TooBig
<1>7. num_warnings = 0
  BY <1>2, <1>3, <1>4, <1>6 DEF Warned
<1>8. CASE Fits(n + 1)
  <2>1. /\ n + 1 \notin Long /\ line' = Code(n + 1) /\ stage' = "parsing" /\ num_errors' = num_errors
        /\ PlaceAt(pos', n + 1) /\ pos' \in 0..Len(file.text)
        /\ num_warnings' = 0 + Warned(n + 1)
    BY <1>7, <1>8 DEF Fits, Warned
  <2>2. num_warnings' = Warned(n + 1)
    BY <2>1 DEF Warned
  <2>3. n + 1 \in 0..Total
    BY <1>3, <1>6
  <2>4. Reads(pos', n + 1, stage', num_warnings', line')
    BY <1>6, <2>1, <2>2, <2>3 DEF Reads
  <2>5. Gives(n + 1, stage', children', symbols', text', num_errors')
    BY <1>1, <1>2, <2>1 DEF Gives
  <2> QED
    BY <1>1, <2>4, <2>5 DEF FrontNext
<1>9. CASE TooBig(n + 1)
  <2>1. /\ n + 1 \in Long /\ line' = <<>> /\ stage' = "skipping" /\ num_errors' = num_errors + 1
        /\ Within(pos', (n + 1) - 1) /\ pos' \in 0..Len(file.text)
        /\ num_warnings' = 0
    BY <1>7, <1>9 DEF TooBig
  <2>2. n + 1 \in 0..Total
    BY <1>3, <1>6
  <2>3. Reads(pos', n + 1, stage', num_warnings', line')
    BY <1>6, <2>1, <2>2 DEF Reads
  <2>4. n + 1 \notin Good
    BY <1>3, <2>1
  <2>5. Produced(n + 1, n + 1, (n + 1) + 1, symbols, text, num_errors + 1)
    BY <1>2, <1>6, <2>4, BadCounts
  <2>6. Gives(n + 1, stage', children', symbols', text', num_errors')
    BY <1>1, <2>1, <2>5 DEF Gives
  <2> QED
    BY <1>1, <2>3, <2>6 DEF FrontNext
<1> QED
  BY <1>5, <1>8, <1>9

\* The rest of a line that is too long goes up to its newline.
LEMMA SkipKeeps ==
  ASSUME file \in Files, Translated, Skip
  PROVE  FrontNext
<1> DEFINE N == Len(file.text)
           n == line_num
<1>1. /\ stage = "skipping" /\ pos' = Min({pos + 1, N})
      /\ stage' = IF pos < N /\ file.text[pos + 1] = "LF" THEN "parsing" ELSE stage
      /\ file' = file /\ line_num' = n /\ num_warnings' = num_warnings /\ line' = line
      /\ children' = children /\ num_errors' = num_errors /\ symbols' = symbols /\ text' = text
  BY DEF Skip, code
<1>2. /\ pos \in 0..N /\ n \in 1..Total /\ n \in 0..Total /\ n \in Long /\ Within(pos, n - 1)
      /\ line = <<>> /\ num_warnings = 0
      /\ Produced(n, n, n + 1, symbols, text, num_errors)
  BY <1>1 DEF Translated, Reads, Gives
<1>3. /\ N \in Nat /\ Newlines \in SUBSET Int /\ Total \in Nat
      /\ \A i : i \in Newlines <=> i \in 1..N /\ file.text[i] = "LF"
  BY FileFacts
<1>4. pos \in Nat /\ pos <= N /\ n \in Int /\ (n - 1) + 1 = n
  BY <1>2, <1>3
<1>5. pos' = IF pos < N THEN pos + 1 ELSE N
  <2> DEFINE S == {pos + 1, N}
             m == IF pos < N THEN pos + 1 ELSE N
  <2>1. S \in SUBSET Int /\ m \in S /\ \A x \in S : m <= x
    BY <1>3, <1>4
  <2>2. Min(S) = m
    <3> HIDE DEF S, m
    <3> QED
      BY <2>1, MinIs
  <2> QED
    BY <1>1, <2>2
<1>6. PICK s : LineStart(s, n - 1) /\ s <= pos /\ Clear(s, pos + 1)
  BY <1>2 DEF Within
<1>7. s \in 0..N /\ s \in Int
  BY <1>3, <1>6, StartNumber
<1>8. Gives(n, stage', children, symbols, text, num_errors)
  <2>1. stage' \in {"skipping", "parsing"}
    BY <1>1
  <2> QED
    BY <1>2, <2>1 DEF Gives
<1>9. CASE pos < N /\ file.text[pos + 1] = "LF"
  <2>1. pos + 1 \in 1..N /\ s < pos + 1 /\ pos + 1 \in 0..N
    BY <1>3, <1>4, <1>6, <1>7, <1>9
  <2>2. pos + 1 \in Newlines
    BY <1>3, <1>9, <2>1
  <2>3. LineStart(pos + 1, (n - 1) + 1) /\ ((n - 1) + 1 = Total => Terminated)
    BY <1>6, <2>1, <2>2, NextStart
  <2>4. PlaceAt(pos + 1, n) /\ Warned(n) = 0
    BY <1>4, <2>3 DEF PlaceAt, Warned
  <2>5. pos' = pos + 1 /\ stage' = "parsing"
    BY <1>1, <1>5, <1>9
  <2>6. Reads(pos', n, stage', num_warnings, line)
    BY <1>2, <2>1, <2>4, <2>5 DEF Reads
  <2> QED
    BY <1>1, <1>8, <2>6 DEF FrontNext
<1>10. CASE ~(pos < N /\ file.text[pos + 1] = "LF")
  <2>1. pos' \in 0..N /\ s <= pos' /\ pos' \in Int
    BY <1>3, <1>4, <1>5, <1>6, <1>7
  <2>2. Clear(s, pos' + 1)
    <3> SUFFICES ASSUME NEW i \in Newlines PROVE i <= s \/ pos' + 1 <= i
      BY DEF Clear
    <3>1. i \in 1..N /\ i \in Int /\ file.text[i] = "LF"
      BY <1>3
    <3>2. i <= s \/ pos + 1 <= i
      BY <1>6 DEF Clear
    <3>3. pos < N => i # pos + 1
      BY <1>10, <3>1
    <3> QED
      BY <1>3, <1>4, <1>5, <3>1, <3>2, <3>3
  <2>3. Within(pos', n - 1)
    BY <1>6, <2>1, <2>2 DEF Within
  <2>4. stage' = "skipping"
    BY <1>1, <1>10
  <2>5. Reads(pos', n, stage', num_warnings, line)
    BY <1>2, <2>1, <2>3, <2>4 DEF Reads
  <2> QED
    BY <1>1, <1>8, <2>5 DEF FrontNext
<1> QED
  BY <1>9, <1>10

\* What is not first stays as it was.
LEMMA TailPast ==
  ASSUME NEW S, NEW cs \in Seq(S), cs # <<>>, NEW tag, NEW child, NEW said,
         Tagged(cs, tag) # {} => Given(cs, tag, child, said), Head(cs).tag # tag
  PROVE  /\ Tagged(Tail(cs), tag) = {} <=> Tagged(cs, tag) = {}
         /\ Tagged(Tail(cs), tag) # {} => Given(Tail(cs), tag, child, said)
<1>1. CASE Tagged(cs, tag) = {}
  <2>1. Given(cs, tag, child, <<>>)
    BY <1>1 DEF Given
  <2> QED
    BY <1>1, <2>1, TailGiven
<1>2. CASE Tagged(cs, tag) # {}
  BY <1>2, TailGiven
<1> QED
  BY <1>1, <1>2

LEMMA TagsDiffer == LabelTag # WordTag
BY DEF LabelTag, WordTag

\* The first of the children is the label that the line gives: the word may
\* follow, and no other label does.
LEMMA LabelIsFirst ==
  ASSUME NEW n, NEW cs, Remaining(cs, n), cs # <<>>, Head(cs).tag = LabelTag
  PROVE  /\ n \in GoodLabels /\ Head(cs).children[1].contents = Name(n)
         /\ Past(cs, LabelTag, n) = n /\ Past(Tail(cs), LabelTag, n) = n + 1
         /\ Past(Tail(cs), WordTag, n) = Past(cs, WordTag, n)
         /\ n \notin GoodWords \/ Past(cs, WordTag, n) = n
         /\ Remaining(Tail(cs), n)
<1>1. PICK S : cs \in Seq(S)
  BY DEF Remaining
<1>2. 1 \in Tagged(cs, LabelTag)
  BY <1>1, TailTagged
<1>3. n \in GoodLabels /\ Given(cs, LabelTag, 1, Meant(n).label)
  BY <1>2 DEF Remaining
<1>4. /\ Tagged(Tail(cs), LabelTag) = {} /\ Tagged(cs, LabelTag) = {1}
      /\ Head(cs).children[1].contents = Meant(n).label[1]
  BY <1>1, <1>3, TailGiven
<1>5. Tagged(cs, WordTag) # {} => n \in GoodWords /\ Given(cs, WordTag, 2, Meant(n).word)
  BY DEF Remaining
<1>6. /\ Tagged(Tail(cs), WordTag) = {} <=> Tagged(cs, WordTag) = {}
      /\ Tagged(Tail(cs), WordTag) # {} => Given(Tail(cs), WordTag, 2, Meant(n).word)
  BY <1>1, <1>5, TagsDiffer, TailPast
<1>7. InOrder(Tail(cs)) /\ Tail(cs) \in Seq(S)
  BY <1>1, TailInOrder, TailTagged DEF Remaining
<1>8. Remaining(Tail(cs), n)
  BY <1>4, <1>5, <1>6, <1>7 DEF Remaining
<1>9. n \notin GoodWords \/ Past(cs, WordTag, n) = n
  BY <1>4 DEF Remaining, Past
<1> QED
  BY <1>3, <1>4, <1>6, <1>8, <1>9 DEF Past, Name

\* The first of the children is the word that the line gives: nothing follows.
LEMMA WordIsFirst ==
  ASSUME NEW n, NEW cs, Remaining(cs, n), cs # <<>>, Head(cs).tag = WordTag
  PROVE  /\ n \in GoodWords /\ Head(cs).children[2].contents = Meant(n).word[1]
         /\ Past(cs, WordTag, n) = n /\ Past(Tail(cs), WordTag, n) = n + 1
         /\ Past(Tail(cs), LabelTag, n) = Past(cs, LabelTag, n)
         /\ Remaining(Tail(cs), n)
<1>1. PICK S : cs \in Seq(S)
  BY DEF Remaining
<1>2. 1 \in Tagged(cs, WordTag)
  BY <1>1, TailTagged
<1>3. n \in GoodWords /\ Given(cs, WordTag, 2, Meant(n).word)
  BY <1>2 DEF Remaining
<1>4. /\ Tagged(Tail(cs), WordTag) = {} /\ Tagged(cs, WordTag) = {1}
      /\ Head(cs).children[2].contents = Meant(n).word[1]
  BY <1>1, <1>3, TailGiven
<1>5. Tagged(cs, LabelTag) # {} => n \in GoodLabels /\ Given(cs, LabelTag, 1, Meant(n).label)
  BY DEF Remaining
<1>6. Tagged(Tail(cs), LabelTag) = {} <=> Tagged(cs, LabelTag) = {}
  BY <1>1, <1>5, TagsDiffer, TailPast
<1>7. InOrder(Tail(cs)) /\ Tail(cs) \in Seq(S) /\ Tagged(cs, LabelTag) = {}
  BY <1>1, TailInOrder, TailTagged DEF Remaining
<1>8. Remaining(Tail(cs), n)
  BY <1>4, <1>6, <1>7 DEF Remaining
<1> QED
  BY <1>3, <1>4, <1>6, <1>8 DEF Past

\* The first of the children is neither.
LEMMA NeitherIsFirst ==
  ASSUME NEW n, NEW cs, Remaining(cs, n), cs # <<>>,
         Head(cs).tag # LabelTag, Head(cs).tag # WordTag
  PROVE  /\ Past(Tail(cs), WordTag, n) = Past(cs, WordTag, n)
         /\ Past(Tail(cs), LabelTag, n) = Past(cs, LabelTag, n)
         /\ Remaining(Tail(cs), n)
<1>1. PICK S : cs \in Seq(S)
  BY DEF Remaining
<1>2. Tagged(cs, LabelTag) # {} => n \in GoodLabels /\ Given(cs, LabelTag, 1, Meant(n).label)
  BY DEF Remaining
<1>3. Tagged(cs, WordTag) # {} => n \in GoodWords /\ Given(cs, WordTag, 2, Meant(n).word)
  BY DEF Remaining
<1>4. /\ Tagged(Tail(cs), LabelTag) = {} <=> Tagged(cs, LabelTag) = {}
      /\ Tagged(Tail(cs), LabelTag) # {} => Given(Tail(cs), LabelTag, 1, Meant(n).label)
  BY <1>1, <1>2, TailPast
<1>5. /\ Tagged(Tail(cs), WordTag) = {} <=> Tagged(cs, WordTag) = {}
      /\ Tagged(Tail(cs), WordTag) # {} => Given(Tail(cs), WordTag, 2, Meant(n).word)
  BY <1>1, <1>3, TailPast
<1>6. InOrder(Tail(cs)) /\ Tail(cs) \in Seq(S)
  BY <1>1, TailInOrder, TailTagged DEF Remaining
<1>7. Tagged(cs, LabelTag) # {} /\ n \in GoodWords => Tagged(cs, WordTag) # {}
  BY DEF Remaining
<1>8. Remaining(Tail(cs), n)
  BY <1>2, <1>3, <1>4, <1>5, <1>6, <1>7 DEF Remaining
<1> QED
  BY <1>4, <1>5, <1>8 DEF Past

\* While a line is parsed or given out, the reader does not move.
LEMMA ReaderStays ==
  ASSUME Translated, stage \in {"parsing", "emitting"}, UNCHANGED reader, stage' \in {"reading", "emitting"}
  PROVE  /\ file' = file /\ line_num' = line_num
         /\ Reads(pos', line_num', stage', num_warnings', line')
<1>1. /\ file' = file /\ pos' = pos /\ line_num' = line_num /\ num_warnings' = num_warnings
      /\ line' = line
  BY DEF reader
<1>2. Reads(pos, line_num, stage, num_warnings, line)
  BY DEF Translated
<1>3. Reads(pos, line_num, stage', num_warnings, line)
  BY <1>2 DEF Reads
<1> QED
  BY <1>1, <1>3

\* A line is parsed as what it means, or is an error if it means nothing.
LEMMA ParseLineKeeps ==
  ASSUME file \in Files, Translated, LinesParsed, ParseLine
  PROVE  FrontNext
<1> DEFINE n == line_num
           r == mpc_parse(line)
           cs == r.children
<1>1. /\ stage = "parsing" /\ UNCHANGED reader /\ symbols' = symbols /\ text' = text
      /\ r.ok => children' = cs /\ stage' = "emitting" /\ num_errors' = num_errors
      /\ ~r.ok => num_errors' = num_errors + 1 /\ stage' = "reading" /\ children' = children
  BY DEF ParseLine, code
<1>2. /\ n \in 1..Total /\ line = IF n \in Long THEN <<>> ELSE Code(n)
      /\ Produced(n, n, IF n \in Long THEN n + 1 ELSE n, symbols, text, num_errors)
  BY <1>1 DEF Translated, Reads, Gives
<1>3. /\ r.ok = Derived(line)
      /\ r.ok => /\ cs \in Seq(Range(cs)) /\ InOrder(cs)
                 /\ Given(cs, LabelTag, 1, Meaning(line).label)
                 /\ Given(cs, WordTag, 2, Meaning(line).word)
      /\ line = <<>> => Derived(line) /\ Meaning(line) = [label |-> <<>>, word |-> <<>>]
  <2>1. ParsedAs(line) /\ (line = <<>> => Derived(line)
                                          /\ Meaning(line) = [label |-> <<>>, word |-> <<>>])
    BY <1>1 DEF LinesParsed
  <2> QED
    BY <2>1 DEF ParsedAs
<1>4. /\ Good \subseteq (1..Total) \ Long /\ GoodLabels \subseteq Good /\ GoodWords \subseteq Good
      /\ \A k : k \in Good <=> k \in (1..Total) \ Long /\ Derived(Code(k))
      /\ n \in Int
  BY <1>2, SetFacts
<1>5. /\ file' = file /\ line_num' = n
      /\ Reads(pos', line_num', stage', num_warnings', line')
  <2>1. stage' \in {"reading", "emitting"}
    BY <1>1
  <2> QED
    BY <1>1, <2>1, ReaderStays
<1> HIDE DEF n, r, cs
<1>6. CASE ~r.ok
  <2>1. n \notin Long /\ n \notin Good
    BY <1>2, <1>3, <1>4, <1>6
  <2>2. n \notin GoodLabels /\ n \notin GoodWords
    BY <1>4, <2>1
  <2>3. Produced(n, n, n, symbols, text, num_errors)
    BY <1>2, <2>1
  <2>4. Produced(n, n, n + 1, symbols, text, num_errors + 1)
    BY <1>2, <2>1, <2>3, BadCounts
  <2>5. Produced(n + 1, n, n + 1, symbols, text, num_errors + 1)
    BY <1>4, <2>2, <2>4, NoLabel
  <2>6. Produced(n + 1, n + 1, n + 1, symbols, text, num_errors + 1)
    BY <1>4, <2>2, <2>5, NoWord
  <2>7. Gives(n, stage', children', symbols', text', num_errors')
    BY <1>1, <1>6, <2>6 DEF Gives
  <2> QED
    BY <1>5, <2>7 DEF FrontNext
<1>7. CASE r.ok /\ n \in Long
  <2>1. Meaning(line) = [label |-> <<>>, word |-> <<>>]
    BY <1>2, <1>3, <1>7
  <2>2. Tagged(cs, LabelTag) = {} /\ Tagged(cs, WordTag) = {}
    BY <1>3, <1>7, <2>1 DEF Given
  <2>3. n \notin GoodLabels /\ n \notin GoodWords
    BY <1>4, <1>7
  <2>4. Produced(n, n, n + 1, symbols, text, num_errors)
    BY <1>2, <1>7
  <2>5. Produced(n + 1, n, n + 1, symbols, text, num_errors)
    BY <1>4, <2>3, <2>4, NoLabel
  <2>6. Produced(n + 1, n + 1, n + 1, symbols, text, num_errors)
    BY <1>4, <2>3, <2>5, NoWord
  <2>7. Remaining(cs, n)
    BY <1>3, <1>7, <2>2 DEF Remaining
  <2>8. Past(cs, LabelTag, n) = n + 1 /\ Past(cs, WordTag, n) = n + 1
    BY <2>2 DEF Past
  <2>9. Gives(n, stage', children', symbols', text', num_errors')
    BY <1>1, <1>7, <2>6, <2>7, <2>8 DEF Gives
  <2> QED
    BY <1>5, <2>9 DEF FrontNext
<1>8. CASE r.ok /\ n \notin Long
  <2>1. n \in Good /\ Meaning(line) = Meant(n)
    BY <1>2, <1>3, <1>4, <1>8 DEF Meant
  <2>2. /\ n \in GoodLabels <=> Meant(n).label # <<>>
        /\ n \in GoodWords <=> Meant(n).word # <<>>
    BY <2>1 DEF GoodLabels, GoodWords, Labels, Words
  <2>3. Given(cs, LabelTag, 1, Meant(n).label) /\ Given(cs, WordTag, 2, Meant(n).word)
    BY <1>3, <1>8, <2>1
  <2>4. /\ Tagged(cs, LabelTag) = {} <=> n \notin GoodLabels
        /\ Tagged(cs, WordTag) = {} <=> n \notin GoodWords
    BY <2>2, <2>3 DEF Given
  <2>5. Remaining(cs, n)
    BY <1>3, <1>8, <2>3, <2>4 DEF Remaining
  <2>6. Produced(n, n, n + 1, symbols, text, num_errors)
    BY <1>2, <1>8, <2>1, BadCounts
  <2>7. Produced(Past(cs, LabelTag, n), n, n + 1, symbols, text, num_errors)
    <3>1. CASE n \in GoodLabels
      BY <2>4, <2>6, <3>1 DEF Past
    <3>2. CASE n \notin GoodLabels
      <4>1. Produced(n + 1, n, n + 1, symbols, text, num_errors)
        BY <1>4, <2>6, <3>2, NoLabel
      <4> QED
        BY <2>4, <3>2, <4>1 DEF Past
    <3> QED
      BY <3>1, <3>2
  <2>8. Produced(Past(cs, LabelTag, n), Past(cs, WordTag, n), n + 1, symbols, text, num_errors)
    <3>1. CASE n \in GoodWords
      BY <2>4, <2>7, <3>1 DEF Past
    <3>2. CASE n \notin GoodWords
      <4>1. Produced(Past(cs, LabelTag, n), n + 1, n + 1, symbols, text, num_errors)
        BY <1>4, <2>7, <3>2, NoWord
      <4> QED
        BY <2>4, <3>2, <4>1 DEF Past
    <3> QED
      BY <3>1, <3>2
  <2>9. Gives(n, stage', children', symbols', text', num_errors')
    BY <1>1, <1>8, <2>5, <2>8 DEF Gives
  <2> QED
    BY <1>5, <2>9 DEF FrontNext
<1> QED
  BY <1>6, <1>7, <1>8

\* Giving out what a line says.
LEMMA Emitting ==
  ASSUME Translated, stage = "emitting"
  PROVE  /\ Remaining(children, line_num)
         /\ Produced(Past(children, LabelTag, line_num), Past(children, WordTag, line_num),
                     line_num + 1, symbols, text, num_errors)
BY DEF Translated, Gives

LEMMA NewLabelKeeps ==
  ASSUME file \in Files, Translated, NewLabel
  PROVE  FrontNext
<1> DEFINE n == line_num
           w == Past(children, WordTag, n)
           added == [name |-> Name(n), line_num |-> n, address |-> Before(GoodWords, n)]
<1>1. /\ stage = "emitting" /\ children # <<>> /\ Head(children).tag = LabelTag
      /\ ~(\E s \in symbols : s.name = Head(children).children[1].contents)
      /\ symbols' = symbols \cup {[name |-> Head(children).children[1].contents, line_num |-> n,
                                   address |-> Len(text)]}
      /\ children' = Tail(children)
      /\ UNCHANGED reader /\ num_errors' = num_errors /\ text' = text /\ stage' = stage
  BY DEF NewLabel, Child, Defined, Label
<1>2. /\ Remaining(children, n)
      /\ Produced(Past(children, LabelTag, n), w, n + 1, symbols, text, num_errors)
  BY <1>1, Emitting
<1>3. /\ n \in GoodLabels /\ Head(children).children[1].contents = Name(n)
      /\ Past(children, LabelTag, n) = n /\ Past(Tail(children), LabelTag, n) = n + 1
      /\ Past(Tail(children), WordTag, n) = w
      /\ n \notin GoodWords \/ w = n
      /\ Remaining(Tail(children), n)
  BY <1>1, <1>2, LabelIsFirst
<1>4. /\ file' = file /\ line_num' = n
      /\ Reads(pos', line_num', stage', num_warnings', line')
  <2>1. stage' = "emitting"
    BY <1>1
  <2> QED
    BY <1>1, <2>1, ReaderStays
<1> HIDE DEF n, w
<1>5. Produced(n, w, n + 1, symbols, text, num_errors)
  BY <1>2, <1>3
<1>6. symbols = SymbolsOf(n) /\ Len(text) = Before(GoodWords, w)
  BY <1>5 DEF Produced, TextOf
<1>7. n \notin Dups
  BY <1>1, <1>3, <1>6, DefinedIsDuplicate
<1>8. Before(GoodWords, w) = Before(GoodWords, n)
  <2>1. CASE w = n
    BY <2>1
  <2>2. CASE w # n
    <3>1. n \notin GoodWords /\ w = n + 1
      BY <1>3, <2>2 DEF w, Past
    <3>2. GoodWords \in SUBSET Int /\ IsFiniteSet(GoodWords) /\ n \in Int
      BY <1>3, SetFacts
    <3> QED
      BY <3>1, <3>2, BeforeNext
  <2> QED
    BY <2>1, <2>2
<1>9. symbols' = symbols \cup {added}
  BY <1>1, <1>3, <1>6, <1>8 DEF n
<1>10. Produced(n + 1, w, n + 1, symbols', text, num_errors)
  BY <1>3, <1>5, <1>7, <1>9, FirstLabel
<1>11. Gives(n, stage', children', symbols', text', num_errors')
  BY <1>1, <1>3, <1>10 DEF Gives
<1> QED
  BY <1>4, <1>11 DEF FrontNext

LEMMA DuplicateLabelKeeps ==
  ASSUME file \in Files, Translated, DuplicateLabel
  PROVE  FrontNext
<1> DEFINE n == line_num
           w == Past(children, WordTag, n)
<1>1. /\ stage = "emitting" /\ children # <<>> /\ Head(children).tag = LabelTag
      /\ \E s \in symbols : s.name = Head(children).children[1].contents
      /\ num_errors' = num_errors + 1 /\ children' = Tail(children)
      /\ UNCHANGED reader /\ symbols' = symbols /\ text' = text /\ stage' = stage
  BY DEF DuplicateLabel, Child, Defined, Label, code
<1>2. /\ Remaining(children, n)
      /\ Produced(Past(children, LabelTag, n), w, n + 1, symbols, text, num_errors)
  BY <1>1, Emitting
<1>3. /\ n \in GoodLabels /\ Head(children).children[1].contents = Name(n)
      /\ Past(children, LabelTag, n) = n /\ Past(Tail(children), LabelTag, n) = n + 1
      /\ Past(Tail(children), WordTag, n) = w
      /\ Remaining(Tail(children), n)
  BY <1>1, <1>2, LabelIsFirst
<1>4. /\ file' = file /\ line_num' = n
      /\ Reads(pos', line_num', stage', num_warnings', line')
  <2>1. stage' = "emitting"
    BY <1>1
  <2> QED
    BY <1>1, <2>1, ReaderStays
<1> HIDE DEF n, w
<1>5. Produced(n, w, n + 1, symbols, text, num_errors)
  BY <1>2, <1>3
<1>6. symbols = SymbolsOf(n)
  BY <1>5 DEF Produced
<1>7. n \in Dups
  BY <1>1, <1>3, <1>6, DefinedIsDuplicate
<1>8. Produced(n + 1, w, n + 1, symbols, text, num_errors + 1)
  BY <1>5, <1>7, DuplicateCounts
<1>9. Gives(n, stage', children', symbols', text', num_errors')
  BY <1>1, <1>3, <1>8 DEF Gives
<1> QED
  BY <1>4, <1>9 DEF FrontNext

LEMMA EmitWordKeeps ==
  ASSUME file \in Files, Translated, EmitWord
  PROVE  FrontNext
<1> DEFINE n == line_num
           l == Past(children, LabelTag, n)
<1>1. /\ stage = "emitting" /\ children # <<>> /\ Head(children).tag = WordTag
      /\ text' = Append(text, Wrap(strtol(Head(children).children[2].contents)))
      /\ children' = Tail(children)
      /\ UNCHANGED reader /\ num_errors' = num_errors /\ symbols' = symbols /\ stage' = stage
  BY DEF EmitWord, Child
<1>2. /\ Remaining(children, n)
      /\ Produced(l, Past(children, WordTag, n), n + 1, symbols, text, num_errors)
  BY <1>1, Emitting
<1>3. /\ n \in GoodWords /\ Head(children).children[2].contents = Meant(n).word[1]
      /\ Past(children, WordTag, n) = n /\ Past(Tail(children), WordTag, n) = n + 1
      /\ Past(Tail(children), LabelTag, n) = l
      /\ Remaining(Tail(children), n)
  BY <1>1, <1>2, WordIsFirst
<1>4. /\ file' = file /\ line_num' = n
      /\ Reads(pos', line_num', stage', num_warnings', line')
  <2>1. stage' = "emitting"
    BY <1>1
  <2> QED
    BY <1>1, <2>1, ReaderStays
<1> HIDE DEF n, l
<1>5. Produced(l, n, n + 1, symbols, text, num_errors)
  BY <1>2, <1>3
<1>6. text' = Append(text, Value(n))
  BY <1>1, <1>3 DEF Value
<1>7. Produced(l, n + 1, n + 1, symbols, text', num_errors)
  BY <1>3, <1>5, <1>6, NextWord
<1>8. Gives(n, stage', children', symbols', text', num_errors')
  BY <1>1, <1>3, <1>7 DEF Gives
<1> QED
  BY <1>4, <1>8 DEF FrontNext

LEMMA NothingToEmitKeeps ==
  ASSUME file \in Files, Translated, NothingToEmit
  PROVE  FrontNext
<1> DEFINE n == line_num
<1>1. /\ stage = "emitting" /\ children # <<>>
      /\ Head(children).tag # LabelTag /\ Head(children).tag # WordTag
      /\ children' = Tail(children) /\ UNCHANGED reader
      /\ num_errors' = num_errors /\ symbols' = symbols /\ text' = text /\ stage' = stage
  BY DEF NothingToEmit, Child, code
<1>2. /\ Remaining(children, n)
      /\ Produced(Past(children, LabelTag, n), Past(children, WordTag, n), n + 1,
                  symbols, text, num_errors)
  BY <1>1, Emitting
<1>3. /\ Past(Tail(children), WordTag, n) = Past(children, WordTag, n)
      /\ Past(Tail(children), LabelTag, n) = Past(children, LabelTag, n)
      /\ Remaining(Tail(children), n)
  BY <1>1, <1>2, NeitherIsFirst
<1>4. /\ file' = file /\ line_num' = n
      /\ Reads(pos', line_num', stage', num_warnings', line')
  <2>1. stage' = "emitting"
    BY <1>1
  <2> QED
    BY <1>1, <2>1, ReaderStays
<1> HIDE DEF n
<1>5. Gives(n, stage', children', symbols', text', num_errors')
  BY <1>1, <1>2, <1>3 DEF Gives
<1> QED
  BY <1>4, <1>5 DEF FrontNext

LEMMA LineDoneKeeps ==
  ASSUME file \in Files, Translated, LineDone
  PROVE  FrontNext
<1> DEFINE n == line_num
<1>1. /\ stage = "emitting" /\ children = <<>> /\ stage' = "reading" /\ UNCHANGED reader
      /\ children' = children /\ num_errors' = num_errors /\ symbols' = symbols /\ text' = text
  BY DEF LineDone, code
<1>2. Produced(Past(children, LabelTag, n), Past(children, WordTag, n), n + 1,
               symbols, text, num_errors)
  BY <1>1, Emitting
<1>3. Tagged(children, LabelTag) = {} /\ Tagged(children, WordTag) = {}
  BY <1>1 DEF Tagged
<1>4. /\ file' = file /\ line_num' = n
      /\ Reads(pos', line_num', stage', num_warnings', line')
  <2>1. stage' = "reading"
    BY <1>1
  <2> QED
    BY <1>1, <2>1, ReaderStays
<1>5. Produced(n + 1, n + 1, n + 1, symbols, text, num_errors)
  BY <1>2, <1>3 DEF Past
<1> HIDE DEF n
<1>6. Gives(n, stage', children', symbols', text', num_errors')
  BY <1>1, <1>5 DEF Gives
<1> QED
  BY <1>4, <1>6 DEF FrontNext

-----------------------------------------------------------------------------
(* The theorems.                                                           *)

\* What is defined of the file stays with it.
LEMMA SameFile ==
  ASSUME file' = file
  PROVE  /\ Newlines' = Newlines /\ (NulFree' <=> NulFree) /\ (Terminated' <=> Terminated)
         /\ Total' = Total /\ Lines' = Lines /\ Long' = Long /\ Good' = Good
         /\ GoodLabels' = GoodLabels /\ GoodWords' = GoodWords /\ Dups' = Dups /\ Bad' = Bad
<1>1. Newlines' = Newlines
  BY DEF Newlines
<1>2. (NulFree' <=> NulFree) /\ (Terminated' <=> Terminated)
  BY <1>1 DEF NulFree, Terminated
<1>3. Total' = Total
  BY <1>1, <1>2 DEF Total
<1>4. Lines' = Lines
  BY <1>1, <1>2 DEF Lines, NewlineNumber
<1>5. Long' = Long
  BY <1>4 DEF Long
<1>6. Good' = Good
  BY <1>4, <1>5 DEF Good, Code
<1>7. GoodLabels' = GoodLabels /\ GoodWords' = GoodWords
  BY <1>4, <1>6 DEF GoodLabels, GoodWords, Labels, Words, Meant, Code
<1>8. Dups' = Dups
  BY <1>4, <1>7 DEF Dups, Duplicates, Name, Meant, Code
<1>9. Bad' = Bad
  BY <1>4, <1>6 DEF Bad
<1> QED
  BY <1>1, <1>2, <1>3, <1>4, <1>5, <1>6, <1>7, <1>8, <1>9

LEMMA FrontFollows ==
  ASSUME FrontNext
  PROVE  Translated'
<1>1. file' = file
  BY DEF FrontNext
<1>2. /\ Newlines' = Newlines /\ (NulFree' <=> NulFree) /\ (Terminated' <=> Terminated)
      /\ Total' = Total /\ Lines' = Lines /\ Long' = Long /\ Good' = Good
      /\ GoodLabels' = GoodLabels /\ GoodWords' = GoodWords /\ Dups' = Dups /\ Bad' = Bad
  BY <1>1, SameFile
<1>3. Reads(pos, line_num, stage, num_warnings, line)'
  <2>1. Reads(pos', line_num', stage', num_warnings', line')
    BY DEF FrontNext
  <2>2. PlaceAt(pos', line_num') => PlaceAt(pos, line_num)'
    BY <1>1, <1>2 DEF PlaceAt, LineStart
  <2>3. Within(pos', line_num' - 1) => Within(pos, line_num - 1)'
    BY <1>1, <1>2 DEF Within, LineStart, Clear
  <2>4. Code(line_num)' = Code(line_num')
    BY <1>2 DEF Code
  <2>5. Warned(line_num)' = Warned(line_num')
    BY <1>2 DEF Warned
  <2> QED
    BY <1>1, <1>2, <2>1, <2>2, <2>3, <2>4, <2>5 DEF Reads
<1>4. Gives(line_num, stage, children, symbols, text, num_errors)'
  <2>1. Gives(line_num', stage', children', symbols', text', num_errors')
    BY DEF FrontNext
  <2>2. Remaining(children', line_num') => Remaining(children, line_num)'
    BY <1>2 DEF Remaining, Meant, Code
  <2> DEFINE n == line_num
             m == IF n \in Long THEN n + 1 ELSE n
             l == Past(children, LabelTag, n)
             w == Past(children, WordTag, n)
             Made(a, b, c) == Produced(a, b, c, symbols', text', num_errors')
  <2>3. Made(n' + 1, n' + 1, n' + 1) => Produced(n + 1, n + 1, n + 1, symbols, text, num_errors)'
    BY <1>2 DEF Produced, SymbolsOf, TextOf, ErrorsOf, Value, Name, Meant, Code
  <2>4. Made(n', n', m') => Produced(n, n, m, symbols, text, num_errors)'
    BY <1>2 DEF Produced, SymbolsOf, TextOf, ErrorsOf, Value, Name, Meant, Code
  <2>5. Made(l', w', n' + 1) => Produced(l, w, n + 1, symbols, text, num_errors)'
    BY <1>2 DEF Produced, SymbolsOf, TextOf, ErrorsOf, Value, Name, Meant, Code
  <2>6. /\ m' = IF n' \in Long THEN n' + 1 ELSE n'
        /\ l' = Past(children', LabelTag, n') /\ w' = Past(children', WordTag, n')
    BY <1>2 DEF Past
  <2> QED
    BY <2>1, <2>2, <2>3, <2>4, <2>5, <2>6 DEF Gives
<1> QED
  BY <1>3, <1>4 DEF Translated

\* Every step keeps the invariant, as long as lines are parsed as what they mean.
LEMMA FrontStep ==
  ASSUME FrontInv, LinesParsed, [Next]_fvars
  PROVE  FrontInv'
<1>1. file \in Files
  BY DEF FrontInv
<1>2. CASE UNCHANGED fvars
  <2>1. /\ file' = file /\ pos' = pos /\ line_num' = line_num /\ stage' = stage
        /\ num_warnings' = num_warnings /\ line' = line /\ children' = children
        /\ symbols' = symbols /\ text' = text /\ num_errors' = num_errors
    BY <1>2 DEF fvars, reader, code
  <2>2. NulFree' <=> NulFree
    BY <2>1, SameFile
  <2>3. Translated => FrontNext
    BY <2>1 DEF Translated, FrontNext
  <2> QED
    BY <1>1, <2>1, <2>2, <2>3, FrontFollows DEF FrontInv
<1>3. CASE Step
  <2>1. file' = file
    BY <1>3 DEF Step, Emit, EndOfFile, ReadLine, Skip, ParseLine, NewLabel, DuplicateLabel,
                EmitWord, NothingToEmit, LineDone, reader
  <2>2. NulFree' <=> NulFree
    BY <2>1, SameFile
  <2>3. ASSUME NulFree PROVE FrontNext
    <3>0. Translated
      BY <2>3 DEF FrontInv
    <3>1. CASE EndOfFile
      BY <1>1, <3>0, <3>1, EndOfFileKeeps
    <3>2. CASE ReadLine
      BY <1>1, <2>3, <3>0, <3>2, ReadLineKeeps
    <3>3. CASE Skip
      BY <1>1, <3>0, <3>3, SkipKeeps
    <3>4. CASE ParseLine
      BY <1>1, <3>0, <3>4, ParseLineKeeps
    <3>5. CASE NewLabel
      BY <1>1, <3>0, <3>5, NewLabelKeeps
    <3>6. CASE DuplicateLabel
      BY <1>1, <3>0, <3>6, DuplicateLabelKeeps
    <3>7. CASE EmitWord
      BY <1>1, <3>0, <3>7, EmitWordKeeps
    <3>8. CASE NothingToEmit
      BY <1>1, <3>0, <3>8, NothingToEmitKeeps
    <3>9. CASE LineDone
      BY <1>1, <3>0, <3>9, LineDoneKeeps
    <3> QED
      BY <1>3, <3>1, <3>2, <3>3, <3>4, <3>5, <3>6, <3>7, <3>8, <3>9 DEF Step, Emit
  <2> QED
    BY <1>1, <2>1, <2>2, <2>3, FrontFollows DEF FrontInv
<1> QED
  BY <1>2, <1>3 DEF Next, Ended

\* What is known when the file is returned.
LEMMA AtTheEnd ==
  ASSUME FrontInv, NulFree, stage = "returned"
  PROVE  /\ file \in Files /\ line_num = Total /\ num_warnings = Warned(Total)
         /\ symbols = SymbolsOf(Total + 1) /\ TextOf(text, Total + 1)
         /\ num_errors = ErrorsOf(Total + 1, Total + 1)
         /\ Total \in Int
         /\ \A S \in SUBSET (1..Total) :
              IsFiniteSet(S) => Before(S, Total + 1) = Cardinality(S)
         /\ \A k \in 1..Total : k < Total + 1
<1>1. file \in Files /\ Translated
  BY DEF FrontInv
<1>2. line_num = Total /\ num_warnings = Warned(Total)
  BY <1>1 DEF Translated, Reads
<1>3. Produced(Total + 1, Total + 1, Total + 1, symbols, text, num_errors)
  BY <1>1, <1>2 DEF Translated, Gives
<1>4. Total \in Nat
  BY <1>1, FileFacts
<1>5. \A k \in 1..Total : k < Total + 1
  BY <1>4
<1>6. ASSUME NEW S \in SUBSET (1..Total), IsFiniteSet(S)
      PROVE  Before(S, Total + 1) = Cardinality(S)
  <2>1. S \in SUBSET Int /\ Total + 1 \in Int /\ \A j \in S : j < Total + 1
    BY <1>4, <1>5, <1>6
  <2> QED
    BY <1>6, <2>1, BeforeAll
<1> QED
  BY <1>1, <1>2, <1>3, <1>4, <1>5, <1>6 DEF Produced

LEMMA ProgramIs ==
  ASSUME FrontInv
  PROVE  ProgramOfLines
<1> SUFFICES ASSUME stage = "returned", NulFree
             PROVE  /\ symbols = {[name |-> Name(k), line_num |-> k, address |-> Before(GoodWords, k)] :
                                    k \in GoodLabels \ Dups}
                    /\ Len(text) = Cardinality(GoodWords)
                    /\ \A k \in GoodWords : text[Before(GoodWords, k) + 1] = Wrap(strtol(Meant(k).word[1]))
  BY DEF ProgramOfLines, GoodLabels, GoodWords, Dups
<1>1. /\ file \in Files /\ symbols = SymbolsOf(Total + 1) /\ TextOf(text, Total + 1)
      /\ \A S \in SUBSET (1..Total) : IsFiniteSet(S) => Before(S, Total + 1) = Cardinality(S)
      /\ \A k \in 1..Total : k < Total + 1
  BY AtTheEnd
<1>2. GoodLabels \subseteq 1..Total /\ GoodWords \subseteq 1..Total /\ IsFiniteSet(GoodWords)
  BY <1>1, SetFacts
<1>3. {i \in GoodLabels \ Dups : i < Total + 1} = GoodLabels \ Dups
  BY <1>1, <1>2
<1>4. symbols = {[name |-> Name(k), line_num |-> k, address |-> Before(GoodWords, k)] :
                   k \in GoodLabels \ Dups}
  BY <1>1, <1>3 DEF SymbolsOf
<1>5. Len(text) = Cardinality(GoodWords)
  BY <1>1, <1>2 DEF TextOf
<1>6. \A k \in GoodWords : text[Before(GoodWords, k) + 1] = Value(k)
  BY <1>1, <1>2 DEF TextOf
<1> QED
  BY <1>4, <1>5, <1>6 DEF Value

LEMMA ErrorsAre ==
  ASSUME FrontInv
  PROVE  ErrorsOfLines
<1> SUFFICES ASSUME stage = "returned", NulFree
             PROVE  /\ num_errors = Cardinality(Bad) + Cardinality(Dups)
                    /\ num_warnings = IF Terminated THEN 0 ELSE 1
                    /\ line_num = Len(Lines)
  BY DEF ErrorsOfLines, GoodLabels, Dups, Bad
<1>1. /\ file \in Files /\ line_num = Total /\ num_warnings = Warned(Total)
      /\ num_errors = ErrorsOf(Total + 1, Total + 1)
      /\ \A S \in SUBSET (1..Total) : IsFiniteSet(S) => Before(S, Total + 1) = Cardinality(S)
  BY AtTheEnd
<1>2. Dups \subseteq 1..Total /\ Bad \subseteq 1..Total /\ IsFiniteSet(Dups) /\ IsFiniteSet(Bad)
  BY <1>1, SetFacts
<1>3. num_errors = Cardinality(Bad) + Cardinality(Dups)
  BY <1>1, <1>2 DEF ErrorsOf
<1>4. num_warnings = IF Terminated THEN 0 ELSE 1
  BY <1>1 DEF Warned
<1>5. Total \in Nat
  BY <1>1, FileFacts
<1>6. Len(Lines) = Total
  BY <1>5 DEF Lines, Total
<1> QED
  BY <1>1, <1>3, <1>4, <1>6

LEMMA FrontAlways == Spec /\ []LinesParsed => []FrontInv
<1>1. Init => FrontInv
  BY FrontStarts
<1>2. FrontInv /\ LinesParsed /\ [Next]_fvars => FrontInv'
  BY FrontStep
<1> QED
  BY <1>1, <1>2, PTL DEF Spec

\* If each line is parsed as what it means, a file gives the labels and the
\* words of its good lines, each label at the address of the next word, and of
\* labels that are the same the first.
THEOREM FilesAreTranslated == Spec /\ []LinesParsed => []ProgramOfLines
<1>1. FrontInv => ProgramOfLines
  BY ProgramIs
<1> QED
  BY <1>1, FrontAlways, PTL

\* Then each line that is not good is one error, and each label that an earlier
\* line has, and an end without a newline is the one warning.
THEOREM ErrorsAreCounted == Spec /\ []LinesParsed => []ErrorsOfLines
<1>1. FrontInv => ErrorsOfLines
  BY ErrorsAre
<1> QED
  BY <1>1, FrontAlways, PTL
=============================================================================
