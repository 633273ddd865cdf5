------------------------------ MODULE MpcInput ------------------------------
(***************************************************************************)
(* The three kinds of input of the parser combinators (mpc.c:286-653): a   *)
(* string held in memory, a file that can be sought in, and a pipe that    *)
(* can take one character back.  An input is a record, the operations are  *)
(* operators on it.  Row and column follow from the position and are left  *)
(* out; characters are strings and "" stands for '\0'.                     *)
(***************************************************************************)
EXTENDS Integers, Sequences, SequencesExt

Kinds == {"string", "file", "pipe"}

\* off is how much of text has been taken from the file or pipe, eof the
\* stream's end-of-file indicator; neither is used for a string.
NewInput(kind, text) ==
  [ kind |-> kind, text |-> text, pos |-> 0, last |-> "",
    marks |-> <<>>, backtrack |-> 1, buffer |-> <<>>, off |-> 0, eof |-> FALSE ]

backtrack_disable(i) == [i EXCEPT !.backtrack = @ - 1]
backtrack_enable(i) == [i EXCEPT !.backtrack = @ + 1]

-----------------------------------------------------------------------------
(* Marks: places to come back to.  Within a predictive parser there are    *)
(* none.  The buffer of a pipe lives as long as there is a mark.           *)

mark(i) ==
  IF i.backtrack < 1 THEN i
  ELSE [i EXCEPT !.marks = Append(@, [pos |-> i.pos, last |-> i.last])]

unmark(i) ==
  IF i.backtrack < 1 THEN i
  ELSE [i EXCEPT !.marks = Front(@),
                 !.buffer = IF Len(i.marks) = 1 THEN <<>> ELSE @]

\* Slip: the last character seen is not restored.
rewind_keeps_last(i) ==
  IF i.backtrack < 1 THEN i
  ELSE LET back == [i EXCEPT !.pos = Last(i.marks).pos]
       IN  unmark(IF i.kind = "file" THEN [back EXCEPT !.off = back.pos, !.eof = FALSE]
                                     ELSE back)

\* Seeking in a file clears its end-of-file indicator.
rewind(i) ==
  IF i.backtrack < 1 THEN i
  ELSE LET back == [i EXCEPT !.pos = Last(i.marks).pos, !.last = Last(i.marks).last]
       IN  unmark(IF i.kind = "file" THEN [back EXCEPT !.off = back.pos, !.eof = FALSE]
                                     ELSE back)

-----------------------------------------------------------------------------
(* One character.                                                          *)

buffered(i) == i.kind = "pipe" /\ i.marks # <<>>

\* The next character was read before, since the outermost mark.
buffer_in_range(i) == buffered(i) /\ i.pos < i.marks[1].pos + Len(i.buffer)

buffer_get(i) == i.buffer[i.pos - i.marks[1].pos + 1]

CharAt(text, pos) == IF pos < Len(text) THEN text[pos + 1] ELSE ""

terminated(i) == IF i.kind = "string" THEN i.pos = Len(i.text) ELSE i.eof

\* fgetc: a character, or the end-of-file indicator.
Fetch(i) == IF i.off = Len(i.text) THEN [i EXCEPT !.eof = TRUE]
                                   ELSE [i EXCEPT !.off = @ + 1]

InMemory(i) == i.kind = "string" \/ buffer_in_range(i)

\* The character the next getc returns, and the input after it.
NextChar(i) == IF i.kind = "string" THEN CharAt(i.text, i.pos)
               ELSE IF buffer_in_range(i) THEN buffer_get(i)
               ELSE CharAt(i.text, i.off)

getc(i) == IF InMemory(i) THEN i ELSE Fetch(i)

\* A character looked at is sought back over or pushed back; the end of the
\* file leaves its indicator.
peekc(i) == IF InMemory(i) \/ i.off < Len(i.text) THEN i ELSE [i EXCEPT !.eof = TRUE]

\* The character taken by getc does not match and is put back.
failure(i) == IF InMemory(i) THEN i ELSE [i EXCEPT !.off = @ - 1, !.eof = FALSE]

\* It matches: the input moves past it.
success(i, c) ==
  [i EXCEPT !.buffer = IF buffered(i) /\ ~buffer_in_range(i) THEN Append(@, c) ELSE @,
            !.last = c, !.pos = @ + 1]

\* One character out of a set: mpc_input_any, char, range, oneof, noneof and
\* satisfy differ only in the set.
TakeOne(i, set) ==
  LET c == NextChar(i)
      taken == getc(i)
  IN  IF terminated(taken) THEN [ok |-> FALSE, input |-> taken]
      ELSE IF c \in set THEN [ok |-> TRUE, input |-> success(taken, c)]
      ELSE [ok |-> FALSE, input |-> failure(taken)]

\* The characters of s, one by one, all or none where marks are kept.
TakeString(i, s) ==
  LET run[k \in 0..Len(s)] ==
        IF k = 0 THEN [ok |-> TRUE, input |-> mark(i)]
        ELSE IF run[k - 1].ok THEN TakeOne(run[k - 1].input, {s[k]}) ELSE run[k - 1]
      end == run[Len(s)]
  IN  [end EXCEPT !.input = IF end.ok THEN unmark(@) ELSE rewind(@)]
=============================================================================
