---------------------------- MODULE MpcFrontEnd ----------------------------
(***************************************************************************)
(* The mpc-based assembler front end (rbml_parser_mpc.c): a reader of      *)
(* lines over a buffer of fixed size, and for each line a parse and the    *)
(* labels and words that its syntax tree gives.  What parses a line, and   *)
(* what a line means, are parameters: RbmlLine gives both.                 *)
(***************************************************************************)
EXTENDS RBMLWord, Counting, FiniteSetsExt, SequencesExt

CONSTANTS
  Files,         \* input files: [text, fails], the latter if reading on gives an error
  BUFSIZE,       \* size of the line buffer (1024)
  LONG_BITS,     \* width of a C long (64)
  mpc_parse(_),  \* of a line: [ok, children], the latter those of its tree
  Derived(_),    \* whether a line is of the language
  Meaning(_)     \* of one that is: [label, word], each empty or of one

ASSUME FilesAssumption ==
  /\ BUFSIZE \in Nat /\ BUFSIZE >= 2
  /\ LONG_BITS \in Nat \ {0}
  /\ \A f \in Files : f.text \in Seq(Range(f.text))

VARIABLES
  file,
  pos,          \* how much of the file was read
  line_num, num_errors, num_warnings,
  line,         \* the buffer as a string
  children,     \* of the line's tree, those still to look at
  symbols,      \* [name, line_num, address] each
  text,         \* words emitted
  stage

reader == <<file, pos, line_num, num_warnings, line>>
code == <<symbols, text>>
fvars == <<reader, children, num_errors, code, stage>>

Init ==
  /\ file \in Files
  /\ pos = 0 /\ line_num = 0 /\ num_errors = 0 /\ num_warnings = 0
  /\ line = <<>> /\ children = <<>>
  /\ symbols = {} /\ text = <<>>
  /\ stage = "reading"

-----------------------------------------------------------------------------
(* Reading (lines 133-163).                                                *)

Upto(cs, i) == SubSeq(cs, 1, i)

\* Where the first of the characters in set is, or just past the end.
First(cs, set) == Min({i \in DOMAIN cs : cs[i] \in set} \cup {Len(cs) + 1})

\* A string cut off at the first of some characters.
Cut(cs, set) == Upto(cs, First(cs, set) - 1)

\* fgets: up to and with a newline, at most the buffer less one, or nothing.
NextNewlines == {i \in (pos + 1)..Len(file.text) : file.text[i] = "LF"}
ChunkEnd == Min(NextNewlines \cup {Len(file.text), pos + BUFSIZE - 1})
Chunk == SubSeq(file.text, pos + 1, ChunkEnd)
HitEnd == ChunkEnd < pos + BUFSIZE - 1 /\ ChunkEnd \notin NextNewlines
NothingRead == HitEnd /\ (pos = Len(file.text) \/ file.fails)

EndOfFile ==
  /\ stage = "reading"
  /\ NothingRead
  /\ pos' = Len(file.text)
  /\ stage' = IF file.fails THEN "died" ELSE "returned"
  /\ UNCHANGED <<file, line_num, num_warnings, line, children, num_errors, code>>

\* Slip: a line with no newline is too long, whatever the reason.
TooLongAtEnd(string) == "LF" \notin Range(string)

\* Slip: a buffer that is full is taken for a line too long, newline or not.
TooLongWhenFull(string) == Len(string) = BUFSIZE - 1

TooLong(string) == "LF" \notin Range(string) /\ ~HitEnd

ReadLine ==
  /\ stage = "reading"
  /\ ~NothingRead
  /\ pos' = ChunkEnd
  /\ line_num' = line_num + 1
  /\ \E string \in {Cut(Chunk, {"NUL"})} :
       IF TooLong(string)
       THEN /\ num_errors' = num_errors + 1
            /\ line' = <<>>
            /\ stage' = "skipping"
            /\ UNCHANGED num_warnings
       ELSE /\ line' = Cut(string, {"LF", ";"})
            /\ num_warnings' = num_warnings + (IF "LF" \in Range(string) THEN 0 ELSE 1)
            /\ stage' = "parsing"
            /\ UNCHANGED num_errors
  /\ UNCHANGED <<file, children, code>>

\* fgetc until it returns a newline; at the end it returns EOF, again and again.
Skip ==
  /\ stage = "skipping"
  /\ pos' = Min({pos + 1, Len(file.text)})
  /\ stage' = IF pos < Len(file.text) /\ file.text[pos + 1] = "LF" THEN "parsing" ELSE stage
  /\ UNCHANGED <<file, line_num, num_warnings, line, children, num_errors, code>>

-----------------------------------------------------------------------------
(* Parsing a line (lines 168-216).                                         *)

DigitValue(c) ==
  CASE c = "0" -> 0 [] c = "1" -> 1 [] c = "2" -> 2 [] c = "3" -> 3 [] c = "4" -> 4
    [] c = "5" -> 5 [] c = "6" -> 6 [] c = "7" -> 7 [] c = "8" -> 8 [] c = "9" -> 9
    [] c \in {"a", "A"} -> 10 [] c \in {"b", "B"} -> 11 [] c \in {"c", "C"} -> 12
    [] c \in {"d", "D"} -> 13 [] c \in {"e", "E"} -> 14 [] c \in {"f", "F"} -> 15

LONG_MAX == 2^(LONG_BITS - 1) - 1

\* strtol(s, NULL, 0) of a sign and digits: a prefix 0x means base 16, a prefix
\* 0 base 8, and the digits after one that the base does not have are ignored.
\* A number beyond a long is the last one of its sign.
strtol(s) ==
  LET signed == s[1] \in {"+", "-"}
      number == IF signed THEN Tail(s) ELSE s
      base == CASE number[1] # "0" -> 10
                [] Len(number) > 1 /\ number[2] = "x" -> 16
                [] OTHER -> 8
      digits == IF base = 16 THEN SubSeq(number, 3, Len(number)) ELSE number
      used == Upto(digits, First(digits, {c \in Range(digits) : DigitValue(c) >= base}) - 1)
      magnitude == FoldLeft(LAMBDA n, c : n * base + DigitValue(c), 0, used)
  IN  IF s[1] = "-" THEN -Min({magnitude, LONG_MAX + 1}) ELSE Min({magnitude, LONG_MAX})

ParseLine ==
  /\ stage = "parsing"
  /\ \E result \in {mpc_parse(line)} :
       IF result.ok THEN /\ children' = result.children
                         /\ stage' = "emitting"
                         /\ UNCHANGED num_errors
       ELSE /\ num_errors' = num_errors + 1
            /\ stage' = "reading"
            /\ UNCHANGED children
  /\ UNCHANGED <<reader, code>>

LabelTag == <<"label", ">">>
WordTag == <<"word", ">">>

\* The next child of the line's tree has this tag.
Child(tag) == stage = "emitting" /\ children # <<>> /\ Head(children).tag = tag

Label == Head(children).children[1].contents
Defined == \E s \in symbols : s.name = Label

NewLabel ==
  /\ Child(LabelTag) /\ ~Defined
  /\ symbols' = symbols \cup {[name |-> Label, line_num |-> line_num, address |-> Len(text)]}
  /\ children' = Tail(children)
  /\ UNCHANGED <<reader, num_errors, text, stage>>

\* Slip: the rest of the line is dropped with the label.
DuplicateDropsLine ==
  /\ Child(LabelTag) /\ Defined
  /\ num_errors' = num_errors + 1
  /\ children' = <<>>
  /\ UNCHANGED <<reader, code, stage>>

DuplicateLabel ==
  /\ Child(LabelTag) /\ Defined
  /\ num_errors' = num_errors + 1
  /\ children' = Tail(children)
  /\ UNCHANGED <<reader, code, stage>>

EmitWord ==
  /\ Child(WordTag)
  /\ text' = Append(text, Wrap(strtol(Head(children).children[2].contents)))
  /\ children' = Tail(children)
  /\ UNCHANGED <<reader, num_errors, symbols, stage>>

\* The ends of the line, and every instruction that is not WORD.
NothingToEmit ==
  /\ stage = "emitting" /\ children # <<>>
  /\ ~Child(LabelTag) /\ ~Child(WordTag)
  /\ children' = Tail(children)
  /\ UNCHANGED <<reader, num_errors, code, stage>>

LineDone ==
  /\ stage = "emitting" /\ children = <<>>
  /\ stage' = "reading"
  /\ UNCHANGED <<reader, children, num_errors, code>>

Ended == stage \in {"returned", "died"} /\ UNCHANGED fvars

Emit == NewLabel \/ DuplicateLabel \/ EmitWord \/ NothingToEmit \/ LineDone
Step == EndOfFile \/ ReadLine \/ Skip \/ ParseLine \/ Emit

Next == Step \/ Ended

\* A loop of one process, which goes on as long as it can: WF_fvars(Step), written
\* with the states in which no step changes anything.
Stopped == stage \in {"returned", "died"} \/ (stage = "skipping" /\ pos = Len(file.text))
Spec == Init /\ [][Next]_fvars
FairSpec == Spec /\ ([]<>Stopped \/ []<><<TRUE>>_fvars)

-----------------------------------------------------------------------------
(* The reference: the program as what its lines say one by one.            *)

\* The file cut at its newlines, and whether its end is one.
Newlines == {i \in DOMAIN file.text : file.text[i] = "LF"}
Terminated == Len(file.text) \in Newlines \cup {0}
NewlineNumber(n) ==
  CASE n = 0 -> 0
    [] n \in 1..Cardinality(Newlines) -> Nth(Newlines, n)
    [] OTHER -> Len(file.text) + 1
Lines == [k \in 1..(Cardinality(Newlines) + IF Terminated THEN 0 ELSE 1) |->
            SubSeq(file.text, NewlineNumber(k - 1) + 1, NewlineNumber(k) - 1)]

NulFree == "NUL" \notin Range(file.text)
Long == {k \in DOMAIN Lines : Len(Lines[k]) > BUFSIZE - 2}
Code(k) == Cut(Lines[k], {";"})
Good == {k \in DOMAIN Lines \ Long : Derived(Code(k))}

Meant(k) == Meaning(Code(k))
Name(k) == Meant(k).label[1]
Labels(good) == {k \in good : Meant(k).label # <<>>}
Words(good) == {k \in good : Meant(k).word # <<>>}
Duplicates(labels) == {k \in labels : \E j \in labels : j < k /\ Name(j) = Name(k)}

-----------------------------------------------------------------------------
(* Properties.                                                             *)

Tagged(cs, tag) == {i \in DOMAIN cs : cs[i].tag = tag}

\* Among the children there is one with this tag, which holds what is said, or
\* there is none if nothing is.
Given(cs, tag, child, said) ==
  IF said = <<>> THEN Tagged(cs, tag) = {}
  ELSE \E i \in DOMAIN cs : /\ Tagged(cs, tag) = {i}
                            /\ cs[i].children[child].contents = said[1]

InOrder(cs) == \A i \in Tagged(cs, LabelTag), j \in Tagged(cs, WordTag) : i < j

\* The tree of a line holds what the line means: its label, then its word.
ParsedAs(l) ==
  \E result \in {mpc_parse(l)} :
    /\ result.ok = Derived(l)
    /\ result.ok =>
         /\ result.children \in Seq(Range(result.children))
         /\ Given(result.children, LabelTag, 1, Meaning(l).label)
         /\ Given(result.children, WordTag, 2, Meaning(l).word)
         /\ InOrder(result.children)

\* The ordered choices of the parser accept exactly the lines of the language, and
\* give its label before its word, with the text each has in the line
\* (rbml_parser_mpc.c:64-80, 180-209).  The line that stands for one too long is
\* one that says nothing.
LinesParsed ==
  stage = "parsing" =>
    /\ ParsedAs(line)
    /\ line = <<>> => Derived(line) /\ Meaning(line) = [label |-> <<>>, word |-> <<>>]

\* A file that was read to its end has given the label of each line that the
\* language derives, once, with the number of that line and the address of the
\* next word, and the word of each, in order, duplicate label or not; a line it
\* does not derive, or that does not fit the buffer, gives neither
\* (rbml_parser_mpc.c:133-216).
ProgramOfLines ==
  stage = "returned" /\ NulFree =>
    \E good \in {Good} :
      LET labels == Labels(good)
          words == Words(good)
      IN  /\ symbols = {[name |-> Name(k), line_num |-> k, address |-> Before(words, k)] :
                          k \in labels \ Duplicates(labels)}
          /\ Len(text) = Cardinality(words)
          /\ \A k \in words : text[Before(words, k) + 1] = Wrap(strtol(Meant(k).word[1]))

\* Each line that does not fit, or that the language does not derive, is one
\* error, and so is each label that an earlier line has: the ordered choices of
\* the parser reject nothing that another choice would have accepted.  A missing
\* newline at the end is a warning (rbml_parser_mpc.c:145-156, 178-199).
ErrorsOfLines ==
  stage = "returned" /\ NulFree =>
    \E good \in {Good} :
      /\ num_errors = Cardinality(DOMAIN Lines \ good) + Cardinality(Duplicates(Labels(good)))
      /\ num_warnings = IF Terminated THEN 0 ELSE 1
      /\ line_num = Len(Lines)

\* Reading ends, unless the last line is both too long and without a newline,
\* or a line holds a NUL (rbml_parser_mpc.c:150-152).
LastLineFits == \E i \in Newlines \cup {0} : Len(file.text) - i < BUFSIZE - 1

EndsWhenLastLineFits == NulFree /\ LastLineFits => <>(stage \in {"returned", "died"})
=============================================================================
