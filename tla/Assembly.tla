------------------------------ MODULE Assembly ------------------------------
(***************************************************************************)
(* RBML assembly: the tokens of rbml_lex.l, the lines the grammar of       *)
(* rbml_parser.y accepts, and the program that a source file stands for,   *)
(* defined line by line and without a parser: the reference the assembler  *)
(* is compared with.                                                       *)
(*                                                                         *)
(* A keyword token carries its opcode, an identifier its name, a register  *)
(* or a number its value; "BAD" is a character the scanner rejects.        *)
(***************************************************************************)
EXTENDS RBMLWord, Counting, Sequences, FiniteSets

Token(kind, value) == [kind |-> kind, value |-> value]

\* Opcodes, registers and numbers are integers; no token of a file is its end.
IsToken(t) ==
  /\ t.kind # "EOF"
  /\ t.kind \notin {"IDENT", "COLON", "COMMA", "NL", "BAD"} => t.value \in Int

\* The operands of each kind of instruction.
Operands ==
  [ WORD |-> <<"NUMBER">>, INST0 |-> <<>>, INST1A |-> <<"IDENT">>, INST1R |-> <<"REG">>,
    INST2RR |-> <<"REG", "COMMA", "REG">>, INST2RA |-> <<"REG", "COMMA", "IDENT">>,
    INST2NR |-> <<"NUMBER", "COMMA", "REG">> ]

\* The name an instruction refers to, if any.
RefersTo(inst) == {inst[i].value : i \in {j \in DOMAIN inst : inst[j].kind = "IDENT"}}

\* The word of an instruction, given the address of the name it refers to.
Encode(inst, address) ==
  LET op == inst[1].value
  IN  CASE inst[1].kind = "WORD" -> Wrap(inst[2].value)
        [] inst[1].kind \in {"INST0", "INST1A"} -> RBML_INST(op, 0, 0, address)
        [] inst[1].kind \in {"INST1R", "INST2RA"} -> RBML_INST(op, inst[2].value, 0, address)
        [] OTHER -> RBML_INST(op, inst[2].value, inst[4].value, 0)

-----------------------------------------------------------------------------
(* Lines.                                                                  *)

NewLines(src) == {i \in DOMAIN src : src[i].kind = "NL"}
LineNumber(src, i) == 1 + Before(NewLines(src), i)

\* The k-th line without the characters the scanner drops.
Kept(src, k) ==
  {i \in DOMAIN src : src[i].kind \notin {"NL", "BAD"} /\ LineNumber(src, i) = k}

Line(src, k) ==
  LET kept == Kept(src, k)
  IN  [n \in 1..Cardinality(kept) |-> src[Nth(kept, n)]]

Lines(src) == [k \in 1..LineNumber(src, Len(src) + 1) |-> Line(src, k)]

Labelled(line) == Len(line) >= 2 /\ line[1].kind = "IDENT" /\ line[2].kind = "COLON"
Label(line) == line[1].value
Body(line) == IF Labelled(line) THEN SubSeq(line, 3, Len(line)) ELSE line

\* An instruction with all its operands stands at the start of the line's body.
HasInstruction(line) ==
  LET body == Body(line)
  IN  /\ body # <<>>
      /\ body[1].kind \in DOMAIN Operands
      /\ LET kinds == Operands[body[1].kind]
         IN  /\ Len(body) > Len(kinds)
             /\ \A i \in DOMAIN kinds : body[i + 1].kind = kinds[i]

InstructionOf(line) == SubSeq(Body(line), 1, 1 + Len(Operands[Body(line)[1].kind]))

-----------------------------------------------------------------------------
(* Programs.                                                               *)

\* The label of line k is that of an earlier line too.
Redefines(lines, k) ==
  Labelled(lines[k])
    /\ \E j \in 1..(k - 1) : Labelled(lines[j]) /\ Label(lines[j]) = Label(lines[k])

\* The lines that give a word of the program, in the order of the words.
Giving(lines) == {k \in DOMAIN lines : HasInstruction(lines[k]) /\ ~Redefines(lines, k)}
WordsBefore(lines, k) == Before(Giving(lines), k)

Names(lines) == {Label(lines[k]) : k \in {j \in DOMAIN lines : Labelled(lines[j])}}
References(lines) ==
  UNION {RefersTo(InstructionOf(lines[k])) : k \in Giving(lines)}

\* A label stands for the address of the next word.
Address(lines, name) ==
  WordsBefore(lines, CHOOSE k \in DOMAIN lines :
    Labelled(lines[k]) /\ Label(lines[k]) = name /\ ~Redefines(lines, k))

HasBadCharacter(src, k) ==
  \E i \in DOMAIN src : src[i].kind = "BAD" /\ LineNumber(src, i) = k

\* Line k is one the grammar accepts, with a label of its own.
GoodLine(src, k) ==
  LET lines == Lines(src)
  IN  /\ ~HasBadCharacter(src, k)
      /\ ~Redefines(lines, k)
      /\ \/ Body(lines[k]) = <<>>
         \/ HasInstruction(lines[k]) /\ InstructionOf(lines[k]) = Body(lines[k])

\* Line k refers to a name that is a label nowhere.
Dangling(src, k) ==
  LET lines == Lines(src)
  IN  k \in Giving(lines) /\ ~(RefersTo(InstructionOf(lines[k])) \subseteq Names(lines))

WellFormed(src) ==
  \A k \in DOMAIN Lines(src) : GoodLine(src, k) /\ ~Dangling(src, k)

\* The program: the first pass finds the labels, the second encodes.
Program(src) ==
  LET lines == Lines(src)
      AddressIn(inst) == IF RefersTo(inst) = {} THEN 0
                         ELSE Address(lines, CHOOSE name \in RefersTo(inst) : TRUE)
  IN  [ n \in 1..Cardinality(Giving(lines)) |->
          LET inst == InstructionOf(lines[Nth(Giving(lines), n)])
          IN  Encode(inst, AddressIn(inst)) ]
=============================================================================
