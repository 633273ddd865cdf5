---------------------------- MODULE MCAssembler ----------------------------
(***************************************************************************)
(* Source files of up to three of a dozen lines, well-formed and not, over *)
(* two names; and every sequence of up to four tokens of one kind each.    *)
(***************************************************************************)
EXTENDS Assembler

Id(name) == Token("IDENT", name)
Colon == Token("COLON", 0)
Comma == Token("COMMA", 0)
NL == Token("NL", 0)
Reg(r) == Token("REG", r)
Halt == Token("INST0", 255)
Bran == Token("INST1A", 48)
Sto == Token("INST2RA", 1)
Bad == Token("BAD", 0)

\* In order: empty; labels alone and with an instruction; references by both
\* kinds of instruction; an instruction of each other kind, one with a number
\* too wide for its field; a label twice on a line, an operand too few, a
\* token too many after a complete instruction, a bad character, junk.
LineShapes ==
  { <<>>, <<Id("a"), Colon>>, <<Id("a"), Colon, Halt>>, <<Id("b"), Colon, Bran, Id("a")>>,
    <<Bran, Id("b")>>, <<Sto, Reg(1), Comma, Id("a")>>,
    <<Token("WORD", 0), Token("NUMBER", 70000)>>,
    <<Token("INST1R", 22), Reg(3)>>, <<Token("INST2RR", 160), Reg(1), Comma, Reg(2)>>,
    <<Token("INST2NR", 180), Token("NUMBER", 5), Comma, Reg(1)>>,
    <<Id("a"), Colon, Id("b"), Colon>>, <<Sto, Reg(1), Comma>>, <<Halt, Reg(0)>>,
    <<Halt, Bad>>, <<Id("a")>>, <<Comma, Halt, Colon>> }

Files ==
  LineShapes
    \cup {line \o <<NL>> \o rest : line \in LineShapes, rest \in LineShapes}
    \cup {line \o <<NL>> \o rest \o <<NL>> \o last :
            line \in LineShapes, rest \in LineShapes, last \in LineShapes}

Tokens == {Id("a"), Colon, NL, Halt, Bran, Bad, Comma, Reg(1), Sto}

MCSources == Files \cup UNION {[1..n -> Tokens] : n \in 0..4}
=============================================================================
