------------------------------ MODULE MCMachine ------------------------------
(***************************************************************************)
(* Two families of programs.  One runs every opcode, documented or not,    *)
(* once after registers, the accumulator, the jump register and the        *)
(* comparison flags were given boundary values.  The other brings the      *)
(* machine to its edges over many steps: disks opened again and again,     *)
(* recursion deeper than the call stack, stores past memory followed by    *)
(* console output, END with an arbitrary jump register, programs that fall *)
(* through into zeros, ones longer than memory, and files it refuses.      *)
(***************************************************************************)
EXTENDS RBMLMachine

Operands == {RBML_WORD_MIN, -1, 0, 3, RBML_WORD_MAX}

\* One opcode of every run of unknown ones, and every known one.
Tried == Known \cup {9, 31, 54, 80, 175, 254}

\* 0: r1, r2, accumulator and jump are loaded and r1 compared with r2;
\* 5: the instruction, with address a; 6: HALT; 9: the operands.
Program(op, x, y, a) ==
  << RBML_INST(OP.LOD, 1, 0, 9), RBML_INST(OP.LOD, 2, 0, 10),
     RBML_INST(OP.LOD + 1, 0, 0, 10), RBML_INST(OP.LOD + 2, 0, 0, 10),
     RBML_INST(OP.CMP, 1, 2, 0), RBML_INST(op, 1, 2, a),
     RBML_INST(OP.HALT, 0, 0, 0), 0, 0, x, y >>

\* A program file of the given words; main memory has 12.
File(text) == [text |-> text, oddBytes |-> 0, readable |-> TRUE]

OpensForEver ==
  << RBML_INST(OP.OPEN, 1, 0, 0), RBML_INST(OP.OPEN, 2, 0, 0),
     RBML_INST(OP.CLOS, 1, 0, 0), RBML_INST(OP.BRAN, 0, 0, 0) >>

ReopensAndClosesTwice ==
  << RBML_INST(OP.OPEN, 1, 0, 0), RBML_INST(OP.OPEN, 1, 0, 0),
     RBML_INST(OP.CLOS, 1, 0, 0), RBML_INST(OP.CLOS, 1, 0, 0),
     RBML_INST(OP.HALT, 0, 0, 0) >>

\* Recursion without end: the last word is a CALL of itself.
Recurses == << RBML_INST(OP.BRAN, 0, 0, 1), RBML_INST(OP.CALL, 0, 0, 1) >>

\* Nesting three deep, one deeper than a call stack of one word holds, and
\* back out of main memory's first word.
Nests ==
  << RBML_INST(OP.BRAN, 0, 0, 1), RBML_INST(OP.CALL, 0, 0, 3),
     RBML_INST(OP.END, 0, 0, 0), RBML_INST(OP.CALL, 0, 0, 5),
     RBML_INST(OP.END, 0, 0, 0), RBML_INST(OP.CALL, 0, 0, 7),
     RBML_INST(OP.END, 0, 0, 0), RBML_INST(OP.END, 0, 0, 0) >>

StoresPastMemory ==
  << RBML_INST(OP.CRDR, 0, 1, 0), RBML_INST(OP.STO, 1, 0, 14),
     RBML_INST(OP.CRDM, 0, 0, 13), RBML_INST(OP.WRIT, 1, 1, 0),
     RBML_INST(OP.BRAN, 0, 0, 2) >>

\* END with a jump register that was loaded, typed, or is the lowest word.
EndsAnywhere(w) ==
  << RBML_INST(OP.LOD + 2, 0, 0, 4), RBML_INST(OP.END, 0, 0, 0),
     RBML_INST(OP.CRDJ, 1, 0, 0), RBML_INST(OP.END, 0, 0, 0), w >>

\* A store over the program's own words, and then zeros.
FallsThrough(a) ==
  << RBML_INST(OP.LOD, 0, 0, 1), RBML_INST(OP.STO, 0, 0, a) >>

TooLong == [i \in 1..16 |-> IF i < 12 THEN RBML_INST(OP.CMP, 0, 0, 0)
                                     ELSE RBML_INST(OP.BRAN, 0, 0, 0)]

MCGarbage == {-7, 6}

MCProgramFiles ==
  \* Address 14 is past the 12 words of main memory.
  { File(Program(op, x, y, a)) : op \in Tried, x \in Operands, y \in Operands, a \in {10, 14} }
    \cup { File(t) : t \in {<<>>, OpensForEver, ReopensAndClosesTwice, Recurses,
                     Nests, StoresPastMemory, TooLong}
                \cup {EndsAnywhere(w) : w \in {RBML_WORD_MIN, -2, -1, 1, 7, RBML_WORD_MAX}}
                \cup {FallsThrough(a) : a \in {0, 1, 5, 13}} }
    \cup { [text |-> <<>>, oddBytes |-> 3, readable |-> TRUE],
           [text |-> <<>>, oddBytes |-> 0, readable |-> FALSE] }
=============================================================================
