------------------------------ MODULE MCCalls ------------------------------
(***************************************************************************)
(* Every program of five words over unconditional and conditional calls,   *)
(* END and, as the first word, a branch or an instruction that writes the  *)
(* jump register; and one program that nests three calls, the outermost    *)
(* at address zero.                                                        *)
(***************************************************************************)
EXTENDS RBMLCalls

Code == {RBML_INST(OP.CALL, 0, 0, a) : a \in 0..4}
          \cup {RBML_INST(OP.END, 0, 0, 0), RBML_INST(OP.CALL + 1, 0, 0, 2)}

Jumps == {RBML_INST(OP.BRAN, 0, 0, a) : a \in {1, 3}}
          \cup {RBML_INST(OP.LOD + 2, 0, 0, 3), RBML_INST(OP.MOV + 2, 1, 0, 0)}

\* 0 calls 3, which calls 5, which calls 7; every one of them ends, and 1 halts.
FromZero ==
  << RBML_INST(OP.CALL, 0, 0, 3), RBML_INST(OP.HALT, 0, 0, 0), RBML_INST(OP.HERR, 0, 0, 0),
     RBML_INST(OP.CALL, 0, 0, 5), RBML_INST(OP.END, 0, 0, 0),
     RBML_INST(OP.CALL, 0, 0, 7), RBML_INST(OP.END, 0, 0, 0), RBML_INST(OP.END, 0, 0, 0) >>

MCProgramFiles ==
  { [text |-> t, oddBytes |-> 0, readable |-> TRUE] :
      t \in {<<first>> \o rest : first \in Code \cup Jumps, rest \in [1..4 -> Code]}
              \cup {FromZero} }
=============================================================================
