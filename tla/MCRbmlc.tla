------------------------------ MODULE MCRbmlc ------------------------------
(***************************************************************************)
(* A dozen source files: empty, shorter and longer than the buffer of the  *)
(* output, with labels before and after their references, and with each    *)
(* kind of error.                                                          *)
(***************************************************************************)
EXTENDS Rbmlc

NL == Token("NL", 0)
Halt == Token("INST0", 255)
Bran(name) == <<Token("INST1A", 48), Token("IDENT", name)>>
LabelAs(name) == <<Token("IDENT", name), Token("COLON", 0)>>

MCSources ==
  { <<>>, <<Halt>>, <<Halt, NL, Halt, NL, Halt, NL>>,
    LabelAs("a") \o <<Halt, NL>> \o Bran("a"),
    Bran("a") \o <<NL>> \o LabelAs("a") \o <<Halt>>,
    LabelAs("a") \o <<NL>> \o LabelAs("b") \o Bran("b") \o <<NL>> \o Bran("a"),
    Bran("a"), LabelAs("a") \o <<NL>> \o LabelAs("a") \o <<NL, Halt>>,
    <<Halt, Halt, NL, Halt>>, <<Token("BAD", 0), Halt>>,
    <<Token("INST1R", 22), NL, Token("REG", 1), NL, Halt>> }

MCOldOutput == {<<-1>>}
=============================================================================
