------------------------------ MODULE MpcNames ------------------------------
(***************************************************************************)
(* Parsers that refer to each other by name.  A program makes them with    *)
(* mpc_new (mpc.c:1323-1329) and says later, with mpc_define (mpc.c:1337-  *)
(* 1351), what they are; one that is never defined fails whatever the      *)
(* input (mpc.c:997).                                                      *)
(***************************************************************************)
EXTENDS MpcTerms

CONSTANT Grammar   \* named parsers: a function from names to parsers

\* A name is the parser it was defined as, or one that never was.
Resolve(p) == IF p.type # "NAME" THEN p
              ELSE IF p.m \in DOMAIN Grammar THEN Grammar[p.m] ELSE Undefined
=============================================================================
