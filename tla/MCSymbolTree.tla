---------------------------- MODULE MCSymbolTree ----------------------------
(***************************************************************************)
(* Names are looked up, and added, in every order.                         *)
(***************************************************************************)
EXTENDS SymbolTree

MCKeys == 1..8
=============================================================================
