------------------------------ MODULE RbmlLine ------------------------------
(***************************************************************************)
(* One line of the assembly language that rbml_parser_mpc.c reads: what    *)
(* mpc_parse makes of it, and what it means.                               *)
(***************************************************************************)
EXTENDS RbmlGrammar

\* mpc_parse, by what MpcParse is shown to implement.
Language == INSTANCE MpcPeg WITH Grammar <- Rules

Parsed(r) == [ok |-> r.ok, children |-> IF r.ok THEN Tree(r.val).children ELSE <<>>]

\* Slip: the language is compiled with MPCA_LANG_PREDICTIVE.
ParsePredictively(l) == Parsed(Language!Peg(Named("line"), l, 0, FALSE))

Parse(l) == Parsed(Language!Peg(Named("line"), l, 0, TRUE))

-----------------------------------------------------------------------------
(* The reference: the language as a context-free grammar, in which every   *)
(* alternative counts and a repetition may stop anywhere, and the label    *)
(* and the word of a line as its characters show them.                     *)

RECURSIVE Ends(_, _, _), FormEnds(_, _, _)

\* Where in cs a text may end that the grammar derives from a name or form and
\* that begins after one of these places.
Ends(form, cs, places) == IF places = {} THEN {} ELSE FormEnds(Language!Resolve(form), cs, places)

FormEnds(p, cs, places) ==
  CASE p.type \in {"ONEOF", "SINGLE"} ->
         {i + 1 : i \in {j \in places : j < Len(cs) /\ cs[j + 1] \in p.set}}
    [] p.type = "STRING" ->
         {i + Len(p.s) : i \in {j \in places : IsPrefix(p.s, SubSeq(cs, j + 1, Len(cs)))}}
    [] p.type = "ANCHOR" -> places \cap {IF p.m = "soi" THEN 0 ELSE Len(cs)}
    [] p.type \in {"PASS", "LIFT", "STATE"} -> places
    [] p.type \in {"EXPECT", "APPLY", "APPLY_TO"} -> Ends(p.xs[1], cs, places)
    [] p.type = "MAYBE" -> places \cup Ends(p.xs[1], cs, places)
    [] p.type = "MANY" ->
         places \cup Ends([p EXCEPT !.type = "MANY1"], cs, places)
    [] p.type = "MANY1" -> Ends([p EXCEPT !.type = "MANY"], cs, Ends(p.xs[1], cs, places))
    [] p.type = "OR" -> UNION {Ends(p.xs[k], cs, places) : k \in DOMAIN p.xs}
    [] p.type = "AND" -> FoldLeft(LAMBDA ends, x : Ends(x, cs, ends), places, p.xs)

Derives(l) == Len(l) \in Ends(Named("line"), l, {0})

Printed(cs) == SelectSeq(cs, LAMBDA c : c \notin WhiteSpace)
Split(cs) == {i \in DOMAIN cs : cs[i] = ":"}
NameOf(cs) == SubSeq(cs, 1, Min(Split(cs)) - 1)
Body(cs) == IF Split(cs) = {} THEN cs ELSE SubSeq(cs, Min(Split(cs)) + 1, Len(cs))

LineMeaning(l) ==
  LET cs == Printed(l)
      body == Body(cs)
  IN  [ label |-> IF Split(cs) = {} THEN <<>> ELSE <<NameOf(cs)>>,
        word |-> IF body # <<>> /\ Head(body) = "WORD" THEN <<Tail(body)>> ELSE <<>> ]
=============================================================================
