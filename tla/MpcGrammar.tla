----------------------------- MODULE MpcGrammar -----------------------------
(***************************************************************************)
(* The grammar compiler of mpc.c: the parsers that the notation of         *)
(* mpca_lang stands for (mpc.c:2818-2947), those that a regular expression *)
(* stands for (mpc.c:1845-2007), and the syntax trees the former give      *)
(* (mpc.c:2505-2774).  The notation itself is taken as read: an operator   *)
(* of this module is what the compiler calls when it has read one form.    *)
(***************************************************************************)
EXTENDS MpcTerms, SequencesExt

-----------------------------------------------------------------------------
(* Syntax trees.  A tag "a|b|>" is the sequence of its parts; the contents *)
(* are a sequence of characters.                                           *)

Ast(tag, contents, at, children) ==
  [tag |-> tag, contents |-> contents, at |-> at, children |-> children]

NoAst == Ast(<<"NULL">>, <<>>, 0, <<>>)

add_root(a) ==
  IF Len(a.children) <= 1 THEN a ELSE Ast(<<">">>, <<>>, 0, <<a>>)

add_tag(a, t) == IF a = NoAst THEN a ELSE [a EXCEPT !.tag = <<t>> \o @]

state_ast(at, a) == IF a = NoAst THEN a ELSE [a EXCEPT !.at = at]

\* A node that has children is replaced by them.
Splice(a) == CASE a = NoAst -> <<>>
               [] a.children # <<>> -> a.children
               [] OTHER -> <<a>>

fold_ast(xs) ==
  CASE xs = <<>> -> NoAst
    [] Len(xs) = 1 -> xs[1]
    [] Len(xs) = 2 /\ xs[2] = NoAst -> xs[1]
    [] Len(xs) = 2 /\ xs[1] = NoAst -> xs[2]
    [] OTHER ->
         LET parts == FlattenSeq([k \in DOMAIN xs |-> Splice(xs[k])])
         IN  Ast(<<">">>, <<>>, IF parts = <<>> THEN 0 ELSE parts[1].at, parts)

-----------------------------------------------------------------------------
(* The functions that the parsers below are built with, given the value of *)
(* a parser.                                                               *)

RECURSIVE Text(_), Tree(_)

\* The characters of a string value.
Text(v) ==
  CASE v.tag = "fst" -> Text(v.xs[1])
    [] v.tag = "snd" -> Text(v.xs[2])
    [] v.tag = "strfold" -> FlattenSeq([k \in DOMAIN v.xs |-> Text(v.xs[k])])
    [] v.tag = "" -> <<>>
    [] OTHER -> <<v.tag>>

\* The tree of a grammar's value; a name that is a rule's adds its tag.
Tree(v) ==
  CASE v.tag = "NULL" -> NoAst
    [] v.tag = "fold_ast" -> fold_ast([k \in DOMAIN v.xs |-> Tree(v.xs[k])])
    [] v.tag = "state_ast" -> state_ast(v.xs[1].at, Tree(v.xs[2]))
    [] v.tag = "add_root" -> add_root(Tree(v.xs[1]))
    [] v.tag = "str_ast" -> Ast(<<>>, Text(v.xs[1]), 0, <<>>)
    [] v.tag \in {"string", "char", "regex"} -> [Tree(v.xs[1]) EXCEPT !.tag = <<v.tag>>]
    [] OTHER -> add_tag(Tree(v.xs[1]), v.tag)

-----------------------------------------------------------------------------
(* Regular expressions.                                                    *)

CONSTANT WhiteSpace   \* the characters of mpc_whitespace

Whitespaces ==
  Expect(Many("strfold", Expect(OneOf("ONEOF", WhiteSpace, "one of"), "whitespace")), "spaces")

Tok(a) == And("fst", <<a, Expect(Apply(Whitespaces, "free"), "whitespace")>>)

EmptyMatch(a) == And("snd", <<a, Lift("")>>)

re_class(set) == OneOf("ONEOF", set, "one of")
re_caret == EmptyMatch(Soi)
re_dollar == EmptyMatch(Eoi)
re_and(xs) == FoldLeft(LAMBDA p, x : And("strfold", <<p, x>>), Lift(""), xs)
re_or(x, y) == Or(<<x, y>>)

repeated(fold, x, op, n) ==
  CASE op = "*" -> Many(fold, x)
    [] op = "+" -> Many1(fold, x)
    [] op = "{}" -> Count(n, fold, x)

re_repeat(x, op, n) == IF op = "?" THEN MaybeLift(x, "") ELSE repeated("strfold", x, op, n)

-----------------------------------------------------------------------------
(* Grammars.                                                               *)

mpca_state(a) == And("state_ast", <<State, a>>)

literal(p, kind) == mpca_state(ApplyTo(Apply(Tok(p), "str_ast"), kind))

grammar_string(s) == literal(String(<<s>>, s), "string")
grammar_char(c) == literal(Char(c), "char")
grammar_regex(re) == literal(re, "regex")

grammar_id(name) == mpca_state(Apply(ApplyTo(Named(name), name), "add_root"))

grammar_and(xs) == FoldLeft(LAMBDA p, x : And("fold_ast", <<p, x>>), Pass, xs)
grammar_or(x, y) == Or(<<x, y>>)
grammar_repeat(x, op, n) ==
  CASE op = "?" -> Maybe(x)
    [] op = "!" -> Not(x)
    [] OTHER -> repeated("fold_ast", x, op, n)

\* Alternatives are read from the left and nest to the right.
one_of(xs) ==
  LET terms == [k \in DOMAIN xs |-> grammar_and(<<xs[k]>>)]
  IN  FoldLeft(LAMBDA rest, x : grammar_or(x, rest), Last(terms), Reverse(Front(terms)))

-----------------------------------------------------------------------------

RECURSIVE NamesIn(_)

\* The names a parser refers to, in the order they are read.
NamesIn(p) ==
  IF p.type = "NAME" THEN <<p.m>>
  ELSE FlattenSeq([k \in DOMAIN p.xs |-> NamesIn(p.xs[k])])
=============================================================================
