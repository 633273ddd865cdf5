---------------------------- MODULE RbmlGrammar ----------------------------
(***************************************************************************)
(* The language that rbml_parser_mpc.c hands to mpca_lang (lines 40-117).  *)
(* A mnemonic is one character here, one that may stand in a name as its   *)
(* letters may: what distinguishes a text is where mnemonics, names,       *)
(* numbers and blanks meet, and the program does not ask for a blank       *)
(* between any of them.                                                    *)
(***************************************************************************)
EXTENDS MpcGrammar

CONSTANTS
  NameStart,   \* [_a-zA-Z], mnemonics among them
  HexLetters   \* [a-fA-F]

Digits == {"0", "1", "2", "3", "4", "5", "6", "7", "8", "9"}
HexDigits == Digits \cup HexLetters

strings(xs) == one_of([k \in DOMAIN xs |-> grammar_string(xs[k])])
id(name) == grammar_id(name)
regex(xs) == grammar_regex(re_and(xs))
sign == re_repeat(re_class({"+", "-"}), "?", 0)
many1(set) == re_repeat(re_class(set), "+", 0)

Rules ==
  [ line |-> grammar_and(<<regex(<<re_caret>>), grammar_repeat(id("label"), "?", 0),
                           grammar_repeat(id("instruction"), "?", 0), regex(<<re_dollar>>)>>),
    label |-> grammar_and(<<id("ident"), grammar_char(":")>>),
    instruction |-> grammar_and(<<one_of(<<id("word"), id("inst0"), id("inst1a"), id("inst1r"),
                                           id("inst2rr"), id("inst2ra")>>)>>),
    word |-> grammar_and(<<grammar_string("WORD"), id("number")>>),
    inst0 |-> grammar_and(<<strings(<<"END", "HALT", "HERR">>)>>),
    inst1a |-> grammar_and(<<strings(<<"BRAN", "BRGT", "BRLT", "BREQ", "BRGE", "BRLE", "BRER",
                                       "BROF", "BRIO", "BRDZ", "CALL", "CAGT", "CALT", "CAEQ",
                                       "CAGE", "CALE", "CAER", "CAOF", "CAIO", "CADZ">>),
                             id("ident")>>),
    inst1r |-> grammar_and(<<strings(<<"COMP">>), id("reg")>>),
    inst2rr |-> grammar_and(<<strings(<<"ADD", "SUB", "DIV", "MULT", "MOD", "MOV", "CJNT",
                                        "DJNT", "LSFT", "RSFT", "CMP">>),
                              id("reg"), grammar_char(","), id("reg")>>),
    inst2ra |-> grammar_and(<<strings(<<"STO", "LOD">>),
                              id("reg"), grammar_char(","), id("ident")>>),
    reg |-> grammar_and(<<regex(<<re_class({"r", "R"}), many1(Digits)>>)>>),
    disk |-> grammar_and(<<regex(<<re_class({"d", "D"}), many1(Digits)>>)>>),
    ident |-> grammar_and(<<regex(<<re_class(NameStart),
                                    re_repeat(re_class(NameStart \cup Digits), "*", 0)>>)>>),
    number |-> grammar_and(<<one_of(<<id("hex"), id("dec")>>)>>),
    hex |-> grammar_and(<<regex(<<sign, Char("0"), Char("x"), many1(HexDigits)>>)>>),
    dec |-> grammar_and(<<regex(<<sign, many1(Digits)>>)>>) ]

-----------------------------------------------------------------------------
(* The order of things in the file.                                        *)

RuleOrder ==
  << "line", "label", "instruction", "word", "inst0", "inst1a", "inst1r", "inst2rr",
     "inst2ra", "reg", "disk", "ident", "number", "hex", "dec" >>

\* The parsers given to mpca_lang are those, in that order.
LanguageParsers == RuleOrder

\* One that is made, and deleted, but not given.
MadeParsers == <<"program">> \o RuleOrder

\* parser_destroy deletes them in the order they were made, each in a call.
Destroyed == [k \in DOMAIN MadeParsers |-> <<MadeParsers[k]>>]
=============================================================================
