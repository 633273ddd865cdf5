----------------------------- MODULE MCMpcLang -----------------------------
(***************************************************************************)
(* The language of rbml_parser_mpc.c, given and destroyed as it is there,  *)
(* and every language of up to two rules over three parsers, of which two  *)
(* or three are given in either order, with up to two references in a      *)
(* rule, cleaned up in one call, or one by one with each parser before     *)
(* those it refers to.                                                     *)
(***************************************************************************)
EXTENDS MpcLang

\* The names and the references of the rules in their order.
Grammar == INSTANCE RbmlGrammar WITH WordChars <- {}, WhiteSpace <- {" "},
                                     NameStart <- {"a"}, HexLetters <- {"a"}

ByThatName(name) == [name |-> name, number |-> 0]
ByThatNumber(i) == [name |-> "", number |-> i]

Rbml ==
  [ made |-> Range(Grammar!MadeParsers), given |-> Grammar!LanguageParsers,
    rules |-> [k \in DOMAIN Grammar!RuleOrder |->
      LET name == Grammar!RuleOrder[k]
          names == Grammar!NamesIn(Grammar!Rules[name])
      IN  [left |-> name, refs |-> [j \in DOMAIN names |-> ByThatName(names[j])]]],
    cleanups |-> Grammar!Destroyed ]

Made == {"p", "q", "r"}
Refs == {ByThatName(n) : n \in Made} \cup {ByThatNumber(1)}
RefLists == {<<>>} \cup {<<a>> : a \in Refs} \cup {<<a, b>> : a, b \in Refs}
RuleLists ==
  UNION {[1..n -> [left : Made, refs : RefLists]] : n \in 0..2}

Orders == {<<"p", "q", "r">>, <<"r", "q", "p">>, <<"q", "p", "r">>}

\* In this order no parser that some rule refers to comes before the rule's own.
ParentsFirst(rules, order) ==
  \A k \in DOMAIN rules : \A j \in DOMAIN rules[k].refs :
    LET Place(name) == CHOOSE i \in DOMAIN order : order[i] = name
    IN  rules[k].refs[j].name # "" /\ Place(rules[k].left) <= Place(rules[k].refs[j].name)

MCUses ==
  {Rbml}
    \cup {[made |-> Made, given |-> given, rules |-> rules, cleanups |-> <<order>>] :
            given \in {<<"p", "q", "r">>, <<"q", "p">>, <<"r", "q", "p">>},
            rules \in RuleLists, order \in {<<"p", "q", "r">>, <<"r", "q", "p">>}}
    \cup UNION {{[made |-> Made, given |-> <<"p", "q", "r">>, rules |-> rules,
                  cleanups |-> [k \in 1..3 |-> <<order[k]>>]] :
                   order \in {o \in Orders : ParentsFirst(rules, o)}} : rules \in RuleLists}
=============================================================================
