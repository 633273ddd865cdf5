------------------------------ MODULE MpcLang ------------------------------
(***************************************************************************)
(* The life of the parsers of a language: mpca_lang finds the parsers its  *)
(* rules refer to in a variable argument list (mpc.c:2887-2947) and        *)
(* defines them (mpc.c:3050-3101); mpc_cleanup takes them apart again      *)
(* (mpc.c:1226-1365).  A body is what the right side of one rule became:   *)
(* parsers of its own, freed with it, and retained ones it refers to.      *)
(***************************************************************************)
EXTENDS Integers, Sequences, FiniteSets, FiniteSetsExt, SequencesExt

CONSTANT Uses
  \* A use of the library: [made, given, rules, cleanups], where made is the set of
  \* the parsers made with mpc_new, given the arguments of mpca_lang but the NULL
  \* at their end, rules a sequence of [left, refs], and cleanups the arguments of
  \* each call of mpc_cleanup.  A reference is [name, number], by its name or,
  \* with a name of "", by its number.

\* What stands for a parser that fails and for pointers to none.
Reserved == {"FAIL", "NULL", "WILD"}

\* A program gives mpca_lang parsers that it has made.
WellMade(u) ==
  /\ u.made \cap Reserved = {}
  /\ u.given \in Seq(u.made)
  /\ u.rules \in Seq(Range(u.rules))
  /\ \A k \in DOMAIN u.rules :
       /\ u.rules[k].left \notin Reserved
       /\ u.rules[k].refs \in Seq([name : STRING \ Reserved, number : Nat])

\* It gives mpc_cleanup each of them, once.
CleanedOnce(u) ==
  /\ u.cleanups \in Seq(Seq(u.made))
  /\ \A p \in u.made : \E c \in DOMAIN u.cleanups : p \in Range(u.cleanups[c])
  /\ \A c, d \in DOMAIN u.cleanups :
       \A i \in DOMAIN u.cleanups[c], j \in DOMAIN u.cleanups[d] :
         u.cleanups[c][i] = u.cleanups[d][j] => c = d /\ i = j

\* None is cleaned up in a later call than one that its rules refer to.
CleanedFirst(u) ==
  \A k \in DOMAIN u.rules : \A j \in DOMAIN u.rules[k].refs :
    \A c, d \in DOMAIN u.cleanups :
      /\ u.rules[k].left \in Range(u.cleanups[c])
      /\ u.rules[k].refs[j].name \in Range(u.cleanups[d])
      => c <= d

\* As rbml_parser_mpc.c does (46-62, 81-96, 107-127).
ASSUME UsesAssumption == \A u \in Uses : WellMade(u) /\ CleanedOnce(u) /\ CleanedFirst(u)

VARIABLES
  use,
  pulled,     \* st->parsers: the arguments looked at so far
  bodies,     \* what the references of each rule were resolved to
  roots,      \* rules whose body has its first parser still
  inner,      \* rules whose body has the others still
  body,       \* the rule each parser was defined by, 0 for none
  retained,   \* the parsers that are not freed
  stage,
  at          \* how far the stage has got

heap == <<bodies, roots, inner, body, retained>>
lvars == <<use, pulled, heap, stage, at>>

Init ==
  /\ use \in Uses
  /\ pulled = <<>>
  /\ bodies = [k \in DOMAIN use.rules |-> <<>>]
  /\ roots = {} /\ inner = {}
  /\ body = [p \in use.made |-> 0]
  /\ retained = use.made
  /\ stage = "reading" /\ at = <<1, 1>>

-----------------------------------------------------------------------------
(* mpca_grammar_find_parser.                                               *)

\* The n-th argument; there is none after the NULL, and va_arg gives anything.
Argument(n) == CASE n <= Len(use.given) -> use.given[n]
                 [] n = Len(use.given) + 1 -> "NULL"
                 [] OTHER -> "WILD"

\* Pulling arguments up to the n-th, unless they are there already.
PulledTo(n) == pulled \o [k \in 1..(n - Len(pulled)) |-> Argument(Len(pulled) + k)]

Found(list, parser) == [pulled |-> list, parser |-> parser]

\* Slip: only the arguments not pulled before are searched.
FindNew(name) ==
  LET n == Min({k \in (Len(pulled) + 1)..(Len(pulled) + Len(use.given) + 1) :
                  Argument(k) \in {name, "NULL", "WILD"}})
  IN  Found(PulledTo(n), IF Argument(n) = name THEN name ELSE "FAIL")

\* The arguments pulled before are searched, and then new ones, each up to a parser
\* of that name or a NULL, for which a parser that fails is returned.
FindByName(name) ==
  LET seen == {k \in DOMAIN pulled : pulled[k] \in {name, "NULL"}}
      new == {k \in (Len(pulled) + 1)..(Len(use.given) + 1) : Argument(k) \in {name, "NULL"}}
      list == IF seen # {} THEN pulled ELSE PulledTo(Min(new))
      n == IF seen # {} THEN Min(seen) ELSE Min(new)
  IN  Found(list, IF list[n] = name THEN name ELSE "FAIL")

\* Arguments are pulled up to the one of that number, or a NULL.  What is returned
\* is the last one that was ever pulled.
FindByNumber(i) ==
  LET n == Min({k \in (Len(pulled) + 1)..i : Argument(k) = "NULL"} \cup {i + 1})
      list == PulledTo(n)
  IN  Found(list, IF n > Len(pulled) /\ Argument(n) = "NULL" THEN "FAIL" ELSE Last(list))

Find(ref) == IF ref.name = "" THEN FindByNumber(ref.number) ELSE FindByName(ref.name)

\* The caller reads the parser's name, or whether it is retained.
Readable(found) == found.parser \notin {"NULL", "WILD"}

-----------------------------------------------------------------------------
(* Reading the rules, and then defining their left sides.                  *)

Rule == use.rules[at[1]]
NextRule == at' = <<at[1] + 1, 1>>

FindReference ==
  /\ stage = "reading" /\ at[1] <= Len(use.rules)
  /\ at[2] <= Len(Rule.refs)
  /\ LET found == Find(Rule.refs[at[2]])
     IN  /\ pulled' = found.pulled
         /\ IF Readable(found) THEN /\ bodies' = [bodies EXCEPT ![at[1]] = Append(@, found.parser)]
                                    /\ UNCHANGED stage
            ELSE stage' = "crashed" /\ UNCHANGED bodies
  /\ at' = <<at[1], at[2] + 1>>
  /\ UNCHANGED <<use, roots, inner, body, retained>>

RuleRead ==
  /\ stage = "reading" /\ at[1] <= Len(use.rules)
  /\ at[2] > Len(Rule.refs)
  /\ roots' = roots \cup {at[1]} /\ inner' = inner \cup {at[1]}
  /\ NextRule
  /\ UNCHANGED <<use, pulled, bodies, body, retained, stage>>

LastRuleRead ==
  /\ stage = "reading" /\ at[1] > Len(use.rules)
  /\ stage' = "defining" /\ at' = <<1, 1>>
  /\ UNCHANGED <<use, pulled, heap>>

\* Slip: the contents are copied, and what they were copied from is left.
DefineKeepsRoot(k, left) ==
  /\ body' = IF left \in retained THEN [body EXCEPT ![left] = k] ELSE body
  /\ UNCHANGED roots

\* mpc_define: a parser that fails, not being retained, does not become the body's.
Define(k, left) ==
  /\ body' = IF left \in retained THEN [body EXCEPT ![left] = k] ELSE body
  /\ roots' = roots \ {k}

DefineLeft ==
  /\ stage = "defining" /\ at[1] <= Len(use.rules)
  /\ LET found == FindByName(Rule.left)
     IN  /\ pulled' = found.pulled
         /\ Define(at[1], found.parser)
  /\ NextRule
  /\ UNCHANGED <<use, bodies, inner, retained, stage>>

AllDefined ==
  /\ stage = "defining" /\ at[1] > Len(use.rules)
  /\ stage' = "cleaning" /\ at' = <<1, 1>>
  /\ UNCHANGED <<use, pulled, heap>>

-----------------------------------------------------------------------------
(* mpc_cleanup.                                                            *)

Call == use.cleanups[at[1]]
Cleaning == stage = "cleaning" /\ at[1] <= Len(use.cleanups)

\* Taking a parser apart looks at those its body refers to.
Touches(p) == IF body[p] = 0 THEN {} ELSE Range(bodies[body[p]]) \ {"FAIL"}

Undefine(p) ==
  IF ({p} \cup Touches(p)) \subseteq retained
  THEN /\ inner' = inner \ {body[p]}
       /\ body' = [body EXCEPT ![p] = 0]
       /\ UNCHANGED stage
  ELSE stage' = "crashed" /\ UNCHANGED <<inner, body>>

\* Slip: each parser is deleted as soon as it is undefined.
UndefineAndDelete ==
  /\ Cleaning /\ at[2] <= Len(Call)
  /\ Undefine(Call[at[2]])
  /\ retained' = retained \ {Call[at[2]]}
  /\ at' = <<at[1], at[2] + 1>>
  /\ UNCHANGED <<use, pulled, bodies, roots>>

UndefineOne ==
  /\ Cleaning /\ at[2] <= Len(Call)
  /\ Undefine(Call[at[2]])
  /\ at' = <<at[1], at[2] + 1>>
  /\ UNCHANGED <<use, pulled, bodies, roots, retained>>

\* They are all undefined by now: what they referred to is not looked at again.
DeleteAll ==
  /\ Cleaning /\ at[2] > Len(Call)
  /\ retained' = retained \ Range(Call)
  /\ NextRule
  /\ UNCHANGED <<use, pulled, bodies, roots, inner, body, stage>>

AllCleaned ==
  /\ stage = "cleaning" /\ at[1] > Len(use.cleanups)
  /\ stage' = "done"
  /\ UNCHANGED <<use, pulled, heap, at>>

Over == stage \in {"done", "crashed"} /\ UNCHANGED lvars

Next ==
  \/ FindReference \/ RuleRead \/ LastRuleRead \/ DefineLeft \/ AllDefined
  \/ UndefineOne \/ DeleteAll \/ AllCleaned
  \/ Over

Spec == Init /\ [][Next]_lvars

-----------------------------------------------------------------------------
(* Properties.                                                             *)

FromNames ==
  \A k \in DOMAIN use.rules : \A j \in DOMAIN use.rules[k].refs : use.rules[k].refs[j].name # ""

\* "Any parsers specified on the left hand side of any rule will be assigned a
\* parser equivalent to what is specified on the right" (mpc/README.md:760): with
\* references by name in any order, to rules before and after, each ends up with
\* the parser of its name and each left side with its last body, whichever
\* argument was searched for first; a name that was not given becomes a parser
\* that fails (mpc.c:2887-2932).
ResolvesByName ==
  stage = "cleaning" /\ at = <<1, 1>> /\ FromNames =>
    /\ \A k \in DOMAIN use.rules :
         bodies[k] = [j \in DOMAIN use.rules[k].refs |->
                        LET name == use.rules[k].refs[j].name
                        IN  IF name \in Range(use.given) THEN name ELSE "FAIL"]
    /\ \A p \in use.made :
         body[p] = Max({0} \cup {k \in DOMAIN use.rules :
                                   use.rules[k].left = p /\ p \in Range(use.given)})

\* No parser is looked at after it was freed, neither when all are cleaned up in
\* one call, in any order, nor one by one with each before those it refers to, as
\* parser_destroy does (mpc.c:1251-1299, 1352-1365; rbml_parser_mpc.c:107-127).
\* Without references by number no argument past the NULL is looked at either.
ReadsNoFreedParser == stage = "crashed" => ~FromNames

\* Cleaning up leaves nothing of a language in which each left side is a parser
\* that was given, and no other rule's (mpc.c:1226-1365, 3072-3101).
FreesTheLanguage ==
  LET lefts == {use.rules[k].left : k \in DOMAIN use.rules}
  IN  stage = "done" /\ Cardinality(lefts) = Len(use.rules) /\ lefts \subseteq Range(use.given) =>
        roots = {} /\ inner = {} /\ retained = {}
=============================================================================
