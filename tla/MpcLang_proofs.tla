---------------------------- MODULE MpcLang_proofs ----------------------------
(***************************************************************************)
(* The parsers of a language, for any number of rules and references, any  *)
(* arguments and any clean-up that gives up no parser before those that    *)
(* refer to it: names are resolved, no parser is looked at after it was    *)
(* freed, and nothing is left.                                             *)
(***************************************************************************)
EXTENDS MpcLang, Recursion_proofs, SequenceTheorems, FiniteSetTheorems, TLAPS

R == Len(use.rules)
C == Len(use.cleanups)
G == Len(use.given)

\* What has been pulled are the arguments, in their order, up to the NULL.
Arguments(n) == [k \in 1..n |-> Argument(k)]
InArgumentOrder(list) == \E n \in 0..(G + 1) : list = Arguments(n)

\* What the references of a rule are to be resolved to, and its first n.
NameFound(name) == IF name \in Range(use.given) THEN name ELSE "FAIL"
FirstFound(k, n) == [j \in 1..n |-> NameFound(use.rules[k].refs[j].name)]

\* How many references of a rule have been looked up.
Looked(k) ==
  IF stage # "reading" \/ k < at[1] THEN Len(use.rules[k].refs)
  ELSE IF k = at[1] THEN at[2] - 1
  ELSE 0

\* The bodies hold what has been looked up so far.
BodiesFound ==
  FromNames => /\ bodies = [k \in 1..R |-> bodies[k]]
               /\ \A k \in 1..R : bodies[k] = FirstFound(k, Looked(k))

\* Rule k is one of p's.
Defines(k, p) == use.rules[k].left = p /\ p \in Range(use.given)

\* Each parser was defined by the last of its rules before the n-th.
DefinedTo(n) ==
  /\ body \in [use.made -> 0..(n - 1)]
  /\ \A p \in use.made : /\ body[p] # 0 => Defines(body[p], p)
                         /\ \A k \in 1..(n - 1) : Defines(k, p) => k <= body[p]

\* Each was defined by the last of its rules.
LastDefined == DefinedTo(R + 1)

\* While the rules are read, each that has been read has its body.
Reading ==
  /\ at[1] \in 1..(R + 1) /\ at[2] \in Nat \ {0}
  /\ at[1] <= R => at[2] <= Len(use.rules[at[1]].refs) + 1
  /\ roots = 1..(at[1] - 1) /\ inner = 1..(at[1] - 1)
  /\ body = [p \in use.made |-> 0] /\ retained = use.made

\* While left sides are defined, those done have lost the first parser of their
\* bodies.
Defining ==
  /\ at[1] \in 1..(R + 1) /\ at[2] = 1
  /\ roots = at[1]..R /\ inner = 1..R
  /\ DefinedTo(at[1]) /\ retained = use.made

\* A parser has been undefined, and deleted.
Undefined(p) ==
  \E c \in 1..C : \E i \in DOMAIN use.cleanups[c] :
    /\ use.cleanups[c][i] = p
    /\ c < at[1] \/ (c = at[1] /\ i < at[2])
Deleted(p) == \E c \in 1..C : c < at[1] /\ p \in Range(use.cleanups[c])

\* How far the cleaning up has got.
CleaningAt ==
  /\ at[1] \in 1..(C + 1) /\ at[2] \in Nat \ {0}
  /\ stage = "done" => at[1] = C + 1

\* A parser has no body but one of a rule of its own, and none when it has been
\* undefined.
BodiesBelong ==
  /\ body \in [use.made -> 0..R]
  /\ \A p \in use.made : /\ body[p] # 0 => Defines(body[p], p)
                         /\ Undefined(p) => body[p] = 0

\* A body that is left is its parser's, unless the parser has other rules.
Sole(k) == /\ Defines(k, use.rules[k].left)
           /\ \A l \in 1..R : use.rules[l].left = use.rules[k].left => l = k
InnerBelong == /\ inner \subseteq 1..R
               /\ \A k \in inner : Sole(k) => body[use.rules[k].left] = k

\* A parser is freed when it is deleted, not before.
KeptTillDeleted == retained = {p \in use.made : ~Deleted(p)}

\* While parsers are cleaned up.
CleaningUp ==
  /\ CleaningAt /\ BodiesBelong /\ InnerBelong /\ KeptTillDeleted
  /\ roots = {}
  /\ at = <<1, 1>> => LastDefined

\* The inductive invariant.
LangInv ==
  /\ use \in Uses
  /\ stage \in {"reading", "defining", "cleaning", "done", "crashed"}
  /\ at = <<at[1], at[2]>>
  /\ IF stage = "crashed" THEN ~FromNames
     ELSE InArgumentOrder(pulled) /\ BodiesFound
  /\ stage = "reading" => Reading
  /\ stage = "defining" => Defining
  /\ stage \in {"cleaning", "done"} => CleaningUp

-----------------------------------------------------------------------------
(* A use of the library.                                                   *)

\* What the assumption says of its sequences.
UseTyped ==
  /\ R \in Nat /\ DOMAIN use.rules = 1..R
  /\ C \in Nat /\ DOMAIN use.cleanups = 1..C
  /\ G \in Nat /\ DOMAIN use.given = 1..G
  /\ \A n \in 1..G : use.given[n] \in use.made
  /\ Range(use.given) \subseteq use.made
  /\ use.made \cap Reserved = {}
  /\ \A c \in 1..C : /\ Len(use.cleanups[c]) \in Nat
                     /\ DOMAIN use.cleanups[c] = 1..Len(use.cleanups[c])
                     /\ \A i \in 1..Len(use.cleanups[c]) : use.cleanups[c][i] \in use.made
  /\ \A k \in 1..R : /\ use.rules[k].left \notin Reserved
                     /\ Len(use.rules[k].refs) \in Nat
                     /\ DOMAIN use.rules[k].refs = 1..Len(use.rules[k].refs)
                     /\ \A j \in 1..Len(use.rules[k].refs) :
                          /\ use.rules[k].refs[j].name \notin Reserved
                          /\ use.rules[k].refs[j].number \in Nat

LEMMA UseTypes == ASSUME use \in Uses PROVE UseTyped
<1>1. WellMade(use) /\ CleanedOnce(use)
  BY UsesAssumption
<1>2. R \in Nat /\ DOMAIN use.rules = 1..R
  BY <1>1, LenProperties DEF WellMade, R
<1>3. C \in Nat /\ DOMAIN use.cleanups = 1..C
  BY <1>1, LenProperties DEF CleanedOnce, C
<1>4. G \in Nat /\ DOMAIN use.given = 1..G
  BY <1>1, LenProperties DEF WellMade, G
<1>5. \A n \in 1..G : use.given[n] \in use.made
  BY <1>1, ElementOfSeq DEF WellMade, G
<1>6. Range(use.given) \subseteq use.made
  BY <1>4, <1>5 DEF Range
<1>7. ASSUME NEW c \in 1..C
      PROVE  /\ Len(use.cleanups[c]) \in Nat
             /\ DOMAIN use.cleanups[c] = 1..Len(use.cleanups[c])
             /\ \A i \in 1..Len(use.cleanups[c]) : use.cleanups[c][i] \in use.made
  <2>1. use.cleanups[c] \in Seq(use.made)
    BY <1>1, ElementOfSeq DEF CleanedOnce, C
  <2> QED
    BY <2>1, LenProperties, ElementOfSeq
<1>8. ASSUME NEW k \in 1..R
      PROVE  /\ use.rules[k].left \notin Reserved
             /\ Len(use.rules[k].refs) \in Nat
             /\ DOMAIN use.rules[k].refs = 1..Len(use.rules[k].refs)
             /\ \A j \in 1..Len(use.rules[k].refs) :
                  /\ use.rules[k].refs[j].name \notin Reserved
                  /\ use.rules[k].refs[j].number \in Nat
  <2> DEFINE Ref == [name : STRING \ Reserved, number : Nat]
  <2>1. use.rules[k].left \notin Reserved /\ use.rules[k].refs \in Seq(Ref)
    BY <1>1, <1>2 DEF WellMade
  <2>2. /\ Len(use.rules[k].refs) \in Nat
        /\ DOMAIN use.rules[k].refs = 1..Len(use.rules[k].refs)
        /\ \A j \in 1..Len(use.rules[k].refs) : use.rules[k].refs[j] \in Ref
    BY <2>1, LenProperties, ElementOfSeq
  <2> QED
    BY <2>1, <2>2
<1>9. use.made \cap Reserved = {}
  BY <1>1 DEF WellMade
<1> QED
  BY <1>2, <1>3, <1>4, <1>5, <1>6, <1>7, <1>8, <1>9 DEF UseTyped

-----------------------------------------------------------------------------
(* Looking for parsers.                                                    *)

\* The least of a set of numbers.
LEMMA MinOf ==
  ASSUME NEW S, S \subseteq Nat, S # {}
  PROVE  Min(S) \in S /\ \A n \in S : Min(S) <= n
<1>1. \E m \in S : \A n \in S : m <= n
  BY LeastNatural
<1> QED
  BY <1>1 DEF Min

\* What the arguments are.
LEMMA ArgumentIs ==
  ASSUME use \in Uses
  PROVE  /\ \A n \in 1..G : Argument(n) = use.given[n] /\ Argument(n) \notin Reserved
         /\ Argument(G + 1) = "NULL"
         /\ \A n \in Nat : n > G + 1 => Argument(n) = "WILD"
         /\ \A n \in Nat \ {0} : Argument(n) \in use.made \cup Reserved
<1>1. /\ G \in Nat /\ use.made \cap Reserved = {}
      /\ \A n \in 1..G : use.given[n] \in use.made
  BY UseTypes DEF UseTyped
<1>2. ASSUME NEW n \in 1..G PROVE Argument(n) = use.given[n]
  BY <1>1, <1>2 DEF Argument, G
<1>3. Argument(G + 1) = "NULL"
  BY <1>1 DEF Argument, G
<1>4. ASSUME NEW n \in Nat, n > G + 1 PROVE Argument(n) = "WILD"
  BY <1>1, <1>4 DEF Argument, G
<1>5. ASSUME NEW n \in Nat \ {0} PROVE n \in 1..G \/ n = G + 1 \/ n > G + 1
  BY <1>1
<1> QED
  BY <1>1, <1>2, <1>3, <1>4, <1>5 DEF Reserved

\* A list of the first n arguments is one.
LEMMA ArgumentList ==
  ASSUME use \in Uses, NEW n \in Nat
  PROVE  /\ Arguments(n) \in Seq(use.made \cup Reserved) /\ Len(Arguments(n)) = n
         /\ DOMAIN Arguments(n) = 1..n
         /\ \A k \in 1..n : Arguments(n)[k] = Argument(k)
<1>1. Arguments(n) \in [1..n -> use.made \cup Reserved]
  BY ArgumentIs DEF Arguments
<1>2. Arguments(n) \in Seq(use.made \cup Reserved)
  BY <1>1, SeqDef
<1>3. DOMAIN Arguments(n) = 1..n /\ \A k \in 1..n : Arguments(n)[k] = Argument(k)
  BY DEF Arguments
<1>4. Len(Arguments(n)) = n
  BY <1>2, <1>3, LenProperties
<1> QED
  BY <1>2, <1>3, <1>4

\* Pulling more of them gives a longer list.
LEMMA PulledMore ==
  ASSUME use \in Uses, NEW m \in Nat, pulled = Arguments(m), NEW n \in Nat
  PROVE  PulledTo(n) = Arguments(IF n <= m THEN m ELSE n)
<1> DEFINE S == use.made \cup Reserved
           d == IF n <= m THEN 0 ELSE n - m
           more == [k \in 1..d |-> Argument(m + k)]
<1>1. /\ pulled \in Seq(S) /\ Len(pulled) = m
      /\ \A k \in 1..m : pulled[k] = Argument(k)
  BY ArgumentList
<1>2. d \in Nat /\ more \in Seq(S) /\ Len(more) = d
  <2>1. d \in Nat
    OBVIOUS
  <2>2. more \in [1..d -> S]
    BY <2>1, ArgumentIs
  <2>3. more \in Seq(S) /\ DOMAIN more = 1..d
    BY <2>1, <2>2, SeqDef
  <2> HIDE DEF more, d
  <2> QED
    BY <2>1, <2>3, LenProperties
<1>3. PulledTo(n) = pulled \o more
  <2>1. 1..(n - m) = 1..d
    OBVIOUS
  <2> QED
    BY <1>1, <2>1 DEF PulledTo
<1>4. \A k \in 1..d : more[k] = Argument(m + k)
  OBVIOUS
<1> HIDE DEF more, d
<1>5. /\ pulled \o more \in Seq(S) /\ Len(pulled \o more) = m + d
      /\ \A k \in 1..(m + d) : (pulled \o more)[k] = IF k <= m THEN pulled[k] ELSE more[k - m]
  <2>1. /\ pulled \o more \in Seq(S)
        /\ Len(pulled \o more) = Len(pulled) + Len(more)
        /\ \A k \in 1..(Len(pulled) + Len(more)) :
             (pulled \o more)[k] = IF k <= Len(pulled) THEN pulled[k] ELSE more[k - Len(pulled)]
    <3> HIDE DEF S
    <3> QED
      BY <1>1, <1>2, ConcatProperties
  <2> QED
    BY <1>1, <1>2, <2>1
<1>6. ASSUME NEW k \in 1..(m + d) PROVE (pulled \o more)[k] = Argument(k)
  <2>1. CASE k <= m
    BY <1>1, <1>5, <2>1
  <2>2. CASE ~(k <= m)
    <3>1. k - m \in 1..d /\ m + (k - m) = k
      BY <1>2, <2>2
    <3> QED
      BY <1>4, <1>5, <2>2, <3>1
  <2> QED
    BY <2>1, <2>2
<1>7. DOMAIN (pulled \o more) = 1..(m + d)
  BY <1>5, LenProperties
<1>8. pulled \o more = [k \in 1..(m + d) |-> (pulled \o more)[k]]
  <2>1. pulled \o more \in [1..(m + d) -> S]
    BY <1>5, LenProperties
  <2> QED
    BY <2>1
<1>9. pulled \o more = Arguments(m + d)
  BY <1>6, <1>8 DEF Arguments
<1>10. m + d = IF n <= m THEN m ELSE n
  BY DEF d
<1> QED
  BY <1>3, <1>9, <1>10

\* Searching for a name finds the argument of that name, or fails if there is
\* none, whichever arguments were pulled before (mpc.c:2910-2933).
LEMMA NameIsFound ==
  ASSUME use \in Uses, InArgumentOrder(pulled), NEW name, name \notin Reserved
  PROVE  /\ FindByName(name).parser = NameFound(name)
         /\ InArgumentOrder(FindByName(name).pulled)
<1> DEFINE seen == {k \in DOMAIN pulled : pulled[k] \in {name, "NULL"}}
           new == {k \in (Len(pulled) + 1)..(G + 1) : Argument(k) \in {name, "NULL"}}
           list == IF seen # {} THEN pulled ELSE PulledTo(Min(new))
           n == IF seen # {} THEN Min(seen) ELSE Min(new)
<1>1. PICK m \in 0..(G + 1) : pulled = Arguments(m)
  BY DEF InArgumentOrder
<1>2. /\ m \in Nat /\ Len(pulled) = m /\ DOMAIN pulled = 1..m
      /\ \A k \in 1..m : pulled[k] = Argument(k)
  BY <1>1, ArgumentList
<1>3. G \in Nat /\ m <= G + 1
  BY <1>1, UseTypes DEF UseTyped
<1>4. FindByName(name) = Found(list, IF list[n] = name THEN name ELSE "FAIL")
  BY DEF FindByName, G
<1>5. FindByName(name).pulled = list
      /\ FindByName(name).parser = IF list[n] = name THEN name ELSE "FAIL"
  BY <1>4 DEF Found
<1>6. name # "NULL" /\ name # "FAIL" /\ name # "WILD"
  BY DEF Reserved
<1> HIDE DEF seen, new, list, n
<1>7. /\ n \in 1..(G + 1) /\ Argument(n) \in {name, "NULL"}
      /\ \A k \in 1..(n - 1) : Argument(k) \notin {name, "NULL"}
      /\ list = Arguments(IF n <= m THEN m ELSE n)
  <2>1. CASE seen # {}
    <3>1. seen \subseteq Nat
      BY <1>2 DEF seen
    <3>2. n \in seen /\ \A k \in seen : n <= k
      BY <2>1, <3>1, MinOf DEF n
    <3>3. n \in 1..m /\ pulled[n] \in {name, "NULL"}
      BY <1>2, <3>2 DEF seen
    <3>4. ASSUME NEW k \in 1..(n - 1) PROVE Argument(k) \notin {name, "NULL"}
      <4>1. k \in 1..m /\ ~(n <= k)
        BY <1>2, <3>3
      <4>2. k \notin seen
        BY <3>2, <4>1
      <4> QED
        BY <1>2, <4>1, <4>2 DEF seen
    <3>5. list = Arguments(m) /\ n <= m
      BY <1>1, <2>1, <3>3 DEF list
    <3> QED
      BY <1>2, <1>3, <3>3, <3>4, <3>5
  <2>2. CASE seen = {}
    <3>1. new \subseteq Nat
      BY <1>2, <1>3 DEF new
    <3>2. ASSUME NEW k \in 1..m PROVE Argument(k) \notin {name, "NULL"}
      BY <1>2, <2>2 DEF seen
    <3>3. m # G + 1
      <4>1. Argument(G + 1) = "NULL"
        BY ArgumentIs
      <4>2. m = G + 1 => G + 1 \in 1..m
        BY <1>3
      <4> QED
        BY <3>2, <4>1, <4>2
    <3>4. new # {}
      <4>1. G + 1 \in (m + 1)..(G + 1)
        BY <1>2, <1>3, <3>3
      <4> QED
        BY <1>2, <4>1, ArgumentIs DEF new
    <3>5. n \in new /\ \A k \in new : n <= k
      BY <2>2, <3>1, <3>4, MinOf DEF n
    <3>6. n \in (m + 1)..(G + 1) /\ Argument(n) \in {name, "NULL"}
      BY <1>2, <3>5 DEF new
    <3>7. ASSUME NEW k \in 1..(n - 1) PROVE Argument(k) \notin {name, "NULL"}
      <4>1. CASE k <= m
        BY <3>2, <4>1
      <4>2. CASE ~(k <= m)
        <5>1. k \in (m + 1)..(G + 1) /\ ~(n <= k)
          BY <1>2, <1>3, <3>6, <4>2
        <5>2. k \notin new
          BY <3>5, <5>1
        <5> QED
          BY <1>2, <5>1, <5>2 DEF new
      <4> QED
        BY <4>1, <4>2
    <3>8. list = PulledTo(n) /\ n \in Nat
      BY <1>2, <1>3, <2>2, <3>6 DEF list, n
    <3>9. list = Arguments(IF n <= m THEN m ELSE n)
      BY <1>1, <1>2, <3>8, PulledMore
    <3> QED
      BY <1>2, <1>3, <3>6, <3>7, <3>9
  <2> QED
    BY <2>1, <2>2
<1> DEFINE l == IF n <= m THEN m ELSE n
<1>8. l \in 0..(G + 1) /\ l \in Nat /\ n \in 1..l
  BY <1>2, <1>3, <1>7
<1>9. list = Arguments(l) /\ list[n] = Argument(n)
  BY <1>7, <1>8, ArgumentList
<1>10. InArgumentOrder(list)
  BY <1>8, <1>9 DEF InArgumentOrder
<1>11. list[n] = name <=> name \in Range(use.given)
  <2>1. DOMAIN use.given = 1..G
    BY UseTypes DEF UseTyped
  <2>2. ASSUME Argument(n) = name PROVE name \in Range(use.given)
    <3>1. n # G + 1
      BY <1>6, <2>2, ArgumentIs
    <3>2. n \in 1..G
      BY <1>3, <1>7, <3>1
    <3>3. use.given[n] = name
      BY <2>2, <3>2, ArgumentIs
    <3> QED
      BY <2>1, <3>2, <3>3 DEF Range
  <2>3. ASSUME Argument(n) = "NULL", name \in Range(use.given) PROVE FALSE
    <3>1. PICK k \in 1..G : use.given[k] = name
      BY <2>1, <2>3 DEF Range
    <3>2. Argument(k) = name
      BY <3>1, ArgumentIs
    <3>3. n \notin 1..G
      <4>1. \A i \in 1..G : Argument(i) # "NULL"
        BY ArgumentIs DEF Reserved
      <4> QED
        BY <2>3, <4>1
    <3>4. k \in 1..(n - 1)
      BY <1>3, <1>7, <3>3
    <3> QED
      BY <1>7, <3>2, <3>4
  <2> QED
    BY <1>7, <1>9, <2>2, <2>3
<1> QED
  BY <1>5, <1>10, <1>11 DEF NameFound

\* Looking up a number that comes to a parser, or to one that fails, leaves the
\* arguments in their order (mpc.c:2893-2907).
LEMMA NumberIsFound ==
  ASSUME use \in Uses, InArgumentOrder(pulled), NEW i \in Nat, Readable(FindByNumber(i))
  PROVE  InArgumentOrder(FindByNumber(i).pulled)
<1> DEFINE S == {k \in (Len(pulled) + 1)..i : Argument(k) = "NULL"} \cup {i + 1}
           n == Min(S)
           list == PulledTo(n)
           failed == n > Len(pulled) /\ Argument(n) = "NULL"
<1>1. PICK m \in 0..(G + 1) : pulled = Arguments(m)
  BY DEF InArgumentOrder
<1>2. m \in Nat /\ Len(pulled) = m /\ G \in Nat /\ m <= G + 1
  BY <1>1, ArgumentList, UseTypes DEF UseTyped
<1>3. FindByNumber(i) = Found(list, IF failed THEN "FAIL" ELSE Last(list))
  BY DEF FindByNumber
<1>4. FindByNumber(i).pulled = list
      /\ FindByNumber(i).parser = IF failed THEN "FAIL" ELSE Last(list)
  BY <1>3 DEF Found
<1>5. n \in Nat
  <2>1. S \subseteq Nat /\ S # {}
    BY <1>2
  <2> HIDE DEF S
  <2> QED
    BY <2>1, MinOf
<1> HIDE DEF n
<1>6. list = Arguments(IF n <= m THEN m ELSE n)
  BY <1>1, <1>2, <1>5, PulledMore
<1> HIDE DEF list
<1>7. CASE n <= m
  BY <1>1, <1>4, <1>6, <1>7 DEF InArgumentOrder
<1>8. CASE ~(n <= m)
  <2>1. list = Arguments(n)
    BY <1>6, <1>8
  <2>2. /\ list \in Seq(use.made \cup Reserved) /\ Len(list) = n
        /\ \A k \in 1..n : list[k] = Argument(k)
    BY <1>5, <2>1, ArgumentList
  <2>3. n \in 1..n
    BY <1>2, <1>5, <1>8
  <2>4. n <= G + 1
    <3>1. CASE failed
      BY <1>2, <1>5, <3>1, ArgumentIs
    <3>2. CASE ~failed
      <4>1. Last(list) = Argument(n)
        BY <2>2, <2>3 DEF Last
      <4>2. Argument(n) # "WILD"
        BY <1>4, <3>2, <4>1 DEF Readable
      <4> QED
        BY <1>2, <1>5, <4>2, ArgumentIs
    <3> QED
      BY <3>1, <3>2
  <2> QED
    BY <1>2, <1>4, <1>5, <2>1, <2>4 DEF InArgumentOrder
<1> QED
  BY <1>2, <1>5, <1>7, <1>8

-----------------------------------------------------------------------------
(* What stays.                                                             *)

\* The use is given once and for all.
LEMMA SameUse ==
  ASSUME use' = use
  PROVE  /\ R' = R /\ C' = C /\ G' = G /\ (FromNames' <=> FromNames)
         /\ \A k, n : FirstFound(k, n)' = FirstFound(k, n)
         /\ \A k, q : Defines(k, q)' <=> Defines(k, q)
  BY DEF R, C, G, FromNames, FirstFound, NameFound, Defines

\* A list of arguments is one as long as the use is the same.
LEMMA ArgumentsStay ==
  ASSUME use' = use, NEW list, InArgumentOrder(list), pulled' = list
  PROVE  InArgumentOrder(pulled)'
<1>1. PICK n \in 0..(G + 1) : list = Arguments(n)
  BY DEF InArgumentOrder
<1>2. ASSUME NEW k PROVE Argument(k)' = Argument(k)
  BY Zenon DEF Argument
<1>3. Arguments(n)' = Arguments(n)
  BY <1>2 DEF Arguments
<1>4. G' = G
  BY DEF G
<1> QED
  BY <1>1, <1>3, <1>4 DEF InArgumentOrder

\* Bodies that are left alone hold what they did, if nothing was looked up.
LEMMA BodiesStay ==
  ASSUME use' = use, bodies' = bodies, BodiesFound,
         \A k \in 1..R : Looked(k)' = Looked(k)
  PROVE  BodiesFound'
<1>1. R' = R /\ (FromNames' <=> FromNames)
  BY SameUse
<1>2. \A k \in 1..R : FirstFound(k, Looked(k))' = FirstFound(k, Looked(k))
  BY DEF FirstFound, NameFound
<1> QED
  BY <1>1, <1>2 DEF BodiesFound

-----------------------------------------------------------------------------
(* Reading the rules.                                                      *)

\* One more reference makes one more parser.
LEMMA FirstFoundGrows ==
  ASSUME NEW k, NEW n \in Nat \ {0}
  PROVE  Append(FirstFound(k, n - 1), FirstFound(k, n)[n]) = FirstFound(k, n)
<1> DEFINE S == Range(FirstFound(k, n))
           s == FirstFound(k, n - 1)
           x == FirstFound(k, n)[n]
<1>1. /\ FirstFound(k, n) \in [1..n -> S] /\ s \in [1..(n - 1) -> S] /\ x \in S
      /\ \A j \in 1..(n - 1) : s[j] = FirstFound(k, n)[j]
  BY DEF FirstFound, Range
<1>2. s \in Seq(S) /\ Len(s) = n - 1
  <2>1. n - 1 \in Nat /\ s \in Seq(S) /\ DOMAIN s = 1..(n - 1)
    BY <1>1, SeqDef
  <2> HIDE DEF s, S
  <2> QED
    BY <2>1, LenProperties
<1> HIDE DEF s, x, S
<1>3. /\ Append(s, x) \in [1..n -> S]
      /\ \A j \in 1..(n - 1) : Append(s, x)[j] = s[j]
      /\ Append(s, x)[n] = x
  <2>1. /\ Append(s, x) \in Seq(S) /\ Len(Append(s, x)) = Len(s) + 1
        /\ \A j \in 1..Len(s) : Append(s, x)[j] = s[j]
        /\ Append(s, x)[Len(s) + 1] = x
    BY <1>1, <1>2, AppendProperties
  <2>2. Append(s, x) \in [1..Len(Append(s, x)) -> S]
    BY <2>1, LenProperties
  <2>3. Len(s) + 1 = n
    BY <1>2
  <2> QED
    BY <1>2, <2>1, <2>2, <2>3
<1>4. ASSUME NEW j \in 1..n PROVE Append(s, x)[j] = FirstFound(k, n)[j]
  <2>1. j = n \/ j \in 1..(n - 1)
    OBVIOUS
  <2> QED
    BY <1>1, <1>3, <2>1 DEF x
<1> QED
  BY <1>1, <1>3, <1>4 DEF s, x

\* Init has read nothing (mpc.c:3203-3224).
LEMMA InitKeeps == ASSUME Init PROVE LangInv
<1>1. use \in Uses /\ UseTyped
  BY UseTypes DEF Init
<1>2. /\ pulled = <<>> /\ stage = "reading" /\ at = <<1, 1>> /\ at[1] = 1 /\ at[2] = 1
      /\ bodies = [k \in DOMAIN use.rules |-> <<>>]
      /\ roots = {} /\ inner = {} /\ body = [q \in use.made |-> 0] /\ retained = use.made
  BY DEF Init
<1>3. R \in Nat /\ G \in Nat /\ DOMAIN use.rules = 1..R
  BY <1>1 DEF UseTyped
<1>4. InArgumentOrder(pulled)
  <2>1. Arguments(0) = <<>>
    BY DEF Arguments
  <2>2. 0 \in 0..(G + 1)
    BY <1>3
  <2> QED
    BY <1>2, <2>1, <2>2 DEF InArgumentOrder
<1>5. BodiesFound
  <2>1. ASSUME NEW k \in 1..R PROVE bodies[k] = FirstFound(k, Looked(k))
    <3>1. Looked(k) = 0
      BY <1>2 DEF Looked
    <3>2. FirstFound(k, 0) = <<>>
      BY DEF FirstFound
    <3> QED
      BY <1>2, <1>3, <3>1, <3>2
  <2> QED
    BY <1>2, <1>3, <2>1 DEF BodiesFound
<1>6. Reading
  <2>1. 1 \in 1..(R + 1) /\ 1..(1 - 1) = {}
    BY <1>3
  <2>2. ASSUME 1 <= R PROVE 1 <= Len(use.rules[1].refs) + 1
    <3>1. Len(use.rules[1].refs) \in Nat
      BY <1>1, <1>3, <2>2 DEF UseTyped
    <3> QED
      BY <3>1
  <2> QED
    BY <1>2, <2>1, <2>2 DEF Reading
<1> QED
  BY <1>1, <1>2, <1>4, <1>5, <1>6 DEF LangInv

\* A reference that is looked up adds its parser to the body (mpc.c:2937-2948).
LEMMA FindReferenceKeeps == ASSUME LangInv, FindReference PROVE LangInv'
<1> DEFINE a == at[1]
           b == at[2]
           ref == use.rules[a].refs[b]
           found == Find(ref)
<1>1. /\ use \in Uses /\ UseTyped /\ use' = use /\ stage = "reading"
      /\ InArgumentOrder(pulled) /\ BodiesFound /\ Reading
  BY UseTypes DEF LangInv, FindReference
<1>2. /\ a \in 1..R /\ b \in 1..Len(use.rules[a].refs) /\ R \in Nat
      /\ Len(use.rules[a].refs) \in Nat
  <2>1. a <= R /\ b <= Len(use.rules[a].refs)
    BY DEF FindReference, Rule, R
  <2>2. a \in 1..(R + 1) /\ b \in Nat \ {0} /\ R \in Nat
    BY <1>1 DEF Reading, UseTyped
  <2>3. a \in 1..R
    BY <2>1, <2>2
  <2>4. Len(use.rules[a].refs) \in Nat
    BY <1>1, <2>3 DEF UseTyped
  <2> QED
    BY <2>1, <2>2, <2>3, <2>4
<1>3. ref.name \notin Reserved /\ ref.number \in Nat
  BY <1>1, <1>2 DEF UseTyped
<1>4. FromNames => ref.name # ""
  BY <1>1, <1>2 DEF FromNames, UseTyped
<1>5. FromNames => found.parser = NameFound(ref.name) /\ Readable(found)
  <2>1. ASSUME FromNames PROVE found = FindByName(ref.name)
    BY <1>4, <2>1 DEF Find
  <2>2. ASSUME FromNames PROVE found.parser = NameFound(ref.name)
    BY <1>1, <1>3, <2>1, <2>2, NameIsFound
  <2>3. NameFound(ref.name) \notin {"NULL", "WILD"}
    BY <1>3 DEF NameFound, Reserved
  <2> QED
    BY <2>2, <2>3 DEF Readable
<1>6. Readable(found) => InArgumentOrder(found.pulled)
  <2>1. CASE ref.name = ""
    BY <1>1, <1>3, <2>1, NumberIsFound DEF Find
  <2>2. CASE ref.name # ""
    BY <1>1, <1>3, <2>2, NameIsFound DEF Find
  <2> QED
    BY <2>1, <2>2
<1>7. /\ pulled' = found.pulled /\ at' = <<a, b + 1>>
      /\ Readable(found) => bodies' = [bodies EXCEPT ![a] = Append(@, found.parser)]
                            /\ stage' = stage
      /\ ~Readable(found) => stage' = "crashed"
      /\ roots' = roots /\ inner' = inner /\ body' = body /\ retained' = retained
  BY DEF FindReference, Rule
<1> HIDE DEF found, ref
<1>8. at'[1] = a /\ at'[2] = b + 1 /\ at' = <<at'[1], at'[2]>>
  BY <1>7
<1>9. CASE ~Readable(found)
  BY <1>1, <1>5, <1>7, <1>8, <1>9, SameUse DEF LangInv
<1>10. CASE Readable(found)
  <2>1. InArgumentOrder(pulled)'
    BY <1>1, <1>6, <1>7, <1>10, ArgumentsStay
  <2>2. ASSUME FromNames, NEW k \in 1..R
        PROVE  bodies'[k] = FirstFound(k, Looked(k)')
    <3>1. /\ DOMAIN bodies = 1..R /\ bodies = [j \in 1..R |-> bodies[j]]
          /\ bodies[k] = FirstFound(k, Looked(k))
      BY <1>1, <2>2 DEF BodiesFound
    <3>2. CASE k # a
      <4>1. bodies'[k] = bodies[k]
        BY <1>7, <1>10, <3>1, <3>2
      <4>2. Looked(k)' = Looked(k)
        BY <1>1, <1>7, <1>8, <1>10, <3>2 DEF Looked
      <4> QED
        BY <3>1, <4>1, <4>2
    <3>3. CASE k = a
      <4>1. bodies'[a] = Append(bodies[a], found.parser)
        BY <1>2, <1>7, <1>10, <3>1
      <4>2. Looked(a) = b - 1
        BY <1>1, <1>2 DEF Looked
      <4>3. Looked(k)' = b
        BY <1>1, <1>2, <1>7, <1>8, <1>10, <3>3 DEF Looked
      <4>4. bodies[a] = FirstFound(a, b - 1) /\ found.parser = NameFound(ref.name)
        BY <1>5, <2>2, <3>1, <3>3, <4>2
      <4>5. Append(FirstFound(a, b - 1), NameFound(ref.name)) = FirstFound(a, b)
        <5>1. b \in Nat \ {0} /\ b - 1 \in Nat
          BY <1>2
        <5>2. FirstFound(a, b)[b] = NameFound(ref.name)
          BY <5>1 DEF FirstFound, ref
        <5> QED
          BY <5>1, <5>2, FirstFoundGrows
      <4>6. bodies'[k] = FirstFound(k, b)
        BY <3>3, <4>1, <4>4, <4>5, Zenon
      <4> QED
        BY <4>3, <4>6
    <3> QED
      BY <3>2, <3>3
  <2>3. BodiesFound'
    <3>1. ASSUME FromNames PROVE bodies' = [k \in 1..R |-> bodies'[k]]
      <4>1. bodies = [k \in 1..R |-> bodies[k]]
        BY <1>1, <3>1 DEF BodiesFound
      <4> QED
        BY <1>7, <1>10, <4>1
    <3>2. R' = R /\ (FromNames' <=> FromNames)
      BY <1>1, SameUse
    <3>3. \A k \in 1..R : FirstFound(k, Looked(k))' = FirstFound(k, Looked(k)')
      BY <1>1 DEF FirstFound, NameFound
    <3> QED
      BY <2>2, <3>1, <3>2, <3>3 DEF BodiesFound
  <2>4. Reading'
    <3>1. R' = R
      BY <1>1, SameUse
    <3>2. b + 1 \in Nat \ {0} /\ b + 1 <= Len(use.rules[a].refs) + 1
      <4> HIDE DEF a, b
      <4> QED
        BY <1>2
    <3> QED
      BY <1>1, <1>7, <1>8, <3>1, <3>2 DEF Reading
  <2> QED
    BY <1>1, <1>7, <1>8, <1>10, <2>1, <2>3, <2>4 DEF LangInv
<1> QED
  BY <1>9, <1>10

\* A rule that has been read has its body (mpc.c:3026-3042).
LEMMA RuleReadKeeps == ASSUME LangInv, RuleRead PROVE LangInv'
<1> DEFINE a == at[1]
<1>1. /\ use \in Uses /\ UseTyped /\ use' = use /\ stage = "reading" /\ stage' = "reading"
      /\ InArgumentOrder(pulled) /\ pulled' = pulled /\ BodiesFound /\ bodies' = bodies
      /\ Reading /\ body' = body /\ retained' = retained
      /\ roots' = roots \cup {a} /\ inner' = inner \cup {a} /\ at' = <<a + 1, 1>>
  BY UseTypes DEF LangInv, RuleRead, NextRule
<1>2. a \in 1..R /\ R \in Nat /\ Len(use.rules[a].refs) \in Nat
  <2>1. a <= R
    BY DEF RuleRead, R
  <2> QED
    BY <1>1, <2>1 DEF Reading, UseTyped
<1>3. at[2] = Len(use.rules[a].refs) + 1
  <2>1. at[2] > Len(use.rules[a].refs)
    BY DEF RuleRead, Rule
  <2>2. Reading /\ a <= R
    BY <1>1, <1>2
  <2>3. at[2] \in Nat \ {0} /\ at[2] <= Len(use.rules[a].refs) + 1
    BY <2>2 DEF Reading
  <2> QED
    BY <1>2, <2>1, <2>3, SMTT(30)
<1>4. at'[1] = a + 1 /\ at'[2] = 1 /\ at' = <<at'[1], at'[2]>>
  BY <1>1
<1>5. ASSUME NEW k \in 1..R PROVE Looked(k)' = Looked(k)
  BY <1>1, <1>2, <1>3, <1>4 DEF Looked
<1>6. InArgumentOrder(pulled)' /\ BodiesFound'
  BY <1>1, <1>5, ArgumentsStay, BodiesStay
<1>7. Reading'
  <2>1. a + 1 \in 1..(R + 1) /\ 1..(a + 1 - 1) = 1..(a - 1) \cup {a}
    BY <1>2
  <2>2. ASSUME a + 1 <= R PROVE 1 <= Len(use.rules[a + 1].refs) + 1
    <3>0. a + 1 \in 1..R
      BY <1>2, <2>2
    <3>1. Len(use.rules[a + 1].refs) \in Nat
      BY <1>1, <3>0, Zenon DEF UseTyped
    <3> QED
      BY <3>1, SMTT(30)
  <2>3. R' = R
    BY <1>1, SameUse
  <2>4. roots = 1..(a - 1) /\ inner = 1..(a - 1) /\ body = [q \in use.made |-> 0]
        /\ retained = use.made
    BY <1>1 DEF Reading
  <2>5. roots' = 1..(at'[1] - 1) /\ inner' = 1..(at'[1] - 1)
    <3>1. roots' = 1..(a + 1 - 1) /\ inner' = 1..(a + 1 - 1)
      BY <1>1, <2>1, <2>4
    <3>2. at'[1] - 1 = a + 1 - 1
      BY <1>2, <1>4
    <3> QED
      BY <3>1, <3>2, Zenon
  <2>6. at'[1] <= R' => at'[2] <= Len(use'.rules[at'[1]].refs) + 1
    BY <1>1, <1>4, <2>2, <2>3
  <2> QED
    BY <1>1, <1>4, <2>1, <2>3, <2>4, <2>5, <2>6 DEF Reading
<1> QED
  BY <1>1, <1>4, <1>6, <1>7 DEF LangInv

\* When all rules have been read all bodies are whole (mpc.c:3044-3055).
LEMMA LastRuleReadKeeps == ASSUME LangInv, LastRuleRead PROVE LangInv'
<1>1. /\ use \in Uses /\ UseTyped /\ use' = use /\ stage = "reading" /\ stage' = "defining"
      /\ InArgumentOrder(pulled) /\ pulled' = pulled /\ BodiesFound /\ bodies' = bodies
      /\ Reading /\ body' = body /\ retained' = retained
      /\ roots' = roots /\ inner' = inner /\ at' = <<1, 1>>
  BY UseTypes DEF LangInv, LastRuleRead, heap
<1>2. at[1] = R + 1 /\ R \in Nat
  <2>1. at[1] > R
    BY DEF LastRuleRead, R
  <2> QED
    BY <1>1, <2>1 DEF Reading, UseTyped
<1>3. at'[1] = 1 /\ at'[2] = 1 /\ at' = <<at'[1], at'[2]>>
  BY <1>1
<1>4. ASSUME NEW k \in 1..R PROVE Looked(k)' = Looked(k)
  BY <1>1, <1>2 DEF Looked
<1>5. InArgumentOrder(pulled)' /\ BodiesFound'
  BY <1>1, <1>4, ArgumentsStay, BodiesStay
<1>6. R' = R /\ \A k, q : Defines(k, q)' <=> Defines(k, q)
  BY <1>1, SameUse
<1>7. Defining'
  <2>1. 1 \in 1..(R + 1) /\ 1..(1 - 1) = {} /\ 0 \in 0..(1 - 1) /\ 1..(R + 1 - 1) = 1..R
    BY <1>2
  <2>2. roots' = 1..R /\ inner' = 1..R
    BY <1>1, <1>2, <2>1 DEF Reading
  <2>3. body' = [q \in use.made |-> 0]
    BY <1>1 DEF Reading
  <2>4. /\ body' \in [use'.made -> 0..(at'[1] - 1)]
        /\ \A q \in use'.made : /\ body'[q] = 0
                              /\ \A k \in 1..(at'[1] - 1) : FALSE
    BY <1>1, <1>3, <2>1, <2>3
  <2>5. DefinedTo(at[1])'
    BY <2>4 DEF DefinedTo
  <2>6. retained' = use'.made
    BY <1>1 DEF Reading
  <2> QED
    BY <1>3, <1>6, <2>1, <2>2, <2>5, <2>6 DEF Defining
<1> QED
  BY <1>1, <1>3, <1>5, <1>7 DEF LangInv

-----------------------------------------------------------------------------
(* Defining the left sides.                                                *)

\* A left side that is found is given its body; what the body was copied from is
\* gone either way (mpc.c:1337-1351, 3080-3090).
LEMMA DefineLeftKeeps == ASSUME LangInv, DefineLeft PROVE LangInv'
<1> DEFINE a == at[1]
           left == use.rules[a].left
           found == FindByName(left)
<1>1. /\ use \in Uses /\ UseTyped /\ use' = use /\ stage = "defining" /\ stage' = "defining"
      /\ InArgumentOrder(pulled) /\ pulled' = found.pulled /\ BodiesFound /\ bodies' = bodies
      /\ Defining /\ inner' = inner /\ retained' = retained
      /\ Define(a, found.parser) /\ at' = <<a + 1, 1>>
  BY UseTypes DEF LangInv, DefineLeft, NextRule, Rule
<1>2. a \in 1..R /\ R \in Nat /\ left \notin Reserved
  <2>1. a <= R
    BY DEF DefineLeft, R
  <2> QED
    BY <1>1, <2>1 DEF Defining, UseTyped
<1>3. found.parser = NameFound(left) /\ InArgumentOrder(found.pulled)
  BY <1>1, <1>2, NameIsFound
<1> HIDE DEF found
<1>4. at'[1] = a + 1 /\ at'[2] = 1 /\ at' = <<at'[1], at'[2]>>
  BY <1>1
<1>5. InArgumentOrder(pulled)' /\ BodiesFound'
  <2>1. \A k \in 1..R : Looked(k)' = Looked(k)
    BY <1>1 DEF Looked
  <2> QED
    BY <1>1, <1>3, <2>1, ArgumentsStay, BodiesStay
<1>6. /\ R' = R /\ use'.made = use.made
      /\ \A k, q : Defines(k, q)' <=> Defines(k, q)
  BY <1>1, SameUse
<1>7. /\ body' = IF left \in Range(use.given) THEN [body EXCEPT ![left] = a] ELSE body
      /\ roots' = roots \ {a}
  <2>1. retained = use.made /\ Range(use.given) \subseteq use.made
    BY <1>1 DEF Defining, UseTyped
  <2>2. "FAIL" \notin use.made
    BY <1>1 DEF UseTyped, Reserved
  <2> QED
    BY <1>1, <1>3, <2>1, <2>2 DEF Define, NameFound
<1>8. /\ body \in [use.made -> 0..(a - 1)] /\ Range(use.given) \subseteq use.made
      /\ \A q \in use.made : /\ body[q] # 0 => Defines(body[q], q)
                             /\ \A k \in 1..(a - 1) : Defines(k, q) => k <= body[q]
  BY <1>1 DEF Defining, DefinedTo, UseTyped
<1>9. ASSUME NEW q \in use.made
      PROVE  body'[q] = IF Defines(a, q) THEN a ELSE body[q]
  BY <1>7, <1>8 DEF Defines
<1>10. body' \in [use.made -> 0..(a + 1 - 1)]
  <2>1. body \in [use.made -> 0..(a + 1 - 1)] /\ a \in 0..(a + 1 - 1)
    BY <1>2, <1>8
  <2> QED
    BY <1>7, <2>1
<1>11. ASSUME NEW q \in use.made
       PROVE  /\ body'[q] # 0 => Defines(body'[q], q)
              /\ \A k \in 1..(a + 1 - 1) : Defines(k, q) => k <= body'[q]
  <2>1. CASE Defines(a, q)
    <3>1. body'[q] = a /\ a + 1 - 1 = a
      BY <1>2, <1>9, <2>1
    <3> QED
      BY <1>2, <2>1, <3>1
  <2>2. CASE ~Defines(a, q)
    <3>1. body'[q] = body[q]
      BY <1>9, <2>2
    <3>2. \A k \in 1..(a + 1 - 1) : k = a \/ k \in 1..(a - 1)
      BY <1>2
    <3> QED
      BY <1>8, <2>2, <3>1, <3>2
  <2> QED
    BY <2>1, <2>2
<1>12. DefinedTo(at[1])'
  <2>1. body' \in [use'.made -> 0..(at'[1] - 1)]
    <3>1. at'[1] - 1 = a + 1 - 1
      BY <1>2, <1>4
    <3> QED
      BY <1>6, <1>10, <3>1, Zenon
  <2>2. ASSUME NEW q \in use'.made
        PROVE  /\ body'[q] # 0 => Defines(body[q], q)'
               /\ \A k \in 1..(at'[1] - 1) : Defines(k, q)' => k <= body'[q]
    <3>1. Defines(body[q], q)' <=> Defines(body'[q], q)
      BY <1>1 DEF Defines
    <3>2. /\ body'[q] # 0 => Defines(body'[q], q)
          /\ \A k \in 1..(a + 1 - 1) : Defines(k, q) => k <= body'[q]
      BY <1>6, <1>11
    <3>3. ASSUME NEW k \in 1..(at'[1] - 1), Defines(k, q)' PROVE k <= body'[q]
      <4>1. k \in 1..(a + 1 - 1) /\ Defines(k, q)
        BY <1>2, <1>4, <1>6, <3>3
      <4> QED
        BY <3>2, <4>1
    <3> QED
      BY <3>1, <3>2, <3>3
  <2> QED
    BY <2>1, <2>2 DEF DefinedTo
<1>13. Defining'
  <2>1. a + 1 \in 1..(R + 1) /\ (a..R) \ {a} = (a + 1)..R
    BY <1>2
  <2>2. roots' = (a + 1)..R
    BY <1>1, <1>7, <2>1 DEF Defining
  <2> QED
    BY <1>1, <1>4, <1>6, <1>12, <2>1, <2>2 DEF Defining
<1> QED
  BY <1>1, <1>4, <1>5, <1>13 DEF LangInv

\* With all left sides defined, each body that stayed its parser's is there.
LEMMA AllDefinedKeeps == ASSUME LangInv, AllDefined PROVE LangInv'
<1>1. /\ use \in Uses /\ UseTyped /\ use' = use /\ stage = "defining" /\ stage' = "cleaning"
      /\ InArgumentOrder(pulled) /\ pulled' = pulled /\ BodiesFound /\ bodies' = bodies
      /\ Defining /\ body' = body /\ retained' = retained
      /\ roots' = roots /\ inner' = inner /\ at' = <<1, 1>>
  BY UseTypes DEF LangInv, AllDefined, heap
<1>2. at[1] = R + 1 /\ R \in Nat /\ C \in Nat
  <2>1. at[1] > R
    BY DEF AllDefined, R
  <2> QED
    BY <1>1, <2>1 DEF Defining, UseTyped
<1>3. at'[1] = 1 /\ at'[2] = 1 /\ at' = <<at'[1], at'[2]>>
  BY <1>1
<1>4. InArgumentOrder(pulled)' /\ BodiesFound'
  <2>1. \A k \in 1..R : Looked(k)' = Looked(k)
    BY <1>1 DEF Looked
  <2> QED
    BY <1>1, <2>1, ArgumentsStay, BodiesStay
<1>5. R' = R /\ C' = C /\ \A k, q : Defines(k, q)' <=> Defines(k, q)
  BY <1>1, SameUse
<1>6. /\ body \in [use.made -> 0..R]
      /\ \A q \in use.made : /\ body[q] # 0 => Defines(body[q], q)
                             /\ \A k \in 1..R : Defines(k, q) => k <= body[q]
  <2>1. R + 1 - 1 = R
    BY <1>2
  <2> QED
    BY <1>1, <1>2, <2>1 DEF Defining, DefinedTo
<1>7. ASSUME NEW q PROVE ~Undefined(q)' /\ ~Deleted(q)'
  <2>1. \A c \in 1..C : ~(c < 1)
    BY <1>2
  <2>2. ASSUME NEW c \in 1..C, NEW i \in DOMAIN use.cleanups[c] PROVE ~(i < 1)
    <3>1. i \in 1..Len(use.cleanups[c]) /\ Len(use.cleanups[c]) \in Nat
      BY <1>1, <2>2 DEF UseTyped
    <3> QED
      BY <3>1
  <2> QED
    BY <1>1, <1>3, <1>5, <2>1, <2>2 DEF Undefined, Deleted
<1>8. ASSUME NEW k \in 1..R, Defines(k, use.rules[k].left),
             \A l \in 1..R : use.rules[l].left = use.rules[k].left => l = k
      PROVE  body[use.rules[k].left] = k
  <2> DEFINE q == use.rules[k].left
  <2>1. q \in use.made
    BY <1>1, <1>8 DEF Defines, UseTyped
  <2>2. k <= body[q] /\ body[q] \in 1..R
    BY <1>2, <1>6, <1>8, <2>1
  <2>3. use.rules[body[q]].left = q
    BY <1>2, <1>6, <2>1, <2>2 DEF Defines
  <2> QED
    BY <1>8, <2>2, <2>3
<1>9. ASSUME NEW q \in use'.made
      PROVE  /\ body'[q] # 0 => Defines(body[q], q)'
             /\ \A k \in 1..R' : Defines(k, q)' => k <= body'[q]
  <2>1. Defines(body[q], q)' <=> Defines(body'[q], q)
    BY <1>1 DEF Defines
  <2> QED
    BY <1>1, <1>5, <1>6, <2>1
<1>10. body' \in [use'.made -> 0..R'] /\ R' + 1 - 1 = R'
  BY <1>1, <1>2, <1>5, <1>6
<1>11. LastDefined'
  <2>1. body' \in [use'.made -> 0..(R' + 1 - 1)]
    BY <1>10
  <2>2. ASSUME NEW q \in use'.made
        PROVE  \A k \in 1..(R' + 1 - 1) : Defines(k, q)' => k <= body'[q]
    BY <1>9, <1>10
  <2> QED
    BY <1>9, <2>1, <2>2 DEF LastDefined, DefinedTo, R
<1>12. CleaningUp'
  <2>1. roots' = {} /\ inner' = 1..R /\ retained' = use'.made
    <3>1. (R + 1)..R = {}
      BY <1>2
    <3> QED
      BY <1>1, <1>2, <3>1 DEF Defining
  <2>2. CleaningAt'
    <3>1. at'[1] \in 1..(C' + 1) /\ at'[2] \in Nat \ {0} /\ stage' # "done"
      BY <1>1, <1>2, <1>3, <1>5
    <3> QED
      BY <3>1 DEF CleaningAt
  <2>3. KeptTillDeleted'
    BY <1>7, <2>1 DEF KeptTillDeleted
  <2>4. BodiesBelong'
    BY <1>7, <1>9, <1>10 DEF BodiesBelong
  <2>5. InnerBelong'
    <3>1. inner' \subseteq 1..R'
      BY <1>5, <2>1
    <3>2. ASSUME NEW k \in inner', Sole(k)' PROVE body'[use'.rules[k].left] = k
      <4>1. Defines(k, use.rules[k].left) /\ k \in 1..R
        BY <1>1, <2>1, <3>2 DEF Sole, Defines
      <4>2. \A l \in 1..R : use.rules[l].left = use.rules[k].left => l = k
        BY <1>1, <1>5, <3>2 DEF Sole
      <4> QED
        BY <1>1, <1>8, <4>1, <4>2
    <3> QED
      BY <3>1, <3>2 DEF InnerBelong
  <2> QED
    BY <1>11, <2>1, <2>2, <2>3, <2>4, <2>5 DEF CleaningUp
<1> QED
  BY <1>1, <1>3, <1>4, <1>12 DEF LangInv

-----------------------------------------------------------------------------
(* Cleaning up.                                                            *)

\* What a step of the cleaning up is about.
LEMMA CleaningTypes ==
  ASSUME LangInv, Cleaning, at[2] <= Len(Call)
  PROVE  /\ at[1] \in 1..C /\ C \in Nat /\ R \in Nat
         /\ at[2] \in 1..Len(use.cleanups[at[1]]) /\ at[2] \in DOMAIN use.cleanups[at[1]]
         /\ Call[at[2]] \in use.made /\ Call = use.cleanups[at[1]]
<1>1. use \in Uses /\ UseTyped /\ stage = "cleaning" /\ CleaningUp
  BY UseTypes DEF LangInv, Cleaning
<1>2. at[1] \in 1..(C + 1) /\ at[2] \in Nat \ {0} /\ at[1] <= C
  BY <1>1 DEF CleaningUp, CleaningAt, Cleaning, C
<1>3. at[1] \in 1..C /\ C \in Nat /\ R \in Nat
  BY <1>1, <1>2 DEF UseTyped
<1>4. /\ Len(use.cleanups[at[1]]) \in Nat
      /\ DOMAIN use.cleanups[at[1]] = 1..Len(use.cleanups[at[1]])
      /\ \A i \in 1..Len(use.cleanups[at[1]]) : use.cleanups[at[1]][i] \in use.made
  BY <1>1, <1>3 DEF UseTyped
<1>5. at[2] <= Len(use.cleanups[at[1]])
  BY DEF Call
<1> QED
  BY <1>2, <1>3, <1>4, <1>5 DEF Call

\* What is given to mpc_cleanup is not freed yet, as nothing is given to it twice.
LEMMA ToCleanIsKept ==
  ASSUME LangInv, Cleaning, at[2] <= Len(Call)
  PROVE  Call[at[2]] \in retained
<1> DEFINE a == at[1]
           p == Call[at[2]]
<1>1. /\ a \in 1..C /\ C \in Nat /\ at[2] \in DOMAIN use.cleanups[a]
      /\ p \in use.made /\ p = use.cleanups[a][at[2]]
  BY CleaningTypes
<1>2. use \in Uses /\ UseTyped /\ KeptTillDeleted
  BY UseTypes DEF LangInv, Cleaning, CleaningUp
<1>3. ASSUME Deleted(p) PROVE FALSE
  <2>1. PICK c \in 1..C : c < a /\ p \in Range(use.cleanups[c])
    BY <1>3 DEF Deleted
  <2>2. PICK i \in DOMAIN use.cleanups[c] : use.cleanups[c][i] = p
    BY <2>1 DEF Range
  <2>3. DOMAIN use.cleanups = 1..C
    BY <1>2 DEF UseTyped
  <2>4. c = a
    <3>1. CleanedOnce(use)
      BY <1>2, UsesAssumption
    <3>2. \A d, e \in 1..C : \A m \in DOMAIN use.cleanups[d], n \in DOMAIN use.cleanups[e] :
            use.cleanups[d][m] = use.cleanups[e][n] => d = e
      BY <2>3, <3>1 DEF CleanedOnce
    <3> HIDE DEF p
    <3> QED
      BY <1>1, <2>1, <2>2, <3>2
  <2> QED
    BY <1>1, <2>1, <2>4
<1> QED
  BY <1>1, <1>2, <1>3 DEF KeptTillDeleted

\* Nor are the parsers its rule refers to: none of them was given to an earlier
\* call (mpc.c:1251-1299).
LEMMA TouchedAreKept ==
  ASSUME LangInv, FromNames, Cleaning, at[2] <= Len(Call)
  PROVE  Touches(Call[at[2]]) \subseteq retained
<1> DEFINE a == at[1]
           p == Call[at[2]]
           k == body[p]
           n == Len(use.rules[k].refs)
<1>1. /\ a \in 1..C /\ C \in Nat /\ R \in Nat /\ at[2] \in DOMAIN use.cleanups[a]
      /\ p \in use.made /\ p = use.cleanups[a][at[2]]
  BY CleaningTypes
<1>2. use \in Uses /\ UseTyped /\ stage = "cleaning"
      /\ BodiesBelong /\ KeptTillDeleted /\ BodiesFound
  BY UseTypes DEF LangInv, Cleaning, CleaningUp
<1>3. DOMAIN use.cleanups = 1..C /\ DOMAIN use.rules = 1..R /\ Range(use.given) \subseteq use.made
  BY <1>2 DEF UseTyped
<1> HIDE DEF p
<1>4. SUFFICES ASSUME NEW q, q \in Touches(p) PROVE q \in retained
  BY DEF p
<1>5. k # 0 /\ q \in Range(bodies[k]) /\ q # "FAIL"
  BY <1>4, Zenon DEF Touches
<1>6. k \in 1..R /\ use.rules[k].left = p
  <2>1. body \in [use.made -> 0..R] /\ Defines(k, p)
    BY <1>1, <1>2, <1>5 DEF BodiesBelong
  <2>2. k \in 0..R
    BY <1>1, <2>1
  <2> HIDE DEF k
  <2> QED
    BY <1>1, <1>5, <2>1, <2>2 DEF Defines
<1>7. bodies[k] = FirstFound(k, n)
  <2>1. Looked(k) = n
    BY <1>2 DEF Looked
  <2> HIDE DEF k, n
  <2> QED
    BY <1>2, <1>6, <2>1 DEF BodiesFound
<1>8. n \in Nat /\ DOMAIN use.rules[k].refs = 1..n
  <2> HIDE DEF k
  <2> QED
    BY <1>2, <1>6 DEF UseTyped
<1> HIDE DEF k, n
<1>9. PICK j \in 1..n : q = NameFound(use.rules[k].refs[j].name)
  BY <1>5, <1>7 DEF Range, FirstFound
<1>10. q = use.rules[k].refs[j].name /\ q \in use.made
  BY <1>3, <1>5, <1>9 DEF NameFound
<1>11. ASSUME Deleted(q) PROVE FALSE
  <2>1. PICK c \in 1..C : c < a /\ q \in Range(use.cleanups[c])
    BY <1>11 DEF Deleted
  <2>2. CleanedFirst(use)
    BY <1>2, UsesAssumption
  <2>3. use.rules[k].left \in Range(use.cleanups[a])
    BY <1>1, <1>6 DEF Range
  <2>4. a <= c
    BY <1>1, <1>3, <1>6, <1>8, <1>10, <2>1, <2>2, <2>3 DEF CleanedFirst
  <2> QED
    BY <1>1, <2>1, <2>4
<1> QED
  BY <1>2, <1>10, <1>11 DEF KeptTillDeleted

\* Deleting depends only on the calls that are over.
LEMMA DeletedStays ==
  ASSUME use' = use, at'[1] = at[1]
  PROVE  \A q : Deleted(q)' <=> Deleted(q)
  BY DEF Deleted, C

\* Undefining a parser takes its body from it and frees what was left of that.
LEMMA UndefineOneKeeps == ASSUME LangInv, UndefineOne PROVE LangInv'
<1> DEFINE a == at[1]
           b == at[2]
           p == Call[b]
           kept == ({p} \cup Touches(p)) \subseteq retained
<1>1. /\ use \in Uses /\ UseTyped /\ use' = use /\ stage = "cleaning"
      /\ InArgumentOrder(pulled) /\ pulled' = pulled /\ BodiesFound /\ bodies' = bodies
      /\ CleaningUp /\ roots' = roots /\ retained' = retained
      /\ at' = <<a, b + 1>> /\ Cleaning /\ b <= Len(Call)
  BY UseTypes DEF LangInv, UndefineOne, Cleaning
<1>2. /\ a \in 1..C /\ C \in Nat /\ R \in Nat /\ b \in DOMAIN use.cleanups[a] /\ b \in Nat \ {0}
      /\ p \in use.made /\ p = use.cleanups[a][b]
  BY <1>1, CleaningTypes
<1>3. /\ kept => inner' = inner \ {body[p]} /\ body' = [body EXCEPT ![p] = 0] /\ stage' = stage
      /\ ~kept => stage' = "crashed"
  BY DEF UndefineOne, Undefine
<1>4. FromNames => kept
  BY <1>1, ToCleanIsKept, TouchedAreKept
<1> HIDE DEF p, kept
<1>5. at'[1] = a /\ at'[2] = b + 1 /\ at' = <<at'[1], at'[2]>>
  BY <1>1
<1>6. R' = R /\ C' = C /\ (FromNames' <=> FromNames)
  BY <1>1, SameUse
<1>7. CASE ~kept
  BY <1>1, <1>3, <1>4, <1>5, <1>6, <1>7 DEF LangInv
<1>8. CASE kept
  <2>1. InArgumentOrder(pulled)' /\ BodiesFound'
    <3>1. \A k \in 1..R : Looked(k)' = Looked(k)
      BY <1>1, <1>3, <1>8 DEF Looked
    <3> QED
      BY <1>1, <3>1, ArgumentsStay, BodiesStay
  <2>2. /\ CleaningAt /\ BodiesBelong /\ InnerBelong /\ KeptTillDeleted /\ roots = {}
        /\ stage' = "cleaning"
    BY <1>1, <1>3, <1>8 DEF CleaningUp
  <2>3. body \in [use.made -> 0..R]
    BY <2>2 DEF BodiesBelong
  <2>4. body' \in [use.made -> 0..R] /\ body'[p] = 0
        /\ \A q \in use.made \ {p} : body'[q] = body[q]
    BY <1>2, <1>3, <1>8, <2>3
  <2>5. CleaningAt'
    <3>1. a \in 1..(C + 1) /\ b + 1 \in Nat \ {0}
      BY <1>2
    <3> QED
      BY <1>5, <1>6, <2>2, <3>1 DEF CleaningAt
  <2>6. BodiesBelong'
    <3>1. ASSUME NEW q \in use.made, body'[q] # 0 PROVE Defines(body[q], q)'
      <4>1. body[q] # 0 /\ body'[q] = body[q]
        BY <2>4, <3>1
      <4>2. Defines(body[q], q)
        BY <2>2, <4>1 DEF BodiesBelong
      <4> QED
        BY <1>1, <4>1, <4>2 DEF Defines
    <3>2. ASSUME NEW q \in use.made, Undefined(q)' PROVE body'[q] = 0
      <4>0. PICK c \in 1..C : \E i \in DOMAIN use.cleanups[c] :
              use.cleanups[c][i] = q /\ (c < a \/ (c = a /\ i < b + 1))
        BY <1>1, <1>5, <1>6, <3>2 DEF Undefined
      <4>1. PICK i \in DOMAIN use.cleanups[c] :
              use.cleanups[c][i] = q /\ (c < a \/ (c = a /\ i < b + 1))
        BY <4>0
      <4>2. i \in Nat
        BY <1>1, <4>1 DEF UseTyped
      <4>3. CASE c = a /\ i = b
        BY <1>2, <2>4, <4>1, <4>3
      <4>4. CASE ~(c = a /\ i = b)
        <5>1. c < a \/ (c = a /\ i < b)
          BY <1>2, <4>1, <4>2, <4>4
        <5>2. Undefined(q)
          BY <4>1, <5>1 DEF Undefined
        <5> QED
          BY <2>2, <2>4, <5>2 DEF BodiesBelong
      <4> QED
        BY <4>3, <4>4
    <3> QED
      BY <1>1, <1>6, <2>4, <3>1, <3>2 DEF BodiesBelong
  <2>7. InnerBelong'
    <3>1. inner' \subseteq 1..R /\ inner' \subseteq inner \ {body[p]}
      BY <1>3, <1>8, <2>2 DEF InnerBelong
    <3>2. ASSUME NEW k \in inner', Sole(k)' PROVE body'[use.rules[k].left] = k
      <4> DEFINE left == use.rules[k].left
      <4>1. Sole(k)
        BY <1>1, <1>6, <3>2 DEF Sole, Defines
      <4>2. body[left] = k
        BY <2>2, <3>1, <4>1 DEF InnerBelong
      <4>3. left \in use.made
        BY <1>1, <4>1 DEF Sole, Defines, UseTyped
      <4>4. left # p
        BY <3>1, <3>2, <4>2
      <4> QED
        BY <2>4, <4>2, <4>3, <4>4
    <3> QED
      BY <1>1, <1>6, <3>1, <3>2 DEF InnerBelong
  <2>8. KeptTillDeleted'
    <3>1. \A q : Deleted(q)' <=> Deleted(q)
      BY <1>1, <1>5, DeletedStays
    <3> QED
      BY <1>1, <2>2, <3>1 DEF KeptTillDeleted
  <2>9. at' # <<1, 1>>
    BY <1>2, <1>5
  <2>10. CleaningUp'
    BY <1>1, <2>2, <2>5, <2>6, <2>7, <2>8, <2>9 DEF CleaningUp
  <2> QED
    BY <1>1, <1>5, <2>1, <2>2, <2>10 DEF LangInv
<1> QED
  BY <1>7, <1>8

\* Deleting the parsers of a call leaves those of the calls after it.
LEMMA DeleteAllKeeps == ASSUME LangInv, DeleteAll PROVE LangInv'
<1> DEFINE a == at[1]
           b == at[2]
<1>1. /\ use \in Uses /\ UseTyped /\ use' = use /\ stage = "cleaning" /\ stage' = "cleaning"
      /\ InArgumentOrder(pulled) /\ pulled' = pulled /\ BodiesFound /\ bodies' = bodies
      /\ CleaningUp /\ roots' = roots /\ inner' = inner /\ body' = body
      /\ retained' = retained \ Range(Call) /\ at' = <<a + 1, 1>> /\ Cleaning /\ b > Len(Call)
  BY UseTypes DEF LangInv, DeleteAll, Cleaning, NextRule
<1>2. /\ CleaningAt /\ BodiesBelong /\ InnerBelong /\ KeptTillDeleted /\ roots = {}
  BY <1>1 DEF CleaningUp
<1>3. a \in 1..C /\ C \in Nat /\ R \in Nat
  <2>1. a <= C
    BY DEF DeleteAll, Cleaning, C
  <2> QED
    BY <1>1, <1>2, <2>1 DEF CleaningAt, UseTyped
<1>4. at'[1] = a + 1 /\ at'[2] = 1 /\ at' = <<at'[1], at'[2]>>
  BY <1>1
<1>5. R' = R /\ C' = C
  BY <1>1, SameUse
<1>6. InArgumentOrder(pulled)' /\ BodiesFound'
  <2>1. \A k \in 1..R : Looked(k)' = Looked(k)
    BY <1>1 DEF Looked
  <2> QED
    BY <1>1, <2>1, ArgumentsStay, BodiesStay
<1>7. CleaningAt'
  BY <1>1, <1>3, <1>4, <1>5 DEF CleaningAt
<1>8. BodiesBelong'
  <2>1. ASSUME NEW q \in use.made, body'[q] # 0 PROVE Defines(body[q], q)'
    BY <1>1, <1>2, <2>1 DEF BodiesBelong, Defines
  <2>2. ASSUME NEW q \in use.made, Undefined(q)' PROVE body'[q] = 0
    <3>1. PICK c \in 1..C : \E i \in DOMAIN use.cleanups[c] :
            use.cleanups[c][i] = q /\ (c < a + 1 \/ (c = a + 1 /\ i < 1))
      BY <1>1, <1>4, <1>5, <2>2 DEF Undefined
    <3>2. PICK i \in DOMAIN use.cleanups[c] :
            use.cleanups[c][i] = q /\ (c < a + 1 \/ (c = a + 1 /\ i < 1))
      BY <3>1
    <3>3. i \in 1..Len(use.cleanups[c]) /\ Len(use.cleanups[c]) \in Nat
      BY <1>1, <3>1, <3>2 DEF UseTyped
    <3>4. c < a \/ c = a
      BY <1>3, <3>1, <3>2, <3>3
    <3>5. c = a => i < b
      <4>1. b > Len(use.cleanups[a]) /\ b \in Nat
        BY <1>1, <1>2 DEF Call, CleaningAt
      <4> QED
        BY <3>3, <4>1
    <3>6. Undefined(q)
      BY <3>1, <3>2, <3>4, <3>5 DEF Undefined
    <3> QED
      BY <1>1, <1>2, <3>6 DEF BodiesBelong
  <2> QED
    BY <1>1, <1>2, <1>5, <2>1, <2>2 DEF BodiesBelong
<1>9. InnerBelong'
  <2>1. \A k \in inner' : Sole(k)' => Sole(k)
    BY <1>1, <1>5 DEF Sole, Defines
  <2> QED
    BY <1>1, <1>2, <1>5, <2>1 DEF InnerBelong
<1>10. KeptTillDeleted'
  <2>1. ASSUME NEW q PROVE Deleted(q)' <=> Deleted(q) \/ q \in Range(Call)
    <3>1. Deleted(q)' <=> \E c \in 1..C : c < a + 1 /\ q \in Range(use.cleanups[c])
      BY <1>1, <1>4, <1>5 DEF Deleted
    <3>2. \A c \in 1..C : c < a + 1 <=> c < a \/ c = a
      BY <1>3
    <3> QED
      BY <1>3, <3>1, <3>2 DEF Deleted, Call
  <2> QED
    BY <1>1, <1>2, <2>1 DEF KeptTillDeleted
<1>11. CleaningUp'
  <2>1. at' # <<1, 1>>
    BY <1>3, <1>4
  <2> QED
    BY <1>1, <1>2, <1>7, <1>8, <1>9, <1>10, <2>1 DEF CleaningUp
<1> QED
  BY <1>1, <1>4, <1>6, <1>11 DEF LangInv

\* Having cleaned up changes nothing.
LEMMA AllCleanedKeeps == ASSUME LangInv, AllCleaned PROVE LangInv'
<1>1. /\ use \in Uses /\ UseTyped /\ use' = use /\ stage = "cleaning" /\ stage' = "done"
      /\ InArgumentOrder(pulled) /\ pulled' = pulled /\ BodiesFound /\ bodies' = bodies
      /\ CleaningUp /\ roots' = roots /\ inner' = inner /\ body' = body
      /\ retained' = retained /\ at' = at /\ at = <<at[1], at[2]>> /\ at[1] > C
  BY UseTypes DEF LangInv, AllCleaned, heap, C
<1>2. /\ CleaningAt /\ BodiesBelong /\ InnerBelong /\ KeptTillDeleted /\ roots = {}
      /\ at = <<1, 1>> => LastDefined
  BY <1>1 DEF CleaningUp
<1>3. R' = R /\ C' = C
  BY <1>1, SameUse
<1>4. InArgumentOrder(pulled)' /\ BodiesFound'
  <2>1. \A k \in 1..R : Looked(k)' = Looked(k)
    BY <1>1 DEF Looked
  <2> QED
    BY <1>1, <2>1, ArgumentsStay, BodiesStay
<1>5. CleaningAt'
  <2>1. C \in Nat
    BY <1>1 DEF UseTyped
  <2> QED
    BY <1>1, <1>2, <1>3, <2>1 DEF CleaningAt
<1>6. BodiesBelong'
  BY <1>1, <1>2, <1>3 DEF BodiesBelong, Undefined, Defines
<1>7. InnerBelong'
  BY <1>1, <1>2, <1>3 DEF InnerBelong, Sole, Defines
<1>8. KeptTillDeleted'
  BY <1>1, <1>2, <1>3 DEF KeptTillDeleted, Deleted
<1>9. LastDefined => LastDefined'
  BY <1>1 DEF LastDefined, DefinedTo, Defines, R
<1>10. CleaningUp'
  BY <1>1, <1>2, <1>5, <1>6, <1>7, <1>8, <1>9 DEF CleaningUp
<1> QED
  BY <1>1, <1>4, <1>10 DEF LangInv

\* So does a step that changes nothing.
LEMMA StutterKeeps == ASSUME LangInv, UNCHANGED lvars PROVE LangInv'
<1>1. /\ use' = use /\ pulled' = pulled /\ bodies' = bodies /\ roots' = roots /\ inner' = inner
      /\ body' = body /\ retained' = retained /\ stage' = stage /\ at' = at
  BY DEF lvars, heap
<1>2. R' = R /\ C' = C /\ (FromNames' <=> FromNames)
  BY <1>1, SameUse
<1>3. InArgumentOrder(pulled) => InArgumentOrder(pulled)'
  BY <1>1, ArgumentsStay
<1>4. BodiesFound => BodiesFound'
  <2>1. \A k \in 1..R : Looked(k)' = Looked(k)
    BY <1>1 DEF Looked
  <2> QED
    BY <1>1, <2>1, BodiesStay
<1>5. Reading => Reading'
  BY <1>1 DEF Reading, R
<1>6. Defining => Defining'
  BY <1>1 DEF Defining, DefinedTo, Defines, R
<1>7. CleaningUp => CleaningUp'
  <2>1. CleaningAt => CleaningAt'
    BY <1>1 DEF CleaningAt, C
  <2>2. BodiesBelong => BodiesBelong'
    BY <1>1 DEF BodiesBelong, Undefined, Defines, R, C
  <2>3. InnerBelong => InnerBelong'
    BY <1>1 DEF InnerBelong, Sole, Defines, R
  <2>4. KeptTillDeleted => KeptTillDeleted'
    BY <1>1 DEF KeptTillDeleted, Deleted, C
  <2>5. LastDefined => LastDefined'
    BY <1>1 DEF LastDefined, DefinedTo, Defines, R
  <2> QED
    BY <1>1, <2>1, <2>2, <2>3, <2>4, <2>5 DEF CleaningUp
<1> QED
  BY <1>1, <1>2, <1>3, <1>4, <1>5, <1>6, <1>7 DEF LangInv

\* What holds of the parsers of a language all along.
LEMMA LanguageStays == Spec => []LangInv
<1>1. Init => LangInv
  BY InitKeeps
<1>2. LangInv /\ [Next]_lvars => LangInv'
  <2> SUFFICES ASSUME LangInv, [Next]_lvars PROVE LangInv'
    OBVIOUS
  <2>1. CASE FindReference
    BY <2>1, FindReferenceKeeps
  <2>2. CASE RuleRead
    BY <2>2, RuleReadKeeps
  <2>3. CASE LastRuleRead
    BY <2>3, LastRuleReadKeeps
  <2>4. CASE DefineLeft
    BY <2>4, DefineLeftKeeps
  <2>5. CASE AllDefined
    BY <2>5, AllDefinedKeeps
  <2>6. CASE UndefineOne
    BY <2>6, UndefineOneKeeps
  <2>7. CASE DeleteAll
    BY <2>7, DeleteAllKeeps
  <2>8. CASE AllCleaned
    BY <2>8, AllCleanedKeeps
  <2>9. CASE UNCHANGED lvars
    BY <2>9, StutterKeeps
  <2> QED
    BY <2>1, <2>2, <2>3, <2>4, <2>5, <2>6, <2>7, <2>8, <2>9 DEF Next, Over
<1> QED
  BY <1>1, <1>2, PTL DEF Spec

-----------------------------------------------------------------------------
(* What it is for.                                                         *)

\* The last of a set of rules.
LEMMA MaxIs ==
  ASSUME NEW S, S \subseteq Nat, NEW m \in S, \A n \in S : n <= m
  PROVE  Max(S) = m
<1>1. m \in S /\ \A n \in S : m >= n
  OBVIOUS
<1>2. \A n \in S : (\A i \in S : n >= i) => n = m
  OBVIOUS
<1> QED
  BY <1>1, <1>2 DEF Max

\* Every name is resolved to the parser of that name, or one that fails, and every
\* left side has its last body, in whatever order the names come and whichever
\* arguments had to be pulled for them (mpc.c:2887-2948, 3050-3101).
THEOREM NamesAreResolved == Spec => []ResolvesByName
<1>1. LangInv => ResolvesByName
  <2> SUFFICES ASSUME LangInv, stage = "cleaning", at = <<1, 1>>, FromNames
               PROVE  ResolvesByName
    BY DEF ResolvesByName
  <2>1. use \in Uses /\ UseTyped /\ BodiesFound /\ LastDefined
    BY UseTypes DEF LangInv, CleaningUp
  <2>2. R \in Nat /\ DOMAIN use.rules = 1..R
    BY <2>1 DEF UseTyped
  <2>3. ASSUME NEW k \in DOMAIN use.rules
        PROVE  bodies[k] = [j \in DOMAIN use.rules[k].refs |->
                              LET name == use.rules[k].refs[j].name
                              IN  IF name \in Range(use.given) THEN name ELSE "FAIL"]
    <3> DEFINE n == Len(use.rules[k].refs)
    <3>1. Looked(k) = n /\ DOMAIN use.rules[k].refs = 1..n
      BY <2>1, <2>2 DEF Looked, UseTyped
    <3>2. bodies[k] = FirstFound(k, n)
      BY <2>1, <2>2, <3>1 DEF BodiesFound
    <3> QED
      BY <3>1, <3>2 DEF FirstFound, NameFound
  <2>4. ASSUME NEW q \in use.made
        PROVE  body[q] = Max({0} \cup {k \in DOMAIN use.rules :
                                         use.rules[k].left = q /\ q \in Range(use.given)})
    <3> DEFINE S == {0} \cup {k \in DOMAIN use.rules :
                                use.rules[k].left = q /\ q \in Range(use.given)}
    <3>1. S \subseteq Nat
      BY <2>2
    <3>2. /\ body[q] \in 0..R
          /\ body[q] # 0 => Defines(body[q], q)
          /\ \A k \in 1..R : Defines(k, q) => k <= body[q]
      <4>1. R + 1 - 1 = R
        BY <2>2
      <4> QED
        BY <2>1, <2>2, <4>1 DEF LastDefined, DefinedTo
    <3>3. body[q] \in S
      BY <2>2, <3>2 DEF Defines
    <3>4. \A k \in S : k <= body[q]
      BY <2>2, <3>2 DEF Defines
    <3> HIDE DEF S
    <3>5. Max(S) = body[q]
      BY <3>1, <3>3, <3>4, MaxIs
    <3> QED
      BY <3>5 DEF S
  <2> QED
    BY <2>3, <2>4 DEF ResolvesByName
<1> QED
  BY <1>1, LanguageStays, PTL

\* No parser is looked at after it was freed (mpc.c:1226-1365), and without references by
\* number no argument past the NULL is.
THEOREM NoFreedParserIsRead == Spec => []ReadsNoFreedParser
<1>1. LangInv => ReadsNoFreedParser
  BY DEF LangInv, ReadsNoFreedParser
<1> QED
  BY <1>1, LanguageStays, PTL

\* As many left sides as rules are no two rules'.
LEMMA LeftsApart ==
  ASSUME UseTyped, Cardinality({use.rules[k].left : k \in DOMAIN use.rules}) = R,
         NEW k \in 1..R, NEW l \in 1..R, use.rules[k].left = use.rules[l].left
  PROVE  k = l
<1> DEFINE T == {use.rules[i].left : i \in DOMAIN use.rules}
           f == [i \in 1..R |-> use.rules[i].left]
<1>1. R \in Nat /\ DOMAIN use.rules = 1..R
  BY DEF UseTyped
<1>2. f \in [1..R -> T] /\ \A t \in T : \E i \in 1..R : f[i] = t
  BY <1>1
<1>3. IsFiniteSet(1..R) /\ Cardinality(1..R) = R
  BY <1>1, FS_Interval
<1>4. f[k] = f[l]
  OBVIOUS
<1>5. Cardinality(T) = R
  OBVIOUS
<1> HIDE DEF T, f
<1>6. f \in Surjection(1..R, T)
  BY <1>2 DEF Surjection
<1>7. f \in Injection(1..R, T)
  BY <1>3, <1>5, <1>6, FS_SurjSameCardinalityImpliesInj
<1>8. \A i, j \in 1..R : f[i] = f[j] => i = j
  BY <1>7 DEF Injection, IsInjective
<1> QED
  BY <1>4, <1>8

\* Nothing of the language is left when all parsers have been cleaned up, if each left
\* side was given and is no other rule's (mpc.c:1226-1365, 3072-3101).
THEOREM LanguageIsFreed == Spec => []FreesTheLanguage
<1>1. LangInv => FreesTheLanguage
  <2> DEFINE lefts == {use.rules[k].left : k \in DOMAIN use.rules}
  <2> SUFFICES ASSUME LangInv, stage = "done", Cardinality(lefts) = Len(use.rules),
                      lefts \subseteq Range(use.given)
               PROVE  roots = {} /\ inner = {} /\ retained = {}
    BY DEF FreesTheLanguage
  <2>1. use \in Uses /\ UseTyped /\ CleaningAt /\ BodiesBelong /\ InnerBelong
        /\ KeptTillDeleted /\ roots = {}
    BY UseTypes DEF LangInv, CleaningUp
  <2>2. R \in Nat /\ C \in Nat /\ DOMAIN use.rules = 1..R /\ DOMAIN use.cleanups = 1..C
        /\ at[1] = C + 1
    BY <2>1 DEF UseTyped, CleaningAt
  <2>3. ASSUME NEW q \in use.made PROVE Undefined(q) /\ Deleted(q)
    <3>1. PICK c \in 1..C : q \in Range(use.cleanups[c])
      BY <2>1, <2>2, UsesAssumption DEF CleanedOnce
    <3>2. c < at[1]
      BY <2>2, <3>1
    <3>3. PICK i \in DOMAIN use.cleanups[c] : use.cleanups[c][i] = q
      BY <3>1 DEF Range
    <3> QED
      BY <3>1, <3>2, <3>3 DEF Undefined, Deleted
  <2>4. retained = {}
    BY <2>1, <2>3 DEF KeptTillDeleted
  <2>5. ASSUME NEW k \in inner PROVE FALSE
    <3> DEFINE left == use.rules[k].left
    <3>1. k \in 1..R
      BY <2>1, <2>5 DEF InnerBelong
    <3>2. left \in Range(use.given) /\ left \in use.made
      BY <2>1, <2>2, <3>1 DEF UseTyped
    <3>3. Sole(k)
      <4>1. Cardinality(lefts) = R
        BY DEF R
      <4>2. \A l \in 1..R : use.rules[l].left = left => l = k
        BY <2>1, <3>1, <4>1, LeftsApart
      <4> QED
        BY <3>1, <3>2, <4>2 DEF Sole, Defines
    <3>4. body[left] = k
      BY <2>1, <2>5, <3>3 DEF InnerBelong
    <3>5. body[left] = 0
      BY <2>1, <2>3, <3>2 DEF BodiesBelong
    <3> QED
      BY <3>1, <3>4, <3>5
  <2> QED
    BY <2>1, <2>4, <2>5
<1> QED
  BY <1>1, LanguageStays, PTL
=============================================================================
