----------------------------- MODULE MCMpcParse -----------------------------
(***************************************************************************)
(* Every text of up to four of two characters, in each kind of input,     *)
(* parsed by all pairs of simple parsers, one after the other and one or   *)
(* the other, and by a choice of larger ones.  None repeats a parser that  *)
(* accepts the empty text, which would go on for ever.                     *)
(***************************************************************************)
EXTENDS MpcParseIsPeg

a == Char("a")
b == Char("b")
ab == String(<<"a", "b">>, "ab")

MCTexts == UNION {[1..n -> {"a", "b"}] : n \in 0..4}

Simple ==
  << a, b, ab, Maybe(a), Many("as", a), Many1("as", b), Not(a), And("two", <<a, b>>),
     Count(2, "aa", a) >>

Basic ==
  << OneOf("ANY", {"a", "b"}, "any character"), OneOf("RANGE", {"a", "b"}, "a to b"),
     OneOf("ONEOF", {"a"}, "one of a"), OneOf("NONEOF", {"b"}, "none of a"),
     OneOf("SATISFY", {}, "nothing"), Pass, Fails("no"), Lift("lf"), LiftVal("x"), State,
     Undefined, Soi, Eoi, Boundary, MaybeLift(b, ""), NotLift(a, ""), Or(<<>>),
     And("none", <<>>), Many1("any", Or(<<a, b>>)) >>

\* Pair(x, y) for every two simple parsers.
Pairs(Pair(_, _)) ==
  [k \in 1..(Len(Simple) * Len(Simple)) |->
     Pair(Simple[(k - 1) \div Len(Simple) + 1], Simple[((k - 1) % Len(Simple)) + 1])]

Sequences2 == Pairs(LAMBDA x, y : And("pair", <<x, y>>))
Alternatives == Pairs(LAMBDA x, y : Or(<<x, y>>))

Larger ==
  << Whole(Named("nest")), Named("rule"), Whole(Many("ps", Or(<<ab, a>>))),
     And("at", <<a, State, Boundary, b>>), StartWith(EndWith(Many("bs", b))),
     Between(Many("bs", b), "a", "a"), Expect(And("two", <<a, Maybe(b), a>>), "aba"),
     Or(<<Many1("ps", And("p", <<a, b>>)), Many("as", a)>>),
     And("not", <<Not(And("two", <<a, a>>)), Many("as", Or(<<a, b>>))>>),
     Not(Not(And("two", <<a, Predictive(b)>>))),
     And("wide", <<a, Or(<<Count(1, "a", a), Count(2, "ab", Or(<<a, b>>))>>), Eoi>>),
     ApplyTo(Apply(Count(0, "none", b), "f"), "g"),
     And("p", <<Many("as", a), Predictive(Or(<<And("q", <<b, a>>), And("r", <<b, b>>)>>))>>),
     Or(<<And("p", <<a, Predictive(And("q", <<b, b>>))>>), ab>>),
     And("f", <<Many("as", a), Or(<<Fails("no"), b, Undefined>>)>>),
     Or(<<And("p", <<a, b>>), StartWith(a)>>),
     And("p", <<Or(<<And("aaa", <<a, a, a>>), a>>), b>>) >>

\* A language with recursion, and two rules one of which was never defined.
MCGrammar ==
  [ nest |-> Or(<<And("nested", <<a, Named("nest"), b>>), ab>>),
    rule |-> Or(<<Named("nowhere"), And("then", <<Many("as", a), b>>)>>) ]

Chosen ==
  Range(Basic) \cup Range(Sequences2) \cup Range(Alternatives) \cup Range(Larger)
    \cup {Predictive(q) : q \in Range(Alternatives) \cup Range(Larger)}

\* The parsers that those of a set are made of, down to the last part.
RECURSIVE Parts(_)
Parts(qs) == IF qs = {} THEN {} ELSE qs \cup Parts(UNION {Range(q.xs) : q \in qs})

MCParsers == Parts(Chosen \cup Range(MCGrammar))
=============================================================================
