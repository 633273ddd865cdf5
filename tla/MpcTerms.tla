------------------------------ MODULE MpcTerms ------------------------------
(***************************************************************************)
(* What the parser machine of mpc.c works on: parsers, built by the        *)
(* constructors a program calls (mpc.c:1226-1790), the values they return, *)
(* and errors (mpc.c:33-273).  The functions a program passes in (folds,   *)
(* applications, lifts) are uninterpreted: the value they return is a node *)
(* with their name and what they were given.                               *)
(***************************************************************************)
EXTENDS Integers, Sequences, FiniteSets, FiniteSetsExt

-----------------------------------------------------------------------------
(* Values.                                                                 *)

Value(tag, at, xs) == [tag |-> tag, at |-> at, xs |-> xs]

NULL == Value("NULL", 0, <<>>)

Leaf(tag) == Value(tag, 0, <<>>)

-----------------------------------------------------------------------------
(* Parsers.  set: the characters of a parser of one character; s: those of *)
(* a string; m: a message, or the name of a function or of a parser; n: a  *)
(* count; xs: the parsers it is made of.                                   *)

Undefined ==
  [type |-> "UNDEFINED", set |-> {}, s |-> <<>>, m |-> "", n |-> 0, xs |-> <<>>]

Of(type, xs) == [Undefined EXCEPT !.type = type, !.xs = xs]

\* A parser made elsewhere, referred to by its name: this is how parsers refer
\* to each other, and to themselves.
Named(name) == [Undefined EXCEPT !.type = "NAME", !.m = name]

Pass == Of("PASS", <<>>)
Fails(m) == [Undefined EXCEPT !.type = "FAIL", !.m = m]
LiftVal(v) == [Undefined EXCEPT !.type = "LIFT_VAL", !.m = v]
Lift(lf) == [Undefined EXCEPT !.type = "LIFT", !.m = lf]
State == Of("STATE", <<>>)
Expect(a, m) == [Of("EXPECT", <<a>>) EXCEPT !.m = m]
Anchor(f) == [Undefined EXCEPT !.type = "ANCHOR", !.m = f]

\* mpc_any, mpc_char, mpc_range, mpc_oneof, mpc_noneof, mpc_satisfy.
OneOf(type, set, m) == Expect([Undefined EXCEPT !.type = type, !.set = set], m)
Char(c) == OneOf("SINGLE", {c}, c)
String(s, m) == Expect([Undefined EXCEPT !.type = "STRING", !.s = s, !.m = m], m)

Apply(a, f) == [Of("APPLY", <<a>>) EXCEPT !.m = f]
ApplyTo(a, f) == [Of("APPLY_TO", <<a>>) EXCEPT !.m = f]
Predictive(a) == Of("PREDICT", <<a>>)
\* lf makes the value of a parser that succeeds where a fails, or need not be there.
NotLift(a, lf) == [Of("NOT", <<a>>) EXCEPT !.m = lf]
Not(a) == NotLift(a, "NULL")
MaybeLift(a, lf) == [Of("MAYBE", <<a>>) EXCEPT !.m = lf]
Maybe(a) == MaybeLift(a, "NULL")
Many(f, a) == [Of("MANY", <<a>>) EXCEPT !.m = f]
Many1(f, a) == [Of("MANY1", <<a>>) EXCEPT !.m = f]
Count(n, f, a) == [Of("COUNT", <<a>>) EXCEPT !.m = f, !.n = n]
Or(xs) == Of("OR", xs)
And(f, xs) == [Of("AND", xs) EXCEPT !.m = f]

-----------------------------------------------------------------------------
(* The anchors, functions of the characters on both sides.                 *)

CONSTANT WordChars   \* what mpc_boundary takes for part of a word

AnchorHolds(f, prev, next) ==
  CASE f = "soi" -> prev = ""
    [] f = "eoi" -> next = ""
    [] f = "boundary" ->
         \* strchr finds the '\0' at the end of the string as well.
         LET word == WordChars \cup {""}
         IN  \/ next \in word /\ prev = ""
             \/ prev \in word /\ next = ""
             \/ (next \in word) # (prev \in word)

Soi == Expect(Anchor("soi"), "start of input")
Eoi == Expect(Anchor("eoi"), "end of input")
Boundary == Expect(Anchor("boundary"), "boundary")

Whole(a) == And("snd", <<Soi, a, Eoi>>)
StartWith(a) == And("snd", <<Soi, a>>)
EndWith(a) == And("fst", <<a, Eoi>>)
Between(a, o, c) == And("snd_free", <<String(<<o>>, o), a, String(<<c>>, c)>>)

-----------------------------------------------------------------------------
(* Errors.  failure is "" when there is none; what was expected is a set   *)
(* of expectations, one being either a message or, for a repetition, all   *)
(* that its parser expected.                                               *)

Expectation(m, of) == [what |-> m, of |-> of]

err_new(pos, m) == [pos |-> pos, failure |-> "", expected |-> {Expectation(m, {})}]

err_fail(pos, m) == [pos |-> pos, failure |-> m, expected |-> {}]

\* The errors at the farthest place together, up to the first that is a failure
\* with a message of its own, which is then all that will be printed.
err_or(xs) ==
  LET pos == Max({xs[k].pos : k \in DOMAIN xs} \cup {-1})
      far == {k \in DOMAIN xs : xs[k].pos = pos}
      failed == {k \in far : xs[k].failure # ""}
      first == IF failed = {} THEN Len(xs) + 1 ELSE Min(failed)
  IN  [ pos |-> pos,
        failure |-> IF failed = {} THEN "" ELSE xs[first].failure,
        expected |-> UNION {xs[k].expected : k \in {j \in far : j < first}} ]

err_repeat(x, prefix) == [x EXCEPT !.expected = {Expectation(prefix, @)}]
=============================================================================
