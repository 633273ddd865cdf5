------------------------------- MODULE MpcPeg -------------------------------
(***************************************************************************)
(* What a parser means, as a recursive definition: whether it accepts a    *)
(* text at a position, the value it gives, the position it leaves off at,  *)
(* and the error to report.  This is the reference the parser machine is   *)
(* compared with (mpc.c:949-965: "when this function was written in        *)
(* recursive form it looked pretty nice").                                 *)
(***************************************************************************)
EXTENDS MpcNames

-----------------------------------------------------------------------------
(* Errors, with no order among them: the farthest together, and whether    *)
(* one of those has a message of its own.                                  *)

None == [pos |-> -1, failing |-> FALSE, expected |-> {}]

Join(d, e) ==
  IF d.pos # e.pos THEN IF d.pos > e.pos THEN d ELSE e
  ELSE [pos |-> d.pos, failing |-> d.failing \/ e.failing, expected |-> d.expected \cup e.expected]

Missing(pos, m) == [pos |-> pos, failing |-> FALSE, expected |-> {Expectation(m, {})}]
Message(pos) == [pos |-> pos, failing |-> TRUE, expected |-> {}]
Repeat(e, prefix) == [e EXCEPT !.expected = {Expectation(prefix, @)}]

\* past is the join of the errors that were recovered from.
Yes(val, pos, past) == [ok |-> TRUE, val |-> val, pos |-> pos, err |-> None, past |-> past]
No(pos, err, past) == [ok |-> FALSE, val |-> NULL, pos |-> pos, err |-> err, past |-> past]

-----------------------------------------------------------------------------

Char0(text, pos) == IF pos \in 1..Len(text) THEN text[pos] ELSE ""

\* How much of s the text has at pos.
Common(text, pos, s) ==
  Max({k \in 0..Len(s) : \A j \in 1..k : Char0(text, pos + j) = s[j]})

RECURSIVE Peg(_, _, _, _), PegAll(_, _, _, _, _), PegAny(_, _, _, _, _), PegStar(_, _, _, _),
          PegOf(_, _, _, _)

\* The parsers xs one after the other.
PegAll(xs, text, pos, back, past) ==
  IF xs = <<>> THEN [ok |-> TRUE, vals |-> <<>>, pos |-> pos, err |-> None, past |-> past]
  ELSE LET first == Peg(Head(xs), text, pos, back)
           seen == Join(past, first.past)
       IN  IF ~first.ok THEN [ok |-> FALSE, vals |-> <<>>, pos |-> first.pos,
                              err |-> first.err, past |-> seen]
           ELSE LET rest == PegAll(Tail(xs), text, first.pos, back, seen)
                IN  [rest EXCEPT !.vals = <<first.val>> \o @]

\* The first of xs that accepts; err is the join of those that did not.
PegAny(xs, text, pos, back, soFar) ==
  IF xs = <<>> THEN No(pos, soFar.err, soFar.past)
  ELSE LET first == Peg(Head(xs), text, pos, back)
           seen == Join(soFar.past, first.past)
       IN  IF first.ok THEN Yes(first.val, first.pos, Join(soFar.err, seen))
           ELSE PegAny(Tail(xs), text, first.pos, back,
                       [err |-> Join(soFar.err, first.err), past |-> seen])

\* x as often as it accepts; err is the failure that ends it.
PegStar(x, text, pos, back) ==
  LET first == Peg(x, text, pos, back)
  IN  IF ~first.ok THEN [vals |-> <<>>, pos |-> first.pos, err |-> first.err, past |-> first.past]
      ELSE LET rest == PegStar(x, text, first.pos, back)
           IN  [rest EXCEPT !.vals = <<first.val>> \o @, !.past = Join(@, first.past)]

\* back says that a parser that fails takes back the input it has consumed,
\* which it does everywhere but within a predictive parser.
Peg(named, text, pos, back) == PegOf(Resolve(named), text, pos, back)

PegOf(p, text, pos, back) ==
  LET Inner == Peg(p.xs[1], text, pos, back)
      Star == PegStar(p.xs[1], text, pos, back)
      From(end) == IF back THEN pos ELSE end
  IN
  CASE p.type \in {"ANY", "SINGLE", "RANGE", "ONEOF", "NONEOF", "SATISFY"} ->
         IF pos < Len(text) /\ text[pos + 1] \in p.set
         THEN Yes(Leaf(text[pos + 1]), pos + 1, None) ELSE No(pos, Message(pos), None)
    [] p.type = "STRING" ->
         LET end == pos + Common(text, pos, p.s)
         IN  IF end = pos + Len(p.s) THEN Yes(Leaf(p.m), end, None)
             ELSE No(From(end), Message(From(end)), None)
    [] p.type = "ANCHOR" ->
         IF AnchorHolds(p.m, Char0(text, pos), Char0(text, pos + 1)) THEN Yes(NULL, pos, None)
         ELSE No(pos, Missing(pos, "anchor"), None)
    [] p.type = "PASS" -> Yes(NULL, pos, None)
    [] p.type \in {"LIFT", "LIFT_VAL"} -> Yes(Leaf(p.m), pos, None)
    [] p.type = "STATE" -> Yes(Value("state", pos, <<>>), pos, None)
    [] p.type \in {"FAIL", "UNDEFINED"} -> No(pos, Message(pos), None)
    [] p.type = "EXPECT" ->
         IF Inner.ok THEN Inner ELSE [Inner EXCEPT !.err = Missing(Inner.pos, p.m)]
    [] p.type \in {"APPLY", "APPLY_TO"} ->
         IF Inner.ok THEN [Inner EXCEPT !.val = Value(p.m, 0, <<@>>)] ELSE Inner
    [] p.type = "PREDICT" -> Peg(p.xs[1], text, pos, FALSE)
    [] p.type = "NOT" ->
         IF Inner.ok THEN No(From(Inner.pos), Missing(From(Inner.pos), "opposite"), Inner.past)
         ELSE Yes(Leaf(p.m), Inner.pos, Join(Inner.past, Inner.err))
    [] p.type = "MAYBE" ->
         IF Inner.ok THEN Inner ELSE Yes(Leaf(p.m), Inner.pos, Join(Inner.past, Inner.err))
    [] p.type = "MANY" ->
         Yes(Value(p.m, 0, Star.vals), Star.pos, Join(Star.past, Star.err))
    [] p.type = "MANY1" ->
         IF Star.vals = <<>> THEN No(Star.pos, Repeat(Star.err, "one or more of"), Star.past)
         ELSE Yes(Value(p.m, 0, Star.vals), Star.pos, Join(Star.past, Star.err))
    [] p.type = "COUNT" ->
         IF Len(Star.vals) # p.n
         THEN No(From(Star.pos), Repeat(Star.err, "count of"), Star.past)
         ELSE Yes(Value(p.m, 0, Star.vals), Star.pos, Join(Star.past, Star.err))
    [] p.type = "OR" ->
         IF p.xs = <<>> THEN Yes(NULL, pos, None)
         ELSE PegAny(p.xs, text, pos, back, [err |-> None, past |-> None])
    [] p.type = "AND" ->
         LET all == PegAll(p.xs, text, pos, back, None)
         IN  IF all.ok THEN Yes(Value(p.m, 0, all.vals), all.pos, all.past)
             ELSE No(From(all.pos), all.err, all.past)
=============================================================================
