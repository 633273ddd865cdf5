------------------------------ MODULE MpcParse ------------------------------
(***************************************************************************)
(* The machine that runs parsers (mpc.c:735-1188): mpc_parse_input keeps a *)
(* stack of parsers, each with the state it has got to, and a stack of the *)
(* results they returned, instead of the C stack.  A step is one turn of   *)
(* its loop.                                                               *)
(***************************************************************************)
EXTENDS MpcInput, MpcNames

CONSTANTS
  Texts,       \* inputs to parse
  Parsers      \* parsers to parse them with, and all that these are made of

\* The parsers that are made of one other, which they ask for first.
OfOne == {"EXPECT", "APPLY", "APPLY_TO", "PREDICT", "NOT", "MAYBE", "MANY", "MANY1", "COUNT"}

ASSUME TextsAssumption == \A t \in Texts : t \in Seq(Range(t))

ASSUME ParsersAssumption ==
  /\ \A q \in Parsers : /\ q.s \in Seq(Range(q.s)) /\ q.xs \in Seq(Parsers)
                        /\ q.type \in OfOne => Len(q.xs) = 1
  /\ \A name \in DOMAIN Grammar : Grammar[name] \in Parsers

VARIABLES
  init,        \* the parser of this run
  input,
  parsers,     \* the stack of parsers, [p, st] each
  results,     \* the stack of results
  slots,       \* [parsers, results]: what the two arrays have room for
  err,         \* the error merged from all failures that were recovered from
  live,        \* [vals, errs]: how many of each are allocated
  outcome      \* what mpc_parse_input returned

run == <<init, input, parsers, results, slots, err, live, outcome>>

\* An array of the parser machine: its growth is that of MpcStack.
ParserStack == INSTANCE MpcStack WITH num <- Len(parsers), slots <- slots.parsers

NoError == err_fail(-1, "")
Ok(x) == [ok |-> TRUE, output |-> x, error |-> NoError]
Failed(e) == [ok |-> FALSE, output |-> NULL, error |-> e]
Pending == [ok |-> FALSE, output |-> Leaf("pending"), error |-> NoError]

Init ==
  /\ init \in Parsers
  /\ \E kind \in Kinds, text \in Texts : input = NewInput(kind, text)
  /\ parsers = <<[p |-> init, st |-> 0]>>
  /\ results = <<>>
  /\ slots = [parsers |-> ParserStack!More(1, 0), results |-> 0]
  /\ err = err_fail(-1, "Unknown Error")
  /\ live = [vals |-> 0, errs |-> 1]
  /\ outcome = Pending

-----------------------------------------------------------------------------
(* The stacks.                                                             *)

\* The parser on top, the state it has got to, and the latest result.
p == Resolve(Last(parsers).p)
st == Last(parsers).st
At(type) == parsers # <<>> /\ p.type = type

r == Last(results)
outputs(n) == [k \in 1..n |-> results[Len(results) - n + k].output]
errors(n) == [k \in 1..n |-> results[Len(results) - n + k].error]

\* popr n times, then pushr: the slots left, one step of the array at a time.
ResultSlots(n) ==
  LET popped[k \in 0..n] == IF k = 0 THEN slots.results
                            ELSE ParserStack!Less(Len(results) - k, popped[k - 1])
  IN  ParserStack!More(Len(results) - n + 1, popped[n])

\* Slip: room is made before the entry is counted.
ContinueReservesFirst(next, x) ==
  /\ parsers' = Append(Front(parsers) \o <<[Last(parsers) EXCEPT !.st = next]>>,
                       [p |-> x, st |-> 0])
  /\ slots' = [slots EXCEPT !.parsers = ParserStack!More(Len(parsers), @)]
  /\ UNCHANGED <<init, results, outcome>>

\* The parser on top asks for x and goes on in state next when it has returned.
Continue(next, x) ==
  /\ parsers' = Append(Front(parsers) \o <<[Last(parsers) EXCEPT !.st = next]>>,
                       [p |-> x, st |-> 0])
  /\ slots' = [slots EXCEPT !.parsers = ParserStack!More(Len(parsers) + 1, @)]
  /\ UNCHANGED <<init, results, outcome>>

\* Slip: a parser that has returned is called again.
ReturnStays(n, result) ==
  /\ parsers' = [parsers EXCEPT ![Len(parsers)].st = 0]
  /\ results' = Append(SubSeq(results, 1, Len(results) - n), result)
  /\ slots' = [slots EXCEPT !.results = ResultSlots(n)]
  /\ UNCHANGED <<init, outcome>>

\* The parser on top is done with n results and returns one.
Return(n, result) ==
  /\ parsers' = Front(parsers)
  /\ results' = Append(SubSeq(results, 1, Len(results) - n), result)
  /\ slots' = [parsers |-> ParserStack!Less(Len(parsers) - 1, slots.parsers),
               results |-> ResultSlots(n)]
  /\ UNCHANGED <<init, outcome>>

\* mpc_stack_err: errors that did not decide the result are merged into one.
Merge(es) ==
  LET all[k \in 0..Len(es)] == IF k = 0 THEN err ELSE err_or(<<all[k - 1], es[k]>>)
  IN  err' = all[Len(es)]

\* Values and errors allocated, less those freed or handed to a function.
Owns(vals, errs) ==
  live' = [vals |-> live.vals + vals, errs |-> live.errs + errs]

-----------------------------------------------------------------------------
(* Parsers that look at the input.                                         *)

Primitive(taken, value) ==
  /\ input' = taken.input
  /\ IF taken.ok THEN Return(0, Ok(value)) /\ Owns(1, 0)
     ELSE Return(0, Failed(err_fail(taken.input.pos, "Incorrect Input"))) /\ Owns(0, 1)
  /\ UNCHANGED err

One ==
  /\ \E type \in {"ANY", "SINGLE", "RANGE", "ONEOF", "NONEOF", "SATISFY"} : At(type)
  /\ Primitive(TakeOne(input, p.set), Leaf(NextChar(input)))

Str ==
  /\ At("STRING")
  /\ Primitive(TakeString(input, p.s), Leaf(p.m))

\* The anchor peeks at the next character, and its failure peeks again.
AnchorStep ==
  /\ At("ANCHOR")
  /\ input' = peekc(input)
  /\ IF AnchorHolds(p.m, input.last, NextChar(input))
     THEN Return(0, Ok(NULL)) /\ Owns(1, 0)
     ELSE Return(0, Failed(err_new(input.pos, "anchor"))) /\ Owns(0, 1)
  /\ UNCHANGED err

-----------------------------------------------------------------------------
(* Parsers that do not.                                                    *)

Always(type, value) ==
  /\ At(type)
  /\ Return(0, Ok(value)) /\ Owns(1, 0)
  /\ UNCHANGED <<input, err>>

Never(type, m) ==
  /\ At(type)
  /\ Return(0, Failed(err_fail(input.pos, m))) /\ Owns(0, 1)
  /\ UNCHANGED <<input, err>>

Constant ==
  \/ Always("PASS", NULL)
  \/ Always("LIFT", Leaf(p.m))
  \/ Always("LIFT_VAL", Leaf(p.m))
  \/ Always("STATE", Value("state", input.pos, <<>>))
  \/ Never("UNDEFINED", "Parser Undefined!")
  \/ Never("FAIL", p.m)

-----------------------------------------------------------------------------
(* Parsers of one other parser.                                            *)

\* The first thing most of them do is to ask for it.
Descend ==
  /\ \E type \in {"EXPECT", "APPLY", "APPLY_TO", "MAYBE", "MANY", "MANY1"} : At(type)
  /\ st = 0
  /\ Continue(1, p.xs[1])
  /\ UNCHANGED <<input, err, live>>

\* A failure of an expected parser is replaced by what was expected instead.
ExpectEnd ==
  /\ At("EXPECT") /\ st = 1
  /\ IF r.ok THEN Return(1, r) /\ UNCHANGED input
     ELSE /\ Return(1, Failed(err_new(input.pos, p.m)))
          /\ input' = peekc(input)
  /\ UNCHANGED <<err, live>>

ApplyEnd ==
  /\ At("APPLY") \/ At("APPLY_TO")
  /\ st = 1
  /\ Return(1, IF r.ok THEN Ok(Value(p.m, 0, <<r.output>>)) ELSE r)
  /\ UNCHANGED <<input, err, live>>

PredictStart ==
  /\ At("PREDICT") /\ st = 0
  /\ input' = backtrack_disable(input)
  /\ Continue(1, p.xs[1])
  /\ UNCHANGED <<err, live>>

\* Slip: nothing is remembered of the rest of the input after a predictive one.
PredictForgets ==
  /\ At("PREDICT") /\ st = 1
  /\ Return(1, r)
  /\ UNCHANGED <<input, err, live>>

\* The result is left where it is.
PredictEnd ==
  /\ At("PREDICT") /\ st = 1
  /\ input' = backtrack_enable(input)
  /\ parsers' = Front(parsers)
  /\ slots' = [slots EXCEPT !.parsers = ParserStack!Less(Len(parsers) - 1, @)]
  /\ UNCHANGED <<init, results, err, live, outcome>>

\* NOT and COUNT mark the input before they ask for their parser.
MarkAndDescend ==
  /\ At("NOT") \/ At("COUNT")
  /\ st = 0
  /\ input' = mark(input)
  /\ Continue(1, p.xs[1])
  /\ UNCHANGED <<err, live>>

NotEnd ==
  /\ At("NOT") /\ st = 1
  /\ IF r.ok THEN LET back == rewind(input)
                  IN  /\ input' = peekc(back)
                      /\ Return(1, Failed(err_new(back.pos, "opposite")))
                      /\ Owns(-1, 1)
                      /\ UNCHANGED err
     ELSE /\ input' = unmark(input)
          /\ Merge(errors(1))
          /\ Return(1, Ok(Leaf(p.m)))
          /\ Owns(1, -1)

MaybeEnd ==
  /\ At("MAYBE") /\ st = 1
  /\ IF r.ok THEN Return(1, r) /\ UNCHANGED <<err, live>>
     ELSE Merge(errors(1)) /\ Return(1, Ok(Leaf(p.m))) /\ Owns(1, -1)
  /\ UNCHANGED input

-----------------------------------------------------------------------------
(* Repetition: one more result, until a parser fails.                      *)

Again ==
  /\ At("MANY") \/ At("MANY1") \/ At("COUNT")
  /\ st > 0 /\ r.ok
  /\ Continue(st + 1, p.xs[1])
  /\ UNCHANGED <<input, err, live>>

\* The last error is merged, and the st - 1 outputs under it are folded.
FoldRepeated ==
  /\ Merge(errors(1))
  /\ Return(st, Ok(Value(p.m, 0, Front(outputs(st)))))
  /\ Owns(2 - st, -1)

ManyEnd ==
  /\ At("MANY") \/ (At("MANY1") /\ st > 1)
  /\ st > 0 /\ ~r.ok
  /\ FoldRepeated
  /\ UNCHANGED input

Many1Fails ==
  /\ At("MANY1") /\ st = 1 /\ ~r.ok
  /\ Return(1, Failed(err_repeat(r.error, "one or more of")))
  /\ UNCHANGED <<input, err, live>>

CountEnd ==
  /\ At("COUNT") /\ st > 0 /\ st = p.n + 1 /\ ~r.ok
  /\ FoldRepeated
  /\ input' = unmark(input)

\* Too few, or too many: what was parsed is freed and the input taken back.
CountFails ==
  /\ At("COUNT") /\ st > 0 /\ st # p.n + 1 /\ ~r.ok
  /\ Return(st, Failed(err_repeat(r.error, "count of")))
  /\ input' = rewind(input)
  /\ Owns(1 - st, 0)
  /\ UNCHANGED err

-----------------------------------------------------------------------------
(* Alternatives: results pile up until one is good.                        *)

OrNext ==
  /\ At("OR")
  /\ st < Len(p.xs) /\ (st > 0 => ~r.ok)
  /\ Continue(st + 1, p.xs[st + 1])
  /\ UNCHANGED <<input, err, live>>

\* Slip: the errors of the alternatives before the good one are forgotten.
OrSucceedsQuietly ==
  /\ At("OR") /\ st > 0 /\ r.ok
  /\ Return(st, r)
  /\ Owns(0, 1 - st)
  /\ UNCHANGED <<input, err>>

OrSucceeds ==
  /\ At("OR") /\ st > 0 /\ r.ok
  /\ Merge(Reverse(Front(errors(st))))
  /\ Return(st, r)
  /\ Owns(0, 1 - st)
  /\ UNCHANGED input

OrFails ==
  /\ At("OR") /\ st > 0 /\ st = Len(p.xs) /\ ~r.ok
  /\ Return(st, Failed(err_or(errors(st))))
  /\ Owns(0, 1 - st)
  /\ UNCHANGED <<input, err>>

OrOfNone ==
  /\ At("OR") /\ p.xs = <<>>
  /\ Return(0, Ok(NULL)) /\ Owns(1, 0)
  /\ UNCHANGED <<input, err>>

-----------------------------------------------------------------------------
(* Sequences: results pile up until one is bad.                            *)

AndNext ==
  /\ At("AND")
  /\ st < Len(p.xs) /\ (st > 0 => r.ok)
  /\ input' = IF st = 0 THEN mark(input) ELSE input
  /\ Continue(st + 1, p.xs[st + 1])
  /\ UNCHANGED <<err, live>>

AndSucceeds ==
  /\ At("AND") /\ st > 0 /\ st = Len(p.xs) /\ r.ok
  /\ input' = unmark(input)
  /\ Return(st, Ok(Value(p.m, 0, outputs(st))))
  /\ Owns(1 - st, 0)
  /\ UNCHANGED err

\* Slip: what was parsed before the failure is not freed.
AndFailsKeepingOutputs ==
  /\ At("AND") /\ st > 0 /\ ~r.ok
  /\ input' = rewind(input)
  /\ Return(1, r)
  /\ UNCHANGED <<err, live>>

AndFails ==
  /\ At("AND") /\ st > 0 /\ ~r.ok
  /\ input' = rewind(input)
  /\ Return(st, r)
  /\ Owns(1 - st, 0)
  /\ UNCHANGED err

AndOfNone ==
  /\ At("AND") /\ p.xs = <<>>
  /\ Return(0, Ok(Value(p.m, 0, <<>>))) /\ Owns(1, 0)
  /\ UNCHANGED <<input, err>>

-----------------------------------------------------------------------------

\* The one result is handed to the caller, with the error merged from all.
Terminate ==
  /\ parsers = <<>> /\ outcome = Pending
  /\ IF r.ok THEN outcome' = r /\ UNCHANGED err
     ELSE /\ Merge(errors(1))
          /\ outcome' = Failed(err')
  /\ Owns(0, -1)
  /\ results' = <<>>
  /\ UNCHANGED <<init, input, parsers, slots>>

Turn ==
  \/ One \/ Str \/ AnchorStep \/ Constant
  \/ Descend \/ ExpectEnd \/ ApplyEnd \/ PredictStart \/ PredictEnd
  \/ MarkAndDescend \/ NotEnd \/ MaybeEnd
  \/ Again \/ ManyEnd \/ Many1Fails \/ CountEnd \/ CountFails
  \/ OrNext \/ OrSucceeds \/ OrFails \/ OrOfNone
  \/ AndNext \/ AndSucceeds \/ AndFails \/ AndOfNone
  \/ Terminate

Done == outcome # Pending /\ UNCHANGED run

Next == Turn \/ Done

Spec == Init /\ [][Next]_run
-----------------------------------------------------------------------------
(* Properties.                                                             *)

\* Every variable keeps its type, and neither array is written past its end
\* (mpc.c:802-869).
TypeOK ==
  /\ input.pos \in 0..Len(input.text) /\ input.off \in 0..Len(input.text)
  /\ input.backtrack <= 1 /\ input.eof \in BOOLEAN
  /\ \A k \in DOMAIN parsers : parsers[k].st \in Nat
  /\ \A k \in DOMAIN results : results[k].ok \in BOOLEAN
  /\ Len(parsers) <= slots.parsers /\ Len(results) <= slots.results
  /\ err.pos \in -1..Len(input.text)
  /\ live \in [vals : Nat, errs : Nat]

\* How many results there are once the first k parsers and the one they wait
\* for have returned what they have so far.
Held(ps) ==
  LET held[k \in 0..Len(ps)] == IF k = 0 THEN 1 ELSE held[k - 1] + ps[k].st - 1
  IN  held

\* The two stacks fit each other: a parser that waits for another holds the
\* results it has collected, st - 1 of them, and the one on top the last one
\* as well, so that no parser takes the results of another (mpc.c:986-1146).
StacksAgree == outcome = Pending => Len(results) = Held(parsers)[Len(parsers)]

\* Marks are set and taken back in pairs, across predictive parsers in which
\* neither has an effect: there is one for every sequence, count and negation
\* being tried outside of one (mpc.c:413-466, 1037-1146).
MarksBalanced ==
  LET type(k) == Resolve(parsers[k].p).type
      begun == {k \in DOMAIN parsers : parsers[k].st > 0}
      predictive == {k \in begun : type(k) = "PREDICT"}
      marking == {k \in begun : /\ type(k) \in {"AND", "COUNT", "NOT"}
                                /\ \A j \in predictive : j > k}
  IN  /\ input.backtrack = 1 - Cardinality(predictive)
      /\ Len(input.marks) = Cardinality(marking)

\* Every value and every error that was made is on the stack of results, or was
\* given to a function, freed or merged: none is lost, none used twice.  At the
\* end one is left, for the caller (mpc.c:768-795, 891-947).
NothingLeaks ==
  LET held(ok) == Cardinality({k \in DOMAIN results : results[k].ok = ok})
  IN  IF outcome = Pending THEN live = [vals |-> held(TRUE), errs |-> held(FALSE) + 1]
      ELSE live = IF outcome.ok THEN [vals |-> 1, errs |-> 0] ELSE [vals |-> 0, errs |-> 1]

\* The stack of parsers grows and shrinks by one, within its array.
UsesStack == [][ParserStack!Next]_<<Len(parsers), slots.parsers>>
=============================================================================
