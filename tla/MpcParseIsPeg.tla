---------------------------- MODULE MpcParseIsPeg ----------------------------
(***************************************************************************)
(* What the parser machine has to do with what parsers mean: the results   *)
(* and errors of MpcParse are those of MpcPeg.                             *)
(***************************************************************************)
EXTENDS MpcParse, MpcPeg

\* What a parser means for this input.
Reference == Peg(init, input.text, 0, TRUE)

\* A string and a file can be gone back in at will, a pipe only as far as one
\* character: "using `mpc_predictive` will disable backtracking and make LL(1)
\* grammars easy to parse for all input methods" (mpc.c:304-306).
CanGoBack == input.kind # "pipe" \/ init.type = "PREDICT"

\* The machine with its two stacks accepts what the recursive definition does,
\* with the same value, and leaves off at the same place (mpc.c:949-1146).
ResultIsPeg ==
  outcome # Pending /\ CanGoBack =>
    /\ outcome.ok = Reference.ok /\ input.pos = Reference.pos
    /\ outcome.ok => outcome.output = Reference.val
    /\ input.kind # "string" => input.off = input.pos

\* The error that is reported is the farthest of all those met on the way,
\* recovered from or not, and names everything expected there (mpc.c:188-225).
ErrorIsFarthest ==
  outcome # Pending /\ CanGoBack /\ ~outcome.ok =>
    LET far == Join(Reference.past, Reference.err)
    IN  /\ outcome.error.pos = far.pos
        /\ (outcome.error.failure # "") = far.failing
        /\ ~far.failing => outcome.error.expected = far.expected
=============================================================================
