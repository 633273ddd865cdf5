----------------------------- MODULE RBMLCalls -----------------------------
(***************************************************************************)
(* Subroutines on the RBML machine.  The machine has no notion of a frame: *)
(* the caller's address is in the jump register, its callers' are on the   *)
(* call stack, and a jump register of zero stands for "no caller".  Two    *)
(* history variables record what the program did, so that the machine can  *)
(* be compared with the nesting of CALL and END it is meant to implement.  *)
(***************************************************************************)
EXTENDS RBMLMachine

VARIABLES
  frames,    \* the addresses of the CALLs not yet ended, the latest last
  breaches   \* the ways in which the program has broken the convention

callVars == <<vars, frames, breaches>>

Breach == {"jump written", "end without call", "nested too deep", "call at zero"}

\* The instruction about to be executed is a CALL that is taken, or an END.
Calling == status = "running" /\ \E k \in 0..5 : Opcode = OP.CALL + k /\ CallTaken[k + 1]
Ending == status = "running" /\ Opcode = OP.END

\* The instruction gives the jump register a value of its own.
WritesJump ==
  /\ status = "running"
  /\ \/ Opcode \in {OP.LOD + 2, OP.CRDJ}
     \/ Opcode = OP.MOV + 2 /\ Arg1 = 0

BreachesNow ==
  {b \in Breach :
     \/ b = "jump written" /\ WritesJump
     \/ b = "end without call" /\ Ending /\ frames = <<>>
     \/ b = "nested too deep" /\ Calling /\ Len(frames) >= SIZE_OF_CALLSTACK
     \/ b = "call at zero" /\ Calling /\ instructionCounter = 0}

FramesNow ==
  IF Calling THEN Append(frames, instructionCounter)
  ELSE IF Ending /\ frames # <<>> THEN SubSeq(frames, 1, Len(frames) - 1)
  ELSE frames

CallsInit == Init /\ frames = <<>> /\ breaches = {}

\* Once calls have nested too deep, nothing more is recorded of them.
CallsNext ==
  /\ Next
  /\ breaches' = breaches \cup BreachesNow
  /\ frames' = IF "nested too deep" \in breaches' THEN <<>>
               ELSE IF status' = "crashed" THEN frames
               ELSE FramesNow

CallsSpec == CallsInit /\ [][CallsNext]_callVars

-----------------------------------------------------------------------------
(* Properties.                                                             *)

\* The history variables keep their types.
CallsTypeOK ==
  /\ frames \in Seq(Addresses)
  /\ breaches \subseteq Breach

\* A program that keeps the convention never pushes past the call stack,
\* which CALL does not check (rbml.c:413): however many calls it has made and
\* ended before, the stale word they leave costs no place it may count on.
CallStackHolds ==
  [][ breaches' = {} /\ Calling /\ jump # 0 => Fits ]_callVars

\* END goes on after the CALL it belongs to, whatever was called and ended in
\* between and whatever the stale jump register held (rbml.c:409-432).
ReturnsToCaller ==
  [][ breaches' = {} /\ Ending /\ status' # "crashed" =>
        instructionCounter' = frames[Len(frames)] + 1 ]_callVars

\* The machine implements the nesting of calls.
CS == INSTANCE CallStack WITH
        pc <- instructionCounter, frames <- frames, broken <- breaches # {}

ImplementsCallStack == CS!Spec

\* "Return to the location of the last call instruction" (quickref.tex): the
\* convention does not ask a program to make no call from address zero.
EndReturnsToLastCall ==
  [][ breaches' \subseteq {"call at zero"} /\ Ending /\ status' # "crashed" =>
        instructionCounter' = frames[Len(frames)] + 1 ]_callVars

-----------------------------------------------------------------------------
(* The inductive invariant.                                                *)

\* While the convention holds, the jump register is the latest frame and the
\* call stack holds the others, on top of at most one stale word: the caller
\* an END left in the jump register when the last frame was ended.
FramesOnStack ==
  LET n == Len(frames)
  IN  /\ n <= SIZE_OF_CALLSTACK
      /\ \A i \in 1..n : frames[i] # 0
      /\ n = 0 => callStackCounter = 0
      /\ n > 0 => /\ jump = frames[n]
                  /\ callStackCounter \in {n - 1, n}
                  /\ \A i \in 1..(n - 1) : callStack[callStackCounter - n + i] = frames[i]

StackShape ==
  /\ callStackCounter \in Nat
  /\ DOMAIN callStack = 0..(SIZE_OF_CALLSTACK - 1)

CallsInv ==
  /\ ControlInv
  /\ StackShape
  /\ CallsTypeOK
  /\ breaches = {} => FramesOnStack
=============================================================================
