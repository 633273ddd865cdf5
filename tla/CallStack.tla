----------------------------- MODULE CallStack -----------------------------
(***************************************************************************)
(* What CALL and END promise a program (quickref.tex, langspec.tex "Call   *)
(* Instructions" and "END"): subroutines nest, and END goes on after the   *)
(* latest CALL that has not been ended.  The promise holds until the       *)
(* program breaks the calling convention.                                  *)
(***************************************************************************)
EXTENDS Integers, Sequences

VARIABLES
  pc,      \* the address of the next instruction
  frames,  \* the addresses of the CALLs not yet ended, the latest last
  broken   \* the convention has been broken

csvars == <<pc, frames, broken>>

Init ==
  /\ frames = <<>>
  /\ broken = FALSE
  /\ pc = 0

\* The next instruction after a call, or after any other step, is the
\* program's own affair.
Call == frames' = Append(frames, pc)

Return ==
  /\ frames # <<>>
  /\ frames' = SubSeq(frames, 1, Len(frames) - 1)
  /\ pc' = frames[Len(frames)] + 1

Step == frames' = frames

Next ==
  \/ ~broken /\ (Call \/ Return \/ Step) /\ broken' = FALSE
  \/ broken'

Spec == Init /\ [][Next]_csvars
=============================================================================
