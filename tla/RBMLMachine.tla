---------------------------- MODULE RBMLMachine ----------------------------
(***************************************************************************)
(* The RBML machine: the emulator of rbml.c.                               *)
(*                                                                         *)
(* One step of Next is one turn of the loop of main: fetch the word at     *)
(* instructionCounter, carry out its instruction, advance the counter and  *)
(* stop when it has left main memory.  Where the C program's behaviour is  *)
(* undefined (an address past main memory, a push past the call stack, a   *)
(* division that traps, closing a disk that is not open, a console read    *)
(* that fails) the step is a choice among the outcomes a build shows.      *)
(***************************************************************************)
EXTENDS RBMLWord, Sequences, FiniteSets

CONSTANTS
  SIZE_OF_MMEM,        \* words of main memory (option -m)
  SIZE_OF_CALLSTACK,   \* words of the call stack
  HEAP_SLACK,          \* words past the call stack a push can reach and survive
  MAX_STREAMS,           \* streams the C library lets the process open
  ProgramFiles,        \* the program files the emulator can be started on
  ConsoleNumbers,      \* words a user can type as a number
  ConsoleChars,        \* words a user can type as characters
  Garbage              \* words found in storage nobody has written

ASSUME MachineAssumption ==
  /\ SIZE_OF_MMEM \in 1..RBML_WORD_MAX
  /\ SIZE_OF_CALLSTACK \in Nat \ {0}
  /\ HEAP_SLACK \in Nat
  /\ MAX_STREAMS \in Nat
  /\ ConsoleNumbers \subseteq Word /\ ConsoleChars \subseteq Word
  /\ Garbage \subseteq Word /\ Garbage # {}
  /\ ProgramFiles # {} /\ \A f \in ProgramFiles : f.text \in Seq(Word)

VARIABLES
  status,              \* "start", "running", or how the process ended
  memory, callStack, callStackCounter, instructionCounter,
  reg, accumulator, jump,
  flags,               \* less, equal, greater, overflow, ioerr, divzero
  disk,                \* which disks have a stream in disk[]
  openStreams,         \* streams the process has open, reachable or not
  console,             \* the latest console output
  heap                 \* "damaged" once a write has missed its array

stack == <<callStack, callStackCounter>>
store == <<memory, heap>>
io == <<disk, openStreams, console>>
machine == <<store, stack, reg, accumulator, jump, flags, io>>
vars == <<status, instructionCounter, machine>>

Addresses == 0..(SIZE_OF_MMEM - 1)
Registers == 0..(NREGS - 1)

\* The first opcode of each family; the members that work on the
\* accumulator and on the jump register follow it.
OP == [STO |-> 0, LOD |-> 3, MOV |-> 6,
       CJNT |-> 16, DJNT |-> 19, COMP |-> 22, LSFT |-> 25, RSFT |-> 28,
       CMP |-> 32, CMPM |-> 35, BRAN |-> 48, CALL |-> 64, END |-> 79,
       ADD |-> 160, SUB |-> 163, DIV |-> 166, MULT |-> 169, MOD |-> 172,
       CRDM |-> 176, CRDR |-> 177, CRDA |-> 178, CRDJ |-> 179, WRIT |-> 180,
       FRDM |-> 183, PRES |-> 191, OPEN |-> 192, CLOS |-> 193,
       HERR |-> 238, HALT |-> 255]

-----------------------------------------------------------------------------
(* Starting up.                                                            *)

Init ==
  /\ status = "start"
  /\ memory = [a \in Addresses |-> 0]
  /\ callStack = [i \in 0..(SIZE_OF_CALLSTACK - 1) |-> 0]
  /\ callStackCounter = 0
  /\ instructionCounter = 0
  /\ reg = [r \in Registers |-> 0]
  /\ accumulator = 0
  /\ jump = 0
  /\ flags = [less |-> 0, equal |-> 0, greater |-> 0,
              overflow |-> 0, ioerr |-> 0, divzero |-> 0]
  /\ disk = [d \in Registers |-> "closed"]
  /\ openStreams = 0
  /\ console = [format |-> "none", word |-> 0]
  /\ heap = "intact"

\* A file that is missing, unreadable, or not a whole number of words.
Acceptable(f) == f.readable /\ f.oddBytes = 0

RejectProgram ==
  /\ status = "start"
  /\ \E f \in ProgramFiles : ~Acceptable(f)
  /\ status' = "exit1"
  /\ UNCHANGED <<instructionCounter, machine>>

\* What fread leaves in memory: as much of the program as fits.
Loaded(text) == [a \in Addresses |-> IF a < Len(text) THEN text[a + 1] ELSE memory[a]]

LoadProgram ==
  /\ status = "start"
  /\ \E f \in ProgramFiles : Acceptable(f) /\ memory' = Loaded(f.text)
  /\ status' = "running"
  /\ UNCHANGED <<instructionCounter, heap, stack, reg, accumulator, jump, flags, io>>

-----------------------------------------------------------------------------
(* The loop of main.                                                       *)

instructionRegister == memory[instructionCounter]
Opcode == RBML_OPCODE(instructionRegister)
Arg1 == RBML_ARG1(instructionRegister)
Arg2 == RBML_ARG2(instructionRegister)
Arg3 == RBML_ARG3(instructionRegister)

\* Slip: a comparison of signed numbers.
InRegionSigned(n) == n < SIZE_OF_MMEM

\* The counter is compared as an unsigned number: a negative one is outside.
InRegion(n) == n \in 0..(SIZE_OF_MMEM - 1)

\* Slip: the counter starts over instead of leaving memory.
ContinueAround(ic) ==
  /\ instructionCounter' = (ic + 1) % SIZE_OF_MMEM
  /\ status' = "running"

\* The end of a turn in which the instruction left the counter at ic.
Continue(ic) ==
  /\ instructionCounter' = Wrap(ic + 1)
  /\ status' = IF InRegion(Wrap(ic + 1)) THEN "running" ELSE "out_of_region"

Execute(opcode) == status = "running" /\ Opcode = opcode
Proceed == Continue(instructionCounter)

\* The k-th variant of a family: which word is its first operand, and which
\* register is its second.
Variants == 0..2
Operand(k) == CASE k = 0 -> reg[Arg1] [] k = 1 -> accumulator [] k = 2 -> jump
Other(k) == IF k = 0 THEN reg[Arg2] ELSE reg[Arg1]

\* The words a read of main memory can find at an address.
Found(a) == IF a \in Addresses THEN {memory[a]} ELSE Garbage

\* Slip: an address past the end is taken modulo the size.
WriteModulo(a, w) ==
  /\ memory' = [memory EXCEPT ![a % SIZE_OF_MMEM] = w]
  /\ heap' = heap

\* A write to main memory; past its end it hits some other object.
Write(a, w) ==
  /\ memory' = IF a \in Addresses THEN [memory EXCEPT ![a] = w] ELSE memory
  /\ heap' = IF a \in Addresses THEN heap ELSE "damaged"

Crash ==
  /\ status' = "crashed"
  /\ UNCHANGED <<instructionCounter, machine>>

-----------------------------------------------------------------------------
(* Storing, loading and moving words.                                      *)

\* w is put into register r, into the accumulator, or into the jump register.
Assign(k, r, w) ==
  /\ reg' = IF k = 0 THEN [reg EXCEPT ![r] = w] ELSE reg
  /\ accumulator' = IF k = 1 THEN w ELSE accumulator
  /\ jump' = IF k = 2 THEN w ELSE jump

Sto == \E k \in Variants :
  /\ Execute(OP.STO + k)
  /\ Write(Arg3, Operand(k))
  /\ Proceed
  /\ UNCHANGED <<stack, reg, accumulator, jump, flags, io>>

Lod == \E k \in Variants :
  /\ Execute(OP.LOD + k)
  /\ \E w \in Found(Arg3) : Assign(k, Arg1, w)
  /\ Proceed
  /\ UNCHANGED <<store, stack, flags, io>>

\* A non-zero first argument turns MOVA and MOVJ towards the register.
Mov == \E k \in Variants :
  /\ Execute(OP.MOV + k)
  /\ IF k = 0 \/ Arg1 # 0 THEN Assign(0, Arg2, Operand(k))
                          ELSE Assign(k, Arg2, reg[Arg2])
  /\ Proceed
  /\ UNCHANGED <<store, stack, flags, io>>

-----------------------------------------------------------------------------
(* Console and disks.                                                      *)

\* The words cread can return; when stdin ends or does not match, the
\* variable it returns was never written.
Typed == (IF Arg1 # 0 THEN ConsoleChars ELSE ConsoleNumbers) \cup Garbage

Crdm ==
  /\ Execute(OP.CRDM)
  /\ \E w \in Typed : Write(Arg3, w)
  /\ Proceed
  /\ UNCHANGED <<stack, reg, accumulator, jump, flags, io>>

Crd == \E k \in Variants :
  /\ Execute(OP.CRDR + k)
  /\ \E w \in Typed : Assign(k, Arg2, w)
  /\ Proceed
  /\ UNCHANGED <<store, stack, flags, io>>

Writ == \E k \in Variants :
  /\ Execute(OP.WRIT + k)
  /\ console' = [format |-> IF Arg1 # 0 THEN "characters" ELSE "number",
                 word |-> IF k = 0 THEN reg[Arg2] ELSE Operand(k)]
  /\ Proceed
  /\ UNCHANGED <<store, stack, reg, accumulator, jump, flags, disk, openStreams>>

\* disk[] is overwritten whatever it held: an open stream is then leaked.
Open ==
  /\ Execute(OP.OPEN)
  /\ \/ /\ openStreams < MAX_STREAMS
        /\ disk' = [disk EXCEPT ![Arg1] = "open"]
        /\ openStreams' = openStreams + 1
        /\ flags' = [flags EXCEPT !.ioerr = 0]
     \/ /\ disk' = [disk EXCEPT ![Arg1] = "closed"]
        /\ flags' = [flags EXCEPT !.ioerr = 1]
        /\ UNCHANGED openStreams
  /\ Proceed
  /\ UNCHANGED <<store, stack, reg, accumulator, jump, console>>

\* Slip: the stream is forgotten without being closed.
ClosForgets ==
  /\ Execute(OP.CLOS)
  /\ disk[Arg1] = "open"
  /\ disk' = [disk EXCEPT ![Arg1] = "closed"]
  /\ Proceed
  /\ UNCHANGED <<store, stack, reg, accumulator, jump, flags, openStreams, console>>

Clos ==
  /\ Execute(OP.CLOS)
  /\ disk[Arg1] = "open"
  /\ disk' = [disk EXCEPT ![Arg1] = "closed"]
  /\ openStreams' = openStreams - 1
  /\ Proceed
  /\ UNCHANGED <<store, stack, reg, accumulator, jump, flags, console>>

\* FRDM to PRES print that they are not implemented.
Unimplemented ==
  /\ \E opcode \in OP.FRDM..OP.PRES : Execute(opcode)
  /\ Proceed
  /\ UNCHANGED machine

-----------------------------------------------------------------------------
(* Arithmetic, logic and comparison.                                       *)

Flag(b) == IF b THEN 1 ELSE 0

Accumulate(w) == accumulator' = w /\ UNCHANGED <<store, stack, reg, jump, io>>

Add == \E k \in Variants :
  /\ Execute(OP.ADD + k)
  /\ Accumulate(Wrap(Operand(k) + Other(k)))
  /\ flags' = [flags EXCEPT !.overflow = Flag(AddOverflows(Operand(k), Other(k)))]
  /\ Proceed

Sub == \E k \in Variants :
  /\ Execute(OP.SUB + k)
  /\ Accumulate(Wrap(Operand(k) - Other(k)))
  /\ flags' = [flags EXCEPT !.overflow = Flag(SubOverflows(Operand(k), Other(k)))]
  /\ Proceed

Mult == \E k \in Variants :
  /\ Execute(OP.MULT + k)
  /\ Accumulate(Wrap(Operand(k) * Other(k)))
  /\ flags' = [flags EXCEPT !.overflow = Flag(MultOverflows(Operand(k), Other(k)))]
  /\ Proceed

\* Division and modulus; dividing by zero gives zero.
Quotient(k) == IF Other(k) = 0 THEN 0 ELSE Wrap(CDiv(Operand(k), Other(k)))
Remainder(k) == IF Other(k) = 0 THEN 0 ELSE Wrap(CMod(Operand(k), Other(k)))

Div == \E k \in Variants :
  /\ \/ Execute(OP.DIV + k) /\ Accumulate(Quotient(k))
     \/ Execute(OP.MOD + k) /\ Accumulate(Remainder(k))
  /\ flags' = [flags EXCEPT !.divzero = Flag(Other(k) = 0)]
  /\ Proceed

Logic == \E k \in Variants :
  /\ \/ Execute(OP.CJNT + k) /\ Accumulate(BitAnd(Operand(k), Other(k)))
     \/ Execute(OP.DJNT + k) /\ Accumulate(BitOr(Operand(k), Other(k)))
     \/ Execute(OP.COMP + k) /\ Accumulate(BitNot(Operand(k)))
  /\ Proceed
  /\ UNCHANGED flags

Shift == \E k \in Variants :
  /\ \/ /\ Execute(OP.LSFT + k)
        /\ \E n \in ShiftCounts(Other(k)) : Accumulate(ShiftLeft(Operand(k), n))
     \/ /\ Execute(OP.RSFT + k)
        /\ \E n \in ShiftCounts(Other(k)) : Accumulate(ShiftRight(Operand(k), n))
  /\ Proceed
  /\ UNCHANGED flags

Compared(a, b) ==
  [flags EXCEPT !.less = Flag(a < b), !.equal = Flag(a = b), !.greater = Flag(a > b)]

Cmp ==
  /\ \/ \E k \in Variants :
          Execute(OP.CMP + k) /\ flags' = Compared(Operand(k), Other(k))
     \/ /\ Execute(OP.CMPM)
        /\ \E w \in Found(Arg3) : flags' = Compared(reg[Arg1], w)
  /\ Proceed
  /\ UNCHANGED <<store, stack, reg, accumulator, jump, io>>

-----------------------------------------------------------------------------
(* Branches, calls and stopping.                                           *)

Less == flags.less = 1
Equal == flags.equal = 1
Greater == flags.greater = 1

\* BRAN, BRGT, BRLT, BREQ, BRGE, BRLE
BranchTaken == <<TRUE, Greater, Less, Equal, Greater \/ Equal, Greater \/ Less>>

Branch == \E k \in 0..5 :
  /\ Execute(OP.BRAN + k)
  /\ Continue(IF BranchTaken[k + 1] THEN Arg3 - 1 ELSE instructionCounter)
  /\ UNCHANGED machine

\* CALL, CAGT, CALT, CAEQ, CAGE, CALE
CallTaken == <<TRUE, Greater, Less, Equal, Greater \/ Equal, Less \/ Equal>>

Fits == callStackCounter < SIZE_OF_CALLSTACK

\* Slip: the next push will overwrite this one.
SaveJumpInPlace ==
  IF jump = 0 THEN UNCHANGED <<store, stack>>
  ELSE /\ Fits
       /\ callStack' = [callStack EXCEPT ![callStackCounter] = jump]
       /\ UNCHANGED <<callStackCounter, store>>

\* A jump register of zero means that there is no caller to save.  A push
\* past the call stack lands in the allocator's bookkeeping or in main
\* memory, which lies next to it.
SaveJump ==
  \/ /\ jump = 0
     /\ UNCHANGED <<store, stack>>
  \/ /\ jump # 0 /\ Fits
     /\ callStack' = [callStack EXCEPT ![callStackCounter] = jump]
     /\ callStackCounter' = callStackCounter + 1
     /\ UNCHANGED store
  \/ /\ jump # 0 /\ ~Fits
     /\ callStackCounter < SIZE_OF_CALLSTACK + HEAP_SLACK
     /\ callStackCounter' = callStackCounter + 1
     /\ \/ UNCHANGED memory
        \/ \E a \in Addresses : memory' = [memory EXCEPT ![a] = jump]
     /\ heap' = "damaged"
     /\ UNCHANGED callStack

\* Slip: the return address is that of the word after the call, to which END
\* adds one once more.
CallSavesNext == \E k \in 0..5 :
  /\ Execute(OP.CALL + k)
  /\ \/ /\ CallTaken[k + 1]
        /\ SaveJump
        /\ jump' = instructionCounter + 1
        /\ Continue(Arg3 - 1)
     \/ /\ ~CallTaken[k + 1]
        /\ Proceed
        /\ UNCHANGED <<store, stack, jump>>
  /\ UNCHANGED <<reg, accumulator, flags, io>>

Call == \E k \in 0..5 :
  /\ Execute(OP.CALL + k)
  /\ \/ /\ CallTaken[k + 1]
        /\ SaveJump
        /\ jump' = instructionCounter
        /\ Continue(Arg3 - 1)
     \/ /\ ~CallTaken[k + 1]
        /\ Proceed
        /\ UNCHANGED <<store, stack, jump>>
  /\ UNCHANGED <<reg, accumulator, flags, io>>

\* Slip: the word taken from the stack is left on it.
RestoreLeavesWord ==
  /\ jump' = callStack[IF callStackCounter = 0 THEN 0 ELSE callStackCounter - 1]
  /\ UNCHANGED <<callStack, callStackCounter>>

\* The caller's caller comes back from the call stack; below its bottom the
\* bottom word itself is taken, and cleared.
RestoreJump ==
  IF callStackCounter = 0
  THEN /\ jump' = callStack[0]
       /\ callStack' = [callStack EXCEPT ![0] = 0]
       /\ UNCHANGED callStackCounter
  ELSE /\ callStackCounter' = callStackCounter - 1
       /\ jump' \in IF callStackCounter' < SIZE_OF_CALLSTACK
                    THEN {callStack[callStackCounter']}
                    ELSE Garbage \cup {memory[a] : a \in Addresses}
       /\ UNCHANGED callStack

\* Slip: the jump register is restored before it is used.
EndRestoresFirst ==
  /\ Execute(OP.END)
  /\ RestoreJump
  /\ Continue(jump')
  /\ UNCHANGED <<store, reg, accumulator, flags, io>>

End ==
  /\ Execute(OP.END)
  /\ RestoreJump
  /\ Continue(jump)
  /\ UNCHANGED <<store, reg, accumulator, flags, io>>

Halt ==
  /\ \/ Execute(OP.HALT) /\ status' = "exit0"
     \/ Execute(OP.HERR) /\ status' = "exit2"
  /\ UNCHANGED <<instructionCounter, machine>>

Known ==
  OP.STO..(OP.MOV + 2) \cup OP.CJNT..(OP.RSFT + 2) \cup OP.CMP..OP.CMPM
    \cup OP.BRAN..(OP.BRAN + 5) \cup OP.CALL..(OP.CALL + 5) \cup {OP.END}
    \cup OP.ADD..(OP.MOD + 2) \cup OP.CRDM..OP.CLOS \cup {OP.HERR, OP.HALT}

\* An opcode without an entry in the table: a message, and the next word.
UnknownOpcode ==
  /\ status = "running"
  /\ Opcode \notin Known
  /\ Proceed
  /\ UNCHANGED machine

-----------------------------------------------------------------------------
(* Undefined behaviour that ends the process.                              *)

WildAddress ==
  /\ \/ Opcode \in OP.STO..(OP.LOD + 2)
     \/ Opcode \in {OP.CMPM, OP.CRDM}
  /\ Arg3 \notin Addresses

DivisionTraps == \E k \in Variants :
  \/ Opcode \in {OP.DIV + k, OP.MOD + k} /\ DivTraps(Operand(k), Other(k))
  \/ Opcode = OP.MULT + k /\ MultTraps(Operand(k), Other(k))

ClosesNothing == Opcode = OP.CLOS /\ disk[Arg1] = "closed"

PushesPastEnd == \E k \in 0..5 :
  Opcode = OP.CALL + k /\ CallTaken[k + 1] /\ jump # 0 /\ ~Fits

\* stdio and free() trip over a heap that a wild write has damaged.
UsesDamagedHeap ==
  /\ heap = "damaged"
  /\ Opcode \in OP.CRDM..OP.CLOS \cup {OP.HALT, OP.HERR}

UndefinedBehaviour ==
  WildAddress \/ DivisionTraps \/ ClosesNothing \/ PushesPastEnd \/ UsesDamagedHeap

Fault ==
  /\ \/ status = "running" /\ UndefinedBehaviour
     \/ status = "out_of_region" /\ heap = "damaged"
  /\ Crash

\* Out of the loop, main frees its arrays and returns.
Return ==
  /\ status = "out_of_region"
  /\ status' = "returned"
  /\ UNCHANGED <<instructionCounter, machine>>

Ended ==
  /\ status \in {"exit0", "exit1", "exit2", "returned", "crashed"}
  /\ UNCHANGED vars

-----------------------------------------------------------------------------

\* Turns of the loop that wait for nobody; console input waits for the user.
Compute ==
  \/ Sto \/ Lod \/ Mov \/ Writ \/ Open \/ Clos \/ Unimplemented
  \/ Add \/ Sub \/ Mult \/ Div \/ Logic \/ Shift \/ Cmp
  \/ Branch \/ Call \/ End \/ Halt \/ UnknownOpcode

Next ==
  RejectProgram \/ LoadProgram \/ Compute \/ Crdm \/ Crd \/ Fault \/ Return \/ Ended

Spec == Init /\ [][Next]_vars

\* The emulator is a single loop: once a program is loaded, it keeps running as
\* long as it can.
FairSpec == Spec /\ WF_vars(Compute \/ Fault \/ Return)
-----------------------------------------------------------------------------
(* Properties.                                                             *)

\* Every variable keeps its type: words are words, flags are 0 or 1, and
\* each array keeps its bounds (the globals of rbml.c:24-57).
TypeOK ==
  /\ status \in {"start", "running", "out_of_region", "returned",
                 "exit0", "exit1", "exit2", "crashed"}
  /\ memory \in [Addresses -> Word]
  /\ callStack \in [0..(SIZE_OF_CALLSTACK - 1) -> Word]
  /\ callStackCounter \in 0..(SIZE_OF_CALLSTACK + HEAP_SLACK)
  /\ instructionCounter \in Word
  /\ reg \in [Registers -> Word]
  /\ accumulator \in Word /\ jump \in Word
  /\ flags \in [{"less", "equal", "greater", "overflow", "ioerr", "divzero"} -> {0, 1}]
  /\ disk \in [Registers -> {"open", "closed"}]
  /\ openStreams \in 0..MAX_STREAMS
  /\ console \in [format : {"none", "number", "characters"}, word : Word]
  /\ heap \in {"intact", "damaged"}

\* The loop of main only fetches from main memory, whatever address a branch,
\* a call or an END with an arbitrary jump register produced (rbml.c:189-200).
FetchInRegion == status = "running" => instructionCounter \in Addresses

\* The streams that are still open and that no disk names.
LostStreams == openStreams - Cardinality({d \in Registers : disk[d] = "open"})

\* The inductive invariant of the types: no disk names a stream that is not
\* open (rbml.c:269-281), or closing it would take openStreams below zero.
MachineInv == TypeOK /\ LostStreams >= 0

\* The part of the control state FetchInRegion rests on.
ControlInv ==
  /\ FetchInRegion
  /\ status = "start" => instructionCounter = 0

\* A running program's words change only under a store or a console read that
\* addresses them, as long as the call stack has not been outgrown
\* (rbml.c:211-213, 264 and 413).
OnlyStoresChangeMemory ==
  [][ status = "running" /\ callStackCounter < SIZE_OF_CALLSTACK =>
        \A a \in Addresses : memory'[a] # memory[a] =>
          a = Arg3 /\ Opcode \in OP.STO..(OP.STO + 2) \cup {OP.CRDM} ]_vars

\* The overflow flag after an addition says whether the sum fits in a word,
\* and the accumulator then is that sum (rbml.c:292-304).
AdditionIsExact ==
  [][ \A k \in Variants : Execute(OP.ADD + k) =>
        LET sum == Operand(k) + Other(k)
        IN  IF flags'.overflow = 0 THEN accumulator' = sum ELSE sum \notin Word ]_vars

\* A stream is lost, still open but named by no disk, only when OPEN is
\* repeated on a disk that is already open (rbml.c:269-281).
LeakOnlyByReopening ==
  [][ LostStreams' # LostStreams =>
        LostStreams' > LostStreams /\ Opcode = OP.OPEN /\ disk[Arg1] = "open" ]_vars

\* A program that runs into words that are all zero reaches the end of memory
\* and leaves the loop: each zero word is a store to address 0, which is behind it
\* (rbml.c:187-204 and 211).
InZeroTail ==
  status = "running" /\ \A a \in Addresses : a >= instructionCounter => memory[a] = 0

ZeroTailEnds == InZeroTail ~> status = "out_of_region"

-----------------------------------------------------------------------------
(* What langspec.tex says of MULT, which the code does otherwise.          *)

\* MULT "will not be able to change the state of the machine in any way other
\* than by changing the contents of the accumulator, and setting the overflow
\* flag" (langspec.tex:1735-1737): the process does not end in it.
MultiplicationGoesOn ==
  [][ \A k \in Variants : Execute(OP.MULT + k) => status' # "crashed" ]_vars

=============================================================================
