------------------------- MODULE RBMLMachine_proofs -------------------------
(***************************************************************************)
(* The emulator, for every program and every size: where it fetches from,  *)
(* what its variables hold, and which steps change memory, the accumulator *)
(* and the streams; and that END returns to its CALL, for every program,   *)
(* memory and call stack.                                                  *)
(***************************************************************************)
EXTENDS RBMLCalls, RBMLWord_proofs, SequenceTheorems, FiniteSetTheorems

\* A turn of the loop that ends by advancing the counter leaves it in main
\* memory or leaves the loop.
LEMMA ContinueInRegion ==
  ASSUME NEW ic, Continue(ic)
  PROVE  ControlInv'
  BY DEF Continue, InRegion, ControlInv, FetchInRegion, Addresses

\* Every turn keeps the control state.
LEMMA ComputeControl ==
  ASSUME ControlInv, status = "running", Compute \/ Crdm \/ Crd
  PROVE  ControlInv'
  <1>1. CASE Sto
    BY <1>1, ContinueInRegion DEF Sto, Proceed
  <1>2. CASE Lod
    BY <1>2, ContinueInRegion DEF Lod, Proceed
  <1>3. CASE Mov
    BY <1>3, ContinueInRegion DEF Mov, Proceed
  <1>4. CASE Writ
    BY <1>4, ContinueInRegion DEF Writ, Proceed
  <1>5. CASE Open
    BY <1>5, ContinueInRegion DEF Open, Proceed
  <1>6. CASE Clos
    BY <1>6, ContinueInRegion DEF Clos, Proceed
  <1>7. CASE Unimplemented
    BY <1>7, ContinueInRegion DEF Unimplemented, Proceed
  <1>8. CASE Add
    BY <1>8, ContinueInRegion DEF Add, Proceed
  <1>9. CASE Sub
    BY <1>9, ContinueInRegion DEF Sub, Proceed
  <1>10. CASE Mult
    BY <1>10, ContinueInRegion DEF Mult, Proceed
  <1>11. CASE Div
    BY <1>11, ContinueInRegion DEF Div, Proceed
  <1>12. CASE Logic
    BY <1>12, ContinueInRegion DEF Logic, Proceed
  <1>13. CASE Shift
    BY <1>13, ContinueInRegion DEF Shift, Proceed
  <1>14. CASE Cmp
    BY <1>14, ContinueInRegion DEF Cmp, Proceed
  <1>15. CASE Branch
    BY <1>15, ContinueInRegion DEF Branch
  <1>16. CASE Call
    BY <1>16, ContinueInRegion DEF Call, Proceed
  <1>17. CASE End
    BY <1>17, ContinueInRegion DEF End
  <1>18. CASE Halt
    BY <1>18 DEF Halt, ControlInv, FetchInRegion
  <1>19. CASE UnknownOpcode
    BY <1>19, ContinueInRegion DEF UnknownOpcode, Proceed
  <1>20. CASE Crdm
    BY <1>20, ContinueInRegion DEF Crdm, Proceed
  <1>21. CASE Crd
    BY <1>21, ContinueInRegion DEF Crd, Proceed
  <1> QED
    BY <1>1, <1>2, <1>3, <1>4, <1>5, <1>6, <1>7, <1>8, <1>9, <1>10, <1>11,
       <1>12, <1>13, <1>14, <1>15, <1>16, <1>17, <1>18, <1>19, <1>20, <1>21
    DEF Compute

\* Every turn starts in a running machine.
LEMMA ComputeRuns ==
  ASSUME Compute \/ Crdm \/ Crd
  PROVE  status = "running"
  BY DEF Compute, Sto, Lod, Mov, Writ, Open, Clos, Unimplemented, Add, Sub, Mult,
         Div, Logic, Shift, Cmp, Branch, Call, End, Halt, UnknownOpcode, Crdm, Crd,
         Execute

\* Every step keeps the control where it belongs.
LEMMA ControlStep == ControlInv /\ [Next]_vars => ControlInv'
  <1> SUFFICES ASSUME ControlInv, [Next]_vars
               PROVE  ControlInv'
    OBVIOUS
  <1>1. CASE Compute \/ Crdm \/ Crd
    BY <1>1, ComputeControl, ComputeRuns
  <1>2. CASE LoadProgram
    BY <1>2, MachineAssumption DEF LoadProgram, ControlInv, FetchInRegion, Addresses
  <1>3. CASE RejectProgram
    BY <1>3 DEF RejectProgram, ControlInv, FetchInRegion
  <1>4. CASE Fault
    BY <1>4 DEF Fault, Crash, ControlInv, FetchInRegion
  <1>5. CASE Return
    BY <1>5 DEF Return, ControlInv, FetchInRegion
  <1>6. CASE Ended \/ UNCHANGED vars
    BY <1>6 DEF Ended, vars, ControlInv, FetchInRegion
  <1> QED
    BY <1>1, <1>2, <1>3, <1>4, <1>5, <1>6 DEF Next

\* Whatever program is loaded and whatever its branches, calls and jump
\* register do, a word is only ever fetched from main memory.
THEOREM FetchesInRegion == Spec => []FetchInRegion
  <1>1. Init => ControlInv
    BY DEF Init, ControlInv, FetchInRegion
  <1>2. ControlInv => FetchInRegion
    BY DEF ControlInv
  <1> QED
    BY <1>1, <1>2, ControlStep, PTL DEF Spec

-----------------------------------------------------------------------------
(* The types.  MachineInv is inductive together with ControlInv: a word is *)
(* fetched from memory, and so its fields name registers.                  *)

StoreOK == memory \in [Addresses -> Word] /\ heap \in {"intact", "damaged"}

StackOK ==
  /\ callStack \in [0..(SIZE_OF_CALLSTACK - 1) -> Word]
  /\ callStackCounter \in 0..(SIZE_OF_CALLSTACK + HEAP_SLACK)

RegistersOK == reg \in [Registers -> Word] /\ accumulator \in Word

FlagsOK ==
  flags \in [{"less", "equal", "greater", "overflow", "ioerr", "divzero"} -> {0, 1}]

StreamsOK ==
  /\ disk \in [Registers -> {"open", "closed"}]
  /\ openStreams \in 0..MAX_STREAMS
  /\ LostStreams >= 0

ConsoleOK == console \in [format : {"none", "number", "characters"}, word : Word]

CounterOK ==
  /\ status \in {"start", "running", "out_of_region", "returned",
                 "exit0", "exit1", "exit2", "crashed"}
  /\ instructionCounter \in Word

\* The invariant in parts, one for each group of variables.
LEMMA Parts ==
  /\ MachineInv <=> /\ StoreOK /\ StackOK /\ RegistersOK /\ jump \in Word /\ FlagsOK
                    /\ StreamsOK /\ ConsoleOK /\ CounterOK
  /\ MachineInv' <=> /\ StoreOK' /\ StackOK' /\ RegistersOK' /\ jump' \in Word /\ FlagsOK'
                     /\ StreamsOK' /\ ConsoleOK' /\ CounterOK'
  BY DEF MachineInv, TypeOK, StoreOK, StackOK, RegistersOK, FlagsOK, StreamsOK, ConsoleOK,
         CounterOK

\* A part whose variables stay as they are stays true.
LEMMA PartsStay ==
  /\ UNCHANGED store /\ StoreOK => StoreOK'
  /\ UNCHANGED stack /\ StackOK => StackOK'
  /\ UNCHANGED reg /\ UNCHANGED accumulator /\ RegistersOK => RegistersOK'
  /\ UNCHANGED flags /\ FlagsOK => FlagsOK'
  /\ UNCHANGED <<disk, openStreams>> /\ StreamsOK => StreamsOK'
  /\ UNCHANGED console /\ ConsoleOK => ConsoleOK'
  BY DEF store, stack, StoreOK, StackOK, RegistersOK, FlagsOK, StreamsOK, LostStreams, ConsoleOK

\* What a turn of the loop reads: registers, addresses and words.
Reads ==
  /\ instructionRegister \in Word
  /\ Arg1 \in Registers /\ Arg2 \in Registers /\ Arg3 \in Int
  /\ \A k \in Variants : Operand(k) \in Word /\ Other(k) \in Word
  /\ Found(Arg3) \subseteq Word /\ Typed \subseteq Word

\* A turn reads words only.
LEMMA TurnReads ==
  ASSUME MachineInv, ControlInv, status = "running"
  PROVE  Reads
  <1>1. instructionCounter \in Addresses /\ instructionRegister \in Word
    BY DEF ControlInv, FetchInRegion, MachineInv, TypeOK, instructionRegister
  <1>2. Arg1 \in Registers /\ Arg2 \in Registers /\ Arg3 \in Int
    BY <1>1, Fields DEF Arg1, Arg2, Arg3, Registers
  <1>3. ASSUME NEW k \in Variants PROVE Operand(k) \in Word /\ Other(k) \in Word
    BY <1>2 DEF MachineInv, TypeOK, Operand, Other, Variants
  <1>4. Found(Arg3) \subseteq Word /\ Typed \subseteq Word
    BY MachineAssumption DEF MachineInv, TypeOK, Found, Typed
  <1> QED
    BY <1>1, <1>2, <1>3, <1>4 DEF Reads

\* The end of a turn leaves a counter that is a word.
LEMMA ContinueTypes ==
  ASSUME NEW ic \in Int, Continue(ic)
  PROVE  CounterOK'
  BY WrapIsWord DEF Continue, CounterOK

\* The counter of a turn that neither branches nor returns.
LEMMA ProceedTypes ==
  ASSUME CounterOK, Proceed
  PROVE  CounterOK'
  BY ContinueTypes, WordIsInt DEF Proceed, CounterOK

\* A write puts a word into memory or beside it.
LEMMA WriteTypes ==
  ASSUME StoreOK, NEW a, NEW w \in Word, Write(a, w)
  PROVE  StoreOK'
  BY DEF StoreOK, Write

\* An assignment puts a word into a register, the accumulator or jump.
LEMMA AssignTypes ==
  ASSUME RegistersOK, jump \in Word, NEW k, NEW r, NEW w \in Word, Assign(k, r, w)
  PROVE  RegistersOK' /\ jump' \in Word
  BY DEF RegistersOK, Assign

\* An arithmetic instruction leaves a word in the accumulator and nothing else
\* but flags.
LEMMA AccumulateTypes ==
  ASSUME StoreOK, StackOK, RegistersOK, jump \in Word, StreamsOK, ConsoleOK,
         NEW w \in Word, Accumulate(w)
  PROVE  /\ StoreOK' /\ StackOK' /\ RegistersOK' /\ jump' \in Word /\ StreamsOK' /\ ConsoleOK'
  <1>1. UNCHANGED <<store, stack, disk, openStreams, console, reg, jump>> /\ accumulator' = w
    BY DEF Accumulate, io
  <1>2. RegistersOK' /\ jump' \in Word
    BY <1>1 DEF RegistersOK
  <1> QED
    BY <1>1, <1>2, PartsStay

\* A comparison or an arithmetic instruction sets flags to 0 or 1.
LEMMA FlagTypes ==
  ASSUME FlagsOK, NEW b \in BOOLEAN
  PROVE  /\ flags' = [flags EXCEPT !.overflow = Flag(b)] => FlagsOK'
         /\ flags' = [flags EXCEPT !.divzero = Flag(b)] => FlagsOK'
  BY DEF FlagsOK, Flag

-----------------------------------------------------------------------------
(* Disks and streams.                                                      *)

OpenDisks == {d \in Registers : disk[d] = "open"}

\* The disks are finitely many, and each of them is open or not.
LEMMA DisksAreFinite ==
  ASSUME StreamsOK
  PROVE  /\ IsFiniteSet(OpenDisks) /\ Cardinality(OpenDisks) \in Nat
         /\ openStreams \in Nat /\ MAX_STREAMS \in Nat
         /\ LostStreams = openStreams - Cardinality(OpenDisks)
  <1>1. IsFiniteSet(Registers)
    BY FS_Interval, WordAssumption DEF Registers
  <1>2. IsFiniteSet(OpenDisks)
    BY <1>1, FS_Subset DEF OpenDisks
  <1> QED
    BY <1>2, FS_CardinalityType, MachineAssumption DEF StreamsOK, LostStreams, OpenDisks

\* OPEN with a stream to be had: one stream more, lost if the disk was open.
LEMMA OpenSucceeds ==
  ASSUME StreamsOK, NEW d \in Registers, openStreams < MAX_STREAMS,
         disk' = [disk EXCEPT ![d] = "open"], openStreams' = openStreams + 1
  PROVE  /\ StreamsOK'
         /\ LostStreams' = IF disk[d] = "open" THEN LostStreams + 1 ELSE LostStreams
  <1>1. IsFiniteSet(OpenDisks) /\ OpenDisks' = OpenDisks \cup {d}
        /\ disk' \in [Registers -> {"open", "closed"}]
    BY DisksAreFinite DEF StreamsOK, OpenDisks
  <1>2. LostStreams' = openStreams' - Cardinality(OpenDisks')
    BY DEF LostStreams, OpenDisks
  <1>3. Cardinality(OpenDisks') = IF disk[d] = "open" THEN Cardinality(OpenDisks)
                                                     ELSE Cardinality(OpenDisks) + 1
    BY <1>1, FS_AddElement DEF OpenDisks
  <1>4. LostStreams' = IF disk[d] = "open" THEN LostStreams + 1 ELSE LostStreams
    BY <1>2, <1>3, DisksAreFinite
  <1> QED
    BY <1>1, <1>4, DisksAreFinite DEF StreamsOK

\* A disk that is forgotten or closed: its stream is lost, or given back.
LEMMA DiskCloses ==
  ASSUME StreamsOK, NEW d \in Registers, disk' = [disk EXCEPT ![d] = "closed"],
         \/ openStreams' = openStreams
         \/ disk[d] = "open" /\ openStreams' = openStreams - 1
  PROVE  /\ StreamsOK'
         /\ LostStreams' = IF openStreams' = openStreams /\ disk[d] = "open"
                           THEN LostStreams + 1 ELSE LostStreams
  <1>1. IsFiniteSet(OpenDisks) /\ OpenDisks' = OpenDisks \ {d}
        /\ disk' \in [Registers -> {"open", "closed"}]
    BY DisksAreFinite DEF StreamsOK, OpenDisks
  <1>2. LostStreams' = openStreams' - Cardinality(OpenDisks')
    BY DEF LostStreams, OpenDisks
  <1>3. Cardinality(OpenDisks') = IF disk[d] = "open" THEN Cardinality(OpenDisks) - 1
                                                     ELSE Cardinality(OpenDisks)
    BY <1>1, FS_RemoveElement DEF OpenDisks
  <1>4. LostStreams' = IF openStreams' = openStreams /\ disk[d] = "open"
                       THEN LostStreams + 1 ELSE LostStreams
    BY <1>2, <1>3, DisksAreFinite
  <1>5. Cardinality(OpenDisks') \in Nat
    BY <1>1, FS_RemoveElement, FS_CardinalityType
  <1>6. openStreams' \in 0..MAX_STREAMS
    BY <1>2, <1>3, <1>4, <1>5, DisksAreFinite DEF StreamsOK
  <1> QED
    BY <1>1, <1>4, <1>6, DisksAreFinite DEF StreamsOK

-----------------------------------------------------------------------------
(* Every instruction keeps the types.                                      *)

\* The instructions that store, load, move, read and write words.
LEMMA TransferTypes ==
  ASSUME MachineInv, Reads, Sto \/ Lod \/ Mov \/ Crdm \/ Crd \/ Writ
  PROVE  MachineInv'
  <1> USE Parts DEF Reads
  <1>1. CASE Sto
    <2>1. PICK k \in Variants : Write(Arg3, Operand(k)) /\ Proceed
                                /\ UNCHANGED <<stack, reg, accumulator, jump, flags, io>>
      BY <1>1 DEF Sto
    <2> QED
      BY <2>1, WriteTypes, ProceedTypes, PartsStay DEF io
  <1>2. CASE Lod
    <2>1. PICK k \in Variants, w \in Found(Arg3) :
            Assign(k, Arg1, w) /\ Proceed /\ UNCHANGED <<store, stack, flags, io>>
      BY <1>2 DEF Lod
    <2> QED
      BY <2>1, AssignTypes, ProceedTypes, PartsStay DEF io
  <1>3. CASE Mov
    <2>1. PICK k \in Variants :
            /\ IF k = 0 \/ Arg1 # 0 THEN Assign(0, Arg2, Operand(k))
                                    ELSE Assign(k, Arg2, reg[Arg2])
            /\ Proceed /\ UNCHANGED <<store, stack, flags, io>>
      BY <1>3 DEF Mov
    <2>2. reg[Arg2] \in Word
      BY DEF RegistersOK
    <2>3. RegistersOK' /\ jump' \in Word
      BY <2>1, <2>2, AssignTypes
    <2> QED
      BY <2>1, <2>3, ProceedTypes, PartsStay DEF io
  <1>4. CASE Crdm
    <2>1. PICK w \in Typed : Write(Arg3, w) /\ Proceed
                             /\ UNCHANGED <<stack, reg, accumulator, jump, flags, io>>
      BY <1>4 DEF Crdm
    <2> QED
      BY <2>1, WriteTypes, ProceedTypes, PartsStay DEF io
  <1>5. CASE Crd
    <2>1. PICK k \in Variants, w \in Typed :
            Assign(k, Arg2, w) /\ Proceed /\ UNCHANGED <<store, stack, flags, io>>
      BY <1>5 DEF Crd
    <2> QED
      BY <2>1, AssignTypes, ProceedTypes, PartsStay DEF io
  <1>6. CASE Writ
    <2>1. PICK k \in Variants :
            /\ console' = [format |-> IF Arg1 # 0 THEN "characters" ELSE "number",
                           word |-> IF k = 0 THEN reg[Arg2] ELSE Operand(k)]
            /\ Proceed
            /\ UNCHANGED <<store, stack, reg, accumulator, jump, flags, disk, openStreams>>
      BY <1>6 DEF Writ
    <2>2. reg[Arg2] \in Word
      BY DEF RegistersOK
    <2>3. ConsoleOK'
      BY <2>1, <2>2 DEF ConsoleOK
    <2> QED
      BY <2>1, <2>3, ProceedTypes, PartsStay
  <1> QED
    BY <1>1, <1>2, <1>3, <1>4, <1>5, <1>6

\* The instructions about disks.
LEMMA DiskTypes ==
  ASSUME MachineInv, Reads, Open \/ Clos
  PROVE  MachineInv'
  <1> USE Parts DEF Reads
  <1>1. CASE Open
    <2>1. Proceed /\ UNCHANGED <<store, stack, reg, accumulator, jump, console>>
      BY <1>1 DEF Open
    <2>2. FlagsOK'
      BY <1>1 DEF Open, FlagsOK
    <2>3. \/ /\ openStreams < MAX_STREAMS /\ disk' = [disk EXCEPT ![Arg1] = "open"]
             /\ openStreams' = openStreams + 1
          \/ /\ disk' = [disk EXCEPT ![Arg1] = "closed"]
             /\ openStreams' = openStreams
      BY <1>1 DEF Open
    <2>4. StreamsOK'
      BY <2>3, OpenSucceeds, DiskCloses
    <2> QED
      BY <2>1, <2>2, <2>4, ProceedTypes, PartsStay
  <1>2. CASE Clos
    <2>1. /\ disk[Arg1] = "open" /\ disk' = [disk EXCEPT ![Arg1] = "closed"]
          /\ openStreams' = openStreams - 1 /\ Proceed
          /\ UNCHANGED <<store, stack, reg, accumulator, jump, flags, console>>
      BY <1>2 DEF Clos
    <2>2. StreamsOK'
      BY <2>1, DiskCloses
    <2> QED
      BY <2>1, <2>2, ProceedTypes, PartsStay
  <1> QED
    BY <1>1, <1>2

\* Addition, subtraction and multiplication.
LEMMA ArithmeticTypes ==
  ASSUME MachineInv, Reads, Add \/ Sub \/ Mult
  PROVE  MachineInv'
  <1> USE Parts DEF Reads
  <1>1. PICK k \in Variants, n \in Int, b \in BOOLEAN :
          Accumulate(Wrap(n)) /\ flags' = [flags EXCEPT !.overflow = Flag(b)] /\ Proceed
    <2> HIDE Parts
    <2>1. \A k \in Variants : Operand(k) \in Int /\ Other(k) \in Int
      BY WordIsInt
    <2>2. \A k \in Variants : /\ Operand(k) + Other(k) \in Int
                              /\ Operand(k) - Other(k) \in Int
                              /\ Operand(k) * Other(k) \in Int
      BY <2>1
    <2>3. \A a, b : /\ AddOverflows(a, b) \in BOOLEAN
                    /\ SubOverflows(a, b) \in BOOLEAN
                    /\ MultOverflows(a, b) \in BOOLEAN
      BY DEF AddOverflows, SubOverflows, MultOverflows
    <2>4. CASE Add
      BY <2>2, <2>3, <2>4 DEF Add
    <2>5. CASE Sub
      BY <2>2, <2>3, <2>5 DEF Sub
    <2>6. CASE Mult
      BY <2>2, <2>3, <2>6 DEF Mult
    <2> QED
      BY <2>4, <2>5, <2>6
  <1>2. Wrap(n) \in Word
    BY WrapIsWord
  <1> QED
    BY <1>1, <1>2, AccumulateTypes, FlagTypes, ProceedTypes

\* Division and modulus.
LEMMA DivisionTypes ==
  ASSUME MachineInv, Reads, Div
  PROVE  MachineInv'
  <1>1. PICK k \in Variants :
          /\ Accumulate(Quotient(k)) \/ Accumulate(Remainder(k))
          /\ flags' = [flags EXCEPT !.divzero = Flag(Other(k) = 0)]
          /\ Proceed
    BY DEF Div
  <1>2. Operand(k) \in Int /\ Other(k) \in Int
    BY WordIsInt DEF Reads
  <1>3. 0 \in Word
    BY HalfPositive DEF Word, RBML_WORD_MIN, RBML_WORD_MAX
  <1>4. Quotient(k) \in Word /\ Remainder(k) \in Word
    BY <1>2, <1>3, CDivType, WrapIsWord DEF Quotient, Remainder
  <1>5. (Other(k) = 0) \in BOOLEAN
    OBVIOUS
  <1>6. PICK w \in Word : Accumulate(w)
    BY <1>1, <1>4
  <1> QED
    BY <1>1, <1>5, <1>6, Parts, AccumulateTypes, FlagTypes, ProceedTypes

\* The instructions on bits.
LEMMA BitTypes ==
  ASSUME MachineInv, Reads, Logic \/ Shift
  PROVE  MachineInv'
  <1>1. PICK w \in Word : Accumulate(w)
    <2>1. CASE Logic
      BY <2>1, BitOperations DEF Logic, Reads
    <2>2. CASE Shift
      BY <2>2, BitOperations DEF Shift, Reads
    <2> QED
      BY <2>1, <2>2
  <1>2. Proceed /\ UNCHANGED flags
    BY DEF Logic, Shift
  <1> QED
    BY <1>1, <1>2, Parts, AccumulateTypes, PartsStay, ProceedTypes

\* Comparison.
LEMMA CmpTypes ==
  ASSUME MachineInv, Cmp
  PROVE  MachineInv'
  <1>1. PICK a, b : flags' = Compared(a, b)
    BY DEF Cmp
  <1>2. Flag(a < b) \in {0, 1} /\ Flag(a = b) \in {0, 1} /\ Flag(a > b) \in {0, 1}
    BY DEF Flag
  <1>3. FlagsOK'
    BY <1>1, <1>2, Parts DEF Compared, FlagsOK
  <1>4. Proceed /\ UNCHANGED <<store, stack, reg, accumulator, jump, io>>
    BY DEF Cmp
  <1> QED
    BY <1>3, <1>4, Parts, PartsStay, ProceedTypes DEF io

\* A step that changes nothing but the counter and how the process stands.
LEMMA CounterTypes ==
  ASSUME MachineInv, UNCHANGED machine, CounterOK'
  PROVE  MachineInv'
  <1>1. UNCHANGED <<store, stack, reg, accumulator, jump, flags, disk, openStreams, console>>
    BY DEF machine, io
  <1> QED
    BY <1>1, Parts, PartsStay

\* Branches, and opcodes that do nothing.
LEMMA BranchTypes ==
  ASSUME MachineInv, Reads, Branch \/ Unimplemented \/ UnknownOpcode
  PROVE  MachineInv'
  <1>1. PICK ic \in Int : Continue(ic)
    <2>1. instructionCounter \in Int
      BY Parts, WordIsInt DEF CounterOK
    <2>2. CASE Branch
      BY <2>1, <2>2 DEF Branch, Reads
    <2>3. CASE Unimplemented \/ UnknownOpcode
      BY <2>1, <2>3 DEF Unimplemented, UnknownOpcode, Proceed
    <2> QED
      BY <2>2, <2>3
  <1>2. UNCHANGED machine
    BY DEF Branch, Unimplemented, UnknownOpcode
  <1> QED
    BY <1>1, <1>2, ContinueTypes, CounterTypes

\* CALL, with the push past the call stack that damages the heap.
LEMMA CallTypes ==
  ASSUME MachineInv, Reads, Call
  PROVE  MachineInv'
  <1>1. instructionCounter \in Word /\ jump \in Word
    BY Parts DEF CounterOK
  <1>2. CASE SaveJump /\ jump' = instructionCounter /\ Continue(Arg3 - 1)
             /\ UNCHANGED <<reg, accumulator, flags, io>>
    <2>1. StoreOK' /\ StackOK'
      <3>1. CASE UNCHANGED <<store, stack>>
        BY <3>1, Parts, PartsStay
      <3>2. CASE /\ Fits /\ callStack' = [callStack EXCEPT ![callStackCounter] = jump]
                 /\ callStackCounter' = callStackCounter + 1 /\ UNCHANGED store
        BY <1>1, <3>2, Parts, PartsStay, MachineAssumption DEF Fits, StackOK
      <3>3. CASE /\ callStackCounter < SIZE_OF_CALLSTACK + HEAP_SLACK
                 /\ callStackCounter' = callStackCounter + 1
                 /\ \/ UNCHANGED memory
                    \/ \E a \in Addresses : memory' = [memory EXCEPT ![a] = jump]
                 /\ heap' = "damaged" /\ UNCHANGED callStack
        <4>1. StoreOK'
          BY <1>1, <3>3, Parts DEF StoreOK
        <4>2. StackOK'
          BY <3>3, Parts, MachineAssumption DEF StackOK
        <4> QED
          BY <4>1, <4>2
      <3> QED
        BY <1>2, <3>1, <3>2, <3>3 DEF SaveJump
    <2>2. CounterOK'
      BY <1>2, ContinueTypes DEF Reads
    <2> QED
      BY <1>1, <1>2, <2>1, <2>2, Parts, PartsStay DEF io
  <1>3. CASE Proceed /\ UNCHANGED <<store, stack, jump, reg, accumulator, flags, io>>
    BY <1>3, Parts, PartsStay, ProceedTypes DEF io
  <1> QED
    BY <1>2, <1>3 DEF Call

\* END, also with a call stack that is empty or was outgrown.
LEMMA EndTypes ==
  ASSUME MachineInv, End
  PROVE  MachineInv'
  <1>1. RestoreJump /\ Continue(jump) /\ UNCHANGED <<store, reg, accumulator, flags, io>>
    BY DEF End
  <1>2. jump \in Int /\ 0 \in Word
    BY Parts, WordIsInt, HalfPositive DEF Word, RBML_WORD_MIN, RBML_WORD_MAX
  <1>3. CounterOK'
    BY <1>1, <1>2, ContinueTypes
  <1>4. StackOK /\ StoreOK
    BY Parts
  <1>5. StackOK' /\ jump' \in Word
    <2>1. CASE callStackCounter = 0
      BY <1>1, <1>2, <1>4, <2>1, MachineAssumption DEF RestoreJump, StackOK
    <2>2. CASE callStackCounter # 0
      <3>1. callStackCounter' = callStackCounter - 1 /\ UNCHANGED callStack
            /\ jump' \in IF callStackCounter' < SIZE_OF_CALLSTACK
                         THEN {callStack[callStackCounter']}
                         ELSE Garbage \cup {memory[a] : a \in Addresses}
        BY <1>1, <2>2 DEF RestoreJump
      <3>2. StackOK'
        BY <1>4, <2>2, <3>1, MachineAssumption DEF StackOK
      <3>3. callStackCounter' < SIZE_OF_CALLSTACK =>
              callStackCounter' \in 0..(SIZE_OF_CALLSTACK - 1)
        BY <3>2, MachineAssumption DEF StackOK
      <3>4. jump' \in Word
        BY <1>4, <3>1, <3>3, MachineAssumption DEF StackOK, StoreOK
      <3> QED
        BY <3>2, <3>4
    <2> QED
      BY <2>1, <2>2
  <1> QED
    BY <1>1, <1>3, <1>5, Parts, PartsStay DEF io

\* Starting on a program file, ending, and undefined behaviour.
LEMMA OutsideTypes ==
  ASSUME MachineInv,
         LoadProgram \/ RejectProgram \/ Halt \/ Fault \/ Return \/ Ended \/ UNCHANGED vars
  PROVE  MachineInv'
  <1>1. CASE LoadProgram
    <2>1. PICK f \in ProgramFiles : memory' = Loaded(f.text)
      BY <1>1 DEF LoadProgram
    <2>2. f.text \in Seq(Word) /\ StoreOK
      BY Parts, MachineAssumption
    <2>3. ASSUME NEW a \in Addresses
          PROVE  (IF a < Len(f.text) THEN f.text[a + 1] ELSE memory[a]) \in Word
      <3>1. CASE a < Len(f.text)
        <4>1. a + 1 \in 1..Len(f.text)
          BY <2>2, <3>1 DEF Addresses
        <4> QED
          BY <2>2, <3>1, <4>1
      <3>2. CASE ~(a < Len(f.text))
        BY <2>2, <3>2 DEF StoreOK
      <3> QED
        BY <3>1, <3>2
    <2>4. StoreOK'
      BY <1>1, <2>1, <2>2, <2>3 DEF LoadProgram, StoreOK, Loaded
    <2>5. CounterOK'
      BY <1>1, Parts DEF LoadProgram, CounterOK
    <2>6. UNCHANGED <<stack, reg, accumulator, jump, flags, io>>
      BY <1>1 DEF LoadProgram
    <2> QED
      BY <2>4, <2>5, <2>6, Parts, PartsStay DEF io
  <1>2. CASE RejectProgram \/ Halt \/ Fault \/ Return
    <2>1. UNCHANGED machine /\ UNCHANGED instructionCounter
          /\ status' \in {"exit1", "exit0", "exit2", "crashed", "returned"}
      BY <1>2 DEF RejectProgram, Halt, Fault, Crash, Return
    <2> QED
      BY <2>1, Parts, CounterTypes DEF CounterOK
  <1>3. CASE Ended \/ UNCHANGED vars
    <2>1. UNCHANGED machine /\ UNCHANGED <<status, instructionCounter>>
      BY <1>3 DEF Ended, vars
    <2> QED
      BY <2>1, Parts, CounterTypes DEF CounterOK
  <1> QED
    BY <1>1, <1>2, <1>3

\* The machine starts with nothing but zeros and closed disks.
LEMMA InitTypes == Init => MachineInv
  <1> SUFFICES ASSUME Init PROVE MachineInv
    OBVIOUS
  <1>1. 0 \in Word
    BY HalfPositive DEF Word, RBML_WORD_MIN, RBML_WORD_MAX
  <1>2. {d \in Registers : disk[d] = "open"} = {}
    BY DEF Init
  <1>3. LostStreams = 0
    <2>1. Cardinality({}) = 0
      BY FS_EmptySet
    <2>2. LostStreams = 0 - Cardinality({})
      BY <1>2 DEF Init, LostStreams
    <2> QED
      BY <2>1, <2>2
  <1>4. StreamsOK
    BY <1>3, MachineAssumption DEF Init, StreamsOK
  <1>5. StoreOK /\ StackOK /\ RegistersOK /\ jump \in Word /\ ConsoleOK /\ CounterOK
    BY <1>1, MachineAssumption DEF Init, StoreOK, StackOK, RegistersOK, ConsoleOK, CounterOK
  <1>6. FlagsOK
    BY DEF Init, FlagsOK
  <1> QED
    BY <1>4, <1>5, <1>6, Parts

\* Every step keeps the types.
LEMMA MachineStep == MachineInv /\ ControlInv /\ [Next]_vars => MachineInv'
  <1> SUFFICES ASSUME MachineInv, ControlInv, [Next]_vars PROVE MachineInv'
    OBVIOUS
  <1>1. CASE (Compute \/ Crdm \/ Crd) /\ ~Halt
    <2>1. Reads
      BY <1>1, ComputeRuns, TurnReads
    <2> QED
      BY <1>1, <2>1, TransferTypes, DiskTypes, ArithmeticTypes, DivisionTypes, BitTypes,
         CmpTypes, BranchTypes, CallTypes, EndTypes
      DEF Compute
  <1> QED
    BY <1>1, OutsideTypes DEF Next, Compute

\* Whatever program is run: words stay words, flags 0 or 1, arrays keep their
\* bounds, the number of open streams is never negative, and no disk holds a
\* stream that is not open.
THEOREM MachineTypes == Spec => []TypeOK
  <1>1. Init => ControlInv
    BY DEF Init, ControlInv, FetchInRegion
  <1>2. MachineInv => TypeOK
    BY DEF MachineInv
  <1> QED
    BY <1>1, <1>2, InitTypes, MachineStep, ControlStep, PTL DEF Spec

-----------------------------------------------------------------------------
(* What a step may never do.                                               *)

\* Only OPEN and CLOS touch the disks and the streams.
LEMMA StreamsStay ==
  ASSUME [Next]_vars, ~Open, ~Clos
  PROVE  UNCHANGED <<disk, openStreams>>
  <1> USE DEF io, machine
  <1>1. CASE Compute
    BY <1>1 DEF Compute, Sto, Lod, Mov, Writ, Unimplemented, Add, Sub, Mult, Div, Logic, Shift,
         Cmp, Branch, Call, End, Halt, UnknownOpcode, Accumulate
  <1>2. CASE ~Compute
    BY <1>2 DEF Next, LoadProgram, RejectProgram, Crdm, Crd, Fault, Crash, Return, Ended, vars
  <1> QED
    BY <1>1, <1>2

\* Whatever program is run, a stream is lost only by an OPEN of a disk that is
\* open; CLOS gives back the stream it forgets.
THEOREM StreamsLostByReopening == Spec => LeakOnlyByReopening
  <1> DEFINE Leak == LostStreams' # LostStreams =>
               LostStreams' > LostStreams /\ Opcode = OP.OPEN /\ disk[Arg1] = "open"
  <1>1. ASSUME MachineInv, ControlInv, [Next]_vars PROVE Leak
    <2>1. CASE Open
      <3>1. Arg1 \in Registers /\ Opcode = OP.OPEN
        BY <1>1, <2>1, ComputeRuns, TurnReads DEF Compute, Reads, Open, Execute
      <3>2. \/ /\ openStreams < MAX_STREAMS /\ disk' = [disk EXCEPT ![Arg1] = "open"]
               /\ openStreams' = openStreams + 1
            \/ /\ disk' = [disk EXCEPT ![Arg1] = "closed"]
               /\ openStreams' = openStreams
        BY <2>1 DEF Open
      <3>3. LostStreams' = LostStreams \/ (LostStreams' = LostStreams + 1 /\ disk[Arg1] = "open")
        BY <1>1, <3>1, <3>2, Parts, OpenSucceeds, DiskCloses
      <3>4. LostStreams \in Int
        BY <1>1, Parts, DisksAreFinite
      <3> QED
        BY <3>1, <3>3, <3>4
    <2>2. CASE Clos
      <3>1. /\ Arg1 \in Registers /\ disk[Arg1] = "open"
            /\ disk' = [disk EXCEPT ![Arg1] = "closed"] /\ openStreams' = openStreams - 1
        BY <1>1, <2>2, ComputeRuns, TurnReads DEF Compute, Reads, Clos
      <3>2. openStreams' # openStreams
        BY <1>1, <3>1, Parts, DisksAreFinite
      <3>3. LostStreams' = LostStreams
        BY <1>1, <3>1, <3>2, Parts, DiskCloses
      <3> QED
        BY <3>3
    <2>3. CASE ~Open /\ ~Clos
      BY <1>1, <2>3, StreamsStay DEF LostStreams
    <2> QED
      BY <2>1, <2>2, <2>3
  <1>2. Init => ControlInv
    BY DEF Init, ControlInv, FetchInRegion
  <1> QED
    BY <1>1, <1>2, InitTypes, MachineStep, ControlStep, PTL DEF Spec, LeakOnlyByReopening

\* Whatever program is run, a word of main memory changes only by a store or a
\* console read that names its address, until the call stack is outgrown.
THEOREM MemoryChangesByStores == Spec => OnlyStoresChangeMemory
  <1> DEFINE Only == status = "running" /\ callStackCounter < SIZE_OF_CALLSTACK =>
               \A a \in Addresses : memory'[a] # memory[a] =>
                 a = Arg3 /\ Opcode \in OP.STO..(OP.STO + 2) \cup {OP.CRDM}
  <1>1. ASSUME MachineInv, [Next]_vars PROVE Only
    <2> SUFFICES ASSUME status = "running", callStackCounter < SIZE_OF_CALLSTACK,
                        NEW a \in Addresses, memory'[a] # memory[a]
                 PROVE  a = Arg3 /\ Opcode \in OP.STO..(OP.STO + 2) \cup {OP.CRDM}
      OBVIOUS
    <2>1. ASSUME NEW x, NEW w, Write(x, w) PROVE a = x
      BY <1>1, <2>1 DEF Write, MachineInv, TypeOK
    <2>2. CASE Sto
      BY <2>1, <2>2 DEF Sto, Execute, Variants, OP
    <2>3. CASE Crdm
      BY <2>1, <2>3 DEF Crdm, Execute, OP
    <2>4. CASE Call
      BY <2>4 DEF Call, SaveJump, Fits, store
    <2>5. CASE Compute /\ ~Sto /\ ~Call
      BY <2>5 DEF Compute, Lod, Mov, Writ, Open, Clos, Unimplemented, Add, Sub, Mult, Div,
           Logic, Shift, Cmp, Branch, End, Halt, UnknownOpcode, Accumulate, store, machine
    <2>6. CASE ~Compute /\ ~Crdm
      BY <1>1, <2>6 DEF Next, LoadProgram, RejectProgram, Crd, Fault, Crash, Return, Ended,
           vars, store, machine
    <2> QED
      BY <2>2, <2>3, <2>4, <2>5, <2>6
  <1>2. Init => ControlInv
    BY DEF Init, ControlInv, FetchInRegion
  <1> QED
    BY <1>1, <1>2, InitTypes, MachineStep, ControlStep, PTL DEF Spec, OnlyStoresChangeMemory

\* A turn that finds an addition carries it out: no undefined behaviour lies in
\* its way.
LEMMA AdditionsAreCarriedOut ==
  ASSUME [Next]_vars, NEW k \in Variants, Execute(OP.ADD + k)
  PROVE  Add \/ UNCHANGED vars
  <1> USE DEF OP, Variants, Execute
  <1>1. ~Fault
    BY DEF Fault, UndefinedBehaviour, WildAddress, DivisionTraps, ClosesNothing, PushesPastEnd,
         UsesDamagedHeap
  <1>2. ~Sto /\ ~Lod /\ ~Mov /\ ~Writ /\ ~Open /\ ~Clos /\ ~Unimplemented /\ ~Sub /\ ~Mult
    BY DEF Sto, Lod, Mov, Writ, Open, Clos, Unimplemented, Sub, Mult
  <1>3. ~Div /\ ~Logic /\ ~Shift /\ ~Cmp /\ ~Branch /\ ~Call /\ ~End /\ ~Halt
    BY DEF Div, Logic, Shift, Cmp, Branch, Call, End, Halt
  <1>4. ~UnknownOpcode /\ ~Crdm /\ ~Crd
    BY DEF UnknownOpcode, Crdm, Crd, Known
  <1>5. ~LoadProgram /\ ~RejectProgram /\ ~Return /\ ~Ended
    BY DEF LoadProgram, RejectProgram, Return, Ended
  <1> QED
    BY <1>1, <1>2, <1>3, <1>4, <1>5 DEF Next, Compute

\* Whatever program is run, the overflow flag says of every addition whether its
\* sum is a word, and if it is, the accumulator holds the sum.
THEOREM AdditionsAreExact == Spec => AdditionIsExact
  <1> DEFINE Exact == \A k \in Variants : Execute(OP.ADD + k) =>
               LET sum == Operand(k) + Other(k)
               IN  IF flags'.overflow = 0 THEN accumulator' = sum ELSE sum \notin Word
  <1>1. ASSUME MachineInv, ControlInv, [Next]_vars PROVE Exact \/ UNCHANGED vars
    <2> SUFFICES ASSUME NEW k \in Variants, Execute(OP.ADD + k), Add
                 PROVE  IF flags'.overflow = 0 THEN accumulator' = Operand(k) + Other(k)
                                               ELSE Operand(k) + Other(k) \notin Word
      BY <1>1, AdditionsAreCarriedOut
    <2>1. Operand(k) \in Word /\ Other(k) \in Word
      BY <1>1, TurnReads DEF Execute, Reads
    <2>2. PICK j \in Variants :
            /\ Execute(OP.ADD + j) /\ Accumulate(Wrap(Operand(j) + Other(j)))
            /\ flags' = [flags EXCEPT !.overflow = Flag(AddOverflows(Operand(j), Other(j)))]
      BY DEF Add
    <2>3. j = k
      BY <2>2 DEF Execute, OP, Variants
    <2>4. accumulator' = Wrap(Operand(k) + Other(k))
      BY <2>2, <2>3 DEF Accumulate
    <2>5. flags'.overflow = Flag(AddOverflows(Operand(k), Other(k)))
      BY <1>1, <2>2, <2>3 DEF MachineInv, TypeOK
    <2> QED
      BY <2>1, <2>4, <2>5, AdditionExact DEF Flag
  <1>2. Init => ControlInv
    BY DEF Init, ControlInv, FetchInRegion
  <1> QED
    BY <1>1, <1>2, InitTypes, MachineStep, ControlStep, PTL DEF Spec, AdditionIsExact

-----------------------------------------------------------------------------
(* Calls.                                                                  *)

\* A turn that neither calls nor ends leaves the call stack alone, and the
\* jump register too unless it breaks the convention.
Quiet ==
  /\ ~Calling /\ ~Ending
  /\ UNCHANGED stack
  /\ UNCHANGED jump \/ WritesJump

\* A step outside the loop, or the end of the process, leaves both alone.
Aside ==
  /\ UNCHANGED <<stack, jump>>
  /\ status # "running" \/ status' = "crashed"

\* Nothing but calls, ENDs and writes to the jump register concerns the calls.
LEMMA QuietTurn ==
  ASSUME \/ Sto \/ Lod \/ Mov \/ Writ \/ Open \/ Clos \/ Unimplemented
         \/ Add \/ Sub \/ Mult \/ Div \/ Logic \/ Shift \/ Cmp
         \/ Branch \/ Halt \/ UnknownOpcode \/ Crdm \/ Crd
  PROVE  Quiet
  <1> USE DEF Quiet, Calling, Ending, Execute, OP, Variants, stack
  <1>1. CASE Sto
    BY <1>1 DEF Sto
  <1>2. CASE Lod
    BY <1>2 DEF Lod, Assign, WritesJump
  <1>3. CASE Mov
    BY <1>3 DEF Mov, Assign, WritesJump
  <1>4. CASE Writ
    BY <1>4 DEF Writ
  <1>5. CASE Open
    BY <1>5 DEF Open
  <1>6. CASE Clos
    BY <1>6 DEF Clos
  <1>7. CASE Unimplemented
    BY <1>7 DEF Unimplemented, machine
  <1>8. CASE Add
    BY <1>8 DEF Add, Accumulate
  <1>9. CASE Sub
    BY <1>9 DEF Sub, Accumulate
  <1>10. CASE Mult
    BY <1>10 DEF Mult, Accumulate
  <1>11. CASE Div
    BY <1>11 DEF Div, Accumulate
  <1>12. CASE Logic
    BY <1>12 DEF Logic, Accumulate
  <1>13. CASE Shift
    BY <1>13 DEF Shift, Accumulate
  <1>14. CASE Cmp
    BY <1>14 DEF Cmp
  <1>15. CASE Branch
    BY <1>15 DEF Branch, machine
  <1>16. CASE Halt
    BY <1>16 DEF Halt, machine
  <1>17. CASE UnknownOpcode
    BY <1>17 DEF UnknownOpcode, Known, machine
  <1>18. CASE Crdm
    BY <1>18 DEF Crdm
  <1>19. CASE Crd
    BY <1>19 DEF Crd, Assign, WritesJump
  <1> QED
    BY <1>1, <1>2, <1>3, <1>4, <1>5, <1>6, <1>7, <1>8, <1>9, <1>10, <1>11,
       <1>12, <1>13, <1>14, <1>15, <1>16, <1>17, <1>18, <1>19

\* A CALL that is taken saves the jump register; one that is not is quiet.
LEMMA CallTurn ==
  ASSUME Call
  PROVE  \/ Calling /\ ~Ending /\ ~WritesJump /\ SaveJump /\ jump' = instructionCounter
         \/ Quiet
  BY DEF Call, Quiet, Calling, Ending, WritesJump, Execute, OP, stack

\* END restores the jump register and goes on after the old one.
LEMMA EndTurn ==
  ASSUME End
  PROVE  Ending /\ ~Calling /\ ~WritesJump /\ RestoreJump /\ Continue(jump)
  BY DEF End, Calling, Ending, WritesJump, Execute, OP
-----------------------------------------------------------------------------

\* A turn that keeps the convention breaks it in none of its ways.
LEMMA NoBreach ==
  ASSUME CallsNext, breaches' = {}
  PROVE  /\ breaches = {} /\ ~WritesJump
         /\ Ending => frames # <<>>
         /\ Calling => Len(frames) < SIZE_OF_CALLSTACK /\ instructionCounter # 0
         /\ frames' = IF status' = "crashed" THEN frames ELSE FramesNow
  <1>1. breaches = {} /\ BreachesNow = {}
    BY DEF CallsNext
  <1>2. ~WritesJump
    BY <1>1 DEF BreachesNow, Breach
  <1>3. Ending => frames # <<>>
    BY <1>1 DEF BreachesNow, Breach
  <1>4. Calling => ~(Len(frames) >= SIZE_OF_CALLSTACK)
    BY <1>1 DEF BreachesNow, Breach
  <1>5. Calling => instructionCounter # 0
    BY <1>1 DEF BreachesNow, Breach
  <1>6. frames' = IF status' = "crashed" THEN frames ELSE FramesNow
    BY DEF CallsNext
  <1> QED
    BY <1>1, <1>2, <1>3, <1>4, <1>5, <1>6, MachineAssumption
\* What becomes of the frames.
LEMMA FramesTyped ==
  ASSUME CallsInv, CallsNext
  PROVE  CallsTypeOK'
  <1>1. breaches' \subseteq Breach
    BY DEF CallsInv, CallsTypeOK, CallsNext, BreachesNow
  <1>2. frames \in Seq(Addresses)
    BY DEF CallsInv, CallsTypeOK
  <1>3. Append(frames, instructionCounter) \in Seq(Addresses) \/ ~Calling
    BY <1>2, AppendProperties DEF Calling, CallsInv, ControlInv, FetchInRegion
  <1>4. SubSeq(frames, 1, Len(frames) - 1) \in Seq(Addresses) \/ frames = <<>>
    BY <1>2, SubSeqProperties, ElementOfSeq
  <1>5. FramesNow \in Seq(Addresses)
    BY <1>2, <1>3, <1>4 DEF FramesNow
  <1>6. frames' \in {<<>>, frames, FramesNow}
    BY DEF CallsNext
  <1>7. frames' \in Seq(Addresses)
    BY <1>2, <1>5, <1>6, EmptySeq
  <1> QED
    BY <1>1, <1>7 DEF CallsTypeOK

\* A quiet turn, like a step outside the loop, keeps the frames where they are.
LEMMA QuietKeeps ==
  ASSUME CallsInv, CallsNext, Quiet \/ Aside
  PROVE  StackShape' /\ (breaches' = {} => FramesOnStack')
  <1>1. StackShape'
    BY DEF CallsInv, StackShape, Quiet, Aside, stack
  <1>2. ASSUME breaches' = {} PROVE FramesOnStack'
    <2>1. breaches = {} /\ ~WritesJump
      BY <1>2, NoBreach
    <2>2. UNCHANGED <<callStack, callStackCounter, jump, frames>>
      BY <1>2, <2>1, NoBreach DEF Quiet, Aside, stack, FramesNow, Calling, Ending
    <2> QED
      BY <2>1, <2>2 DEF CallsInv, FramesOnStack
  <1> QED
    BY <1>1, <1>2

\* A CALL pushes a frame: the jump register's word joins the saved ones.
LEMMA CallKeeps ==
  ASSUME CallsInv, CallsNext, Calling, SaveJump, jump' = instructionCounter,
         status' # "crashed"
  PROVE  StackShape' /\ (breaches' = {} => FramesOnStack')
  <1> USE DEF CallsInv, StackShape
  <1>1. StackShape'
    BY DEF SaveJump, stack
  <1>2. ASSUME breaches' = {} PROVE FramesOnStack'
    <2> DEFINE n == Len(frames)
    <2>1. /\ FramesOnStack /\ n < SIZE_OF_CALLSTACK /\ instructionCounter # 0
          /\ frames' = Append(frames, instructionCounter)
      BY <1>2, NoBreach DEF FramesNow
    <2>2. frames \in Seq(Addresses) /\ n \in Nat /\ SIZE_OF_CALLSTACK \in Nat
      BY MachineAssumption, LenProperties DEF CallsTypeOK
    <2>3. /\ Len(frames') = n + 1
          /\ frames'[n + 1] = instructionCounter
          /\ \A i \in 1..n : frames'[i] = frames[i]
      BY <2>1, <2>2, AppendProperties DEF Calling, ControlInv, FetchInRegion
    <2>4. CASE jump = 0
      <3>1. n = 0
        BY <2>1, <2>2, <2>4 DEF FramesOnStack
      <3>2. callStackCounter' = 0
        BY <2>1, <2>4, <3>1 DEF SaveJump, stack, FramesOnStack
      <3> QED
        BY <2>1, <2>2, <2>3, <3>1, <3>2 DEF FramesOnStack
    <2>5. CASE jump # 0
      <3>1. callStackCounter \in 0..(SIZE_OF_CALLSTACK - 1)
        BY <2>1, <2>2 DEF FramesOnStack
      <3>2. /\ callStack' = [callStack EXCEPT ![callStackCounter] = jump]
            /\ callStackCounter' = callStackCounter + 1
        <4>1. Fits
          BY <2>2, <3>1 DEF Fits
        <4> QED
          BY <2>5, <4>1 DEF SaveJump
      <3>3. callStackCounter' \in {n, n + 1}
        BY <2>1, <2>2, <3>2 DEF FramesOnStack
      <3>4. ASSUME NEW i \in 1..n
            PROVE  callStack'[callStackCounter' - (n + 1) + i] = frames'[i]
        <4>1. callStackCounter' - (n + 1) + i = callStackCounter - n + i
          BY <2>2, <3>1, <3>2
        <4>2. CASE i = n
          BY <2>1, <2>2, <2>3, <3>1, <3>2, <4>1, <4>2 DEF FramesOnStack
        <4>3. CASE i # n
          <5>1. i \in 1..(n - 1)
            BY <2>2, <4>3
          <5>2. callStack[callStackCounter - n + i] = frames[i]
            BY <2>1, <2>2, <5>1 DEF FramesOnStack
          <5>3. callStackCounter - n + i \in 0..(SIZE_OF_CALLSTACK - 1)
            BY <2>1, <2>2, <3>1, <5>1 DEF FramesOnStack
          <5>4. callStackCounter - n + i # callStackCounter
            BY <2>2, <3>1, <5>1
          <5> QED
            BY <2>3, <3>2, <4>1, <5>1, <5>2, <5>3, <5>4
        <4> QED
          BY <4>2, <4>3
      <3> QED
        BY <2>1, <2>2, <2>3, <3>3, <3>4 DEF FramesOnStack
    <2> QED
      BY <2>4, <2>5
  <1> QED
    BY <1>1, <1>2

\* An END pops a frame: the one below is back in the jump register.
LEMMA EndKeeps ==
  ASSUME CallsInv, CallsNext, Ending, ~Calling, RestoreJump, status' # "crashed"
  PROVE  StackShape' /\ (breaches' = {} => FramesOnStack')
  <1> USE DEF CallsInv, StackShape
  <1>1. StackShape'
    BY DEF RestoreJump
  <1>2. ASSUME breaches' = {} PROVE FramesOnStack'
    <2>a. frames \in Seq(Addresses) /\ frames # <<>>
      BY <1>2, NoBreach DEF CallsTypeOK
    <2>b. PICK n \in Nat : n = Len(frames)
      BY <2>a, LenProperties
    <2>1. /\ FramesOnStack
          /\ frames' = SubSeq(frames, 1, n - 1)
      BY <1>2, <2>a, <2>b, NoBreach DEF FramesNow
    <2>2. n = Len(frames) /\ n \in Nat /\ n # 0 /\ SIZE_OF_CALLSTACK \in Nat
      BY <2>a, <2>b, MachineAssumption, EmptySeq
    <2>3. /\ Len(frames') = n - 1
          /\ \A i \in 1..(n - 1) : frames'[i] = frames[i]
      <3>1. \A i \in 1..(n - 1) : frames[i] \in Addresses
        BY <2>a, <2>2, ElementOfSeq
      <3>2. n - 1 \in Int /\ (1 <= n - 1 \/ n - 1 = 0)
        BY <2>2
      <3>3. /\ Len(SubSeq(frames, 1, n - 1)) = IF 1 <= n - 1 THEN (n - 1) - 1 + 1 ELSE 0
            /\ \A i \in 1..((n - 1) - 1 + 1) :
                  SubSeq(frames, 1, n - 1)[i] = frames[1 + i - 1]
        BY <3>1, <3>2, SubSeqProperties
      <3>4. Len(frames') = n - 1
        BY <2>1, <3>2, <3>3
      <3>5. ASSUME NEW i \in 1..(n - 1) PROVE frames'[i] = frames[i]
        <4>1. i \in 1..((n - 1) - 1 + 1) /\ 1 + i - 1 = i
          BY <3>2
        <4> QED
          BY <2>1, <3>3, <4>1
      <3> QED
        BY <3>4, <3>5
    <2>4. CASE n = 1
      <3>1. callStackCounter' = 0
        BY <2>1, <2>2, <2>4 DEF RestoreJump, FramesOnStack
      <3> QED
        BY <2>1, <2>2, <2>3, <2>4, <3>1 DEF FramesOnStack
    <2>5. CASE n > 1
      <3>1. /\ callStackCounter \in {n - 1, n} /\ callStackCounter # 0
            /\ callStackCounter - 1 < SIZE_OF_CALLSTACK
        BY <2>1, <2>2, <2>5 DEF FramesOnStack
      <3>2. /\ callStackCounter' = callStackCounter - 1
            /\ jump' = callStack[callStackCounter - 1]
            /\ callStack' = callStack
        BY <3>1 DEF RestoreJump
      <3>3. jump' = frames'[n - 1]
        <4>1. n - 1 \in 1..(n - 1) /\ callStackCounter - n + (n - 1) = callStackCounter - 1
          BY <2>2, <2>5, <3>1
        <4>2. callStack[callStackCounter - n + (n - 1)] = frames[n - 1]
          BY <2>1, <2>2, <4>1, SMTT(30) DEF FramesOnStack
        <4> QED
          BY <2>3, <3>2, <4>1, <4>2
      <3>4. ASSUME NEW i \in 1..(n - 2)
            PROVE  callStack'[callStackCounter' - (n - 1) + i] = frames'[i]
        BY <2>1, <2>2, <2>3, <2>5, <3>1, <3>2 DEF FramesOnStack
      <3>5. Len(frames') = n - 1 /\ n - 1 > 0 /\ n - 1 <= SIZE_OF_CALLSTACK
        BY <2>1, <2>2, <2>3, <2>5 DEF FramesOnStack
      <3>6. \A i \in 1..(n - 1) : frames'[i] # 0
        BY <2>1, <2>2, <2>3 DEF FramesOnStack
      <3>7. callStackCounter' \in {(n - 1) - 1, n - 1}
        BY <2>2, <3>1, <3>2
      <3>8. ASSUME NEW i \in 1..((n - 1) - 1)
            PROVE  callStack'[callStackCounter' - (n - 1) + i] = frames'[i]
        BY <2>2, <3>4, <3>8
      <3> QED
        BY <2>2, <3>3, <3>5, <3>6, <3>7, <3>8 DEF FramesOnStack
    <2> QED
      BY <2>2, <2>4, <2>5
  <1> QED
    BY <1>1, <1>2
-----------------------------------------------------------------------------

\* A turn is quiet, a CALL, an END, or the end of the process.
LEMMA TurnKinds ==
  ASSUME Next
  PROVE  \/ Quiet
         \/ Call /\ status' # "crashed"
         \/ End /\ status' # "crashed"
         \/ Aside
  <1> USE DEF Aside
  <1>1. CASE RejectProgram \/ LoadProgram \/ Return \/ Ended
    BY <1>1 DEF RejectProgram, LoadProgram, Return, Ended, vars, machine, stack
  <1>2. CASE Fault
    BY <1>2 DEF Fault, Crash, machine, stack
  <1>3. CASE Call
    BY <1>3 DEF Call, Continue, Proceed
  <1>4. CASE End
    BY <1>4 DEF End, Continue
  <1> QED
    BY <1>1, <1>2, <1>3, <1>4, QuietTurn DEF Next, Compute

\* Every step keeps the invariant of the calls.
LEMMA CallsStep == CallsInv /\ [CallsNext]_callVars => CallsInv'
  <1> SUFFICES ASSUME CallsInv, [CallsNext]_callVars
               PROVE  CallsInv'
    OBVIOUS
  <1>1. CASE UNCHANGED callVars
    BY <1>1 DEF callVars, vars, machine, stack, CallsInv, ControlInv, FetchInRegion,
                StackShape, CallsTypeOK, FramesOnStack
  <1>2. CASE CallsNext
    <2>1. ControlInv'
      BY <1>2, ControlStep DEF CallsInv, CallsNext
    <2>2. CallsTypeOK'
      BY <1>2, FramesTyped
    <2>3. StackShape' /\ (breaches' = {} => FramesOnStack')
      <3>1. CASE Quiet \/ Aside
        BY <1>2, <3>1, QuietKeeps
      <3>2. CASE Call /\ status' # "crashed"
        BY <1>2, <3>2, CallTurn, CallKeeps, QuietKeeps
      <3>3. CASE End /\ status' # "crashed"
        BY <1>2, <3>3, EndTurn, EndKeeps
      <3> QED
        BY <1>2, <3>1, <3>2, <3>3, TurnKinds DEF CallsNext
    <2> QED
      BY <2>1, <2>2, <2>3 DEF CallsInv
  <1> QED
    BY <1>1, <1>2

\* At first no call is open.
LEMMA CallsStart == CallsInit => CallsInv
  BY EmptySeq, MachineAssumption
  DEF CallsInit, Init, CallsInv, ControlInv, FetchInRegion, StackShape, CallsTypeOK,
      FramesOnStack

\* The frames of a program that keeps the calling convention are the jump
\* register and the call stack, for call stacks and memories of every size.
THEOREM FramesAreOnStack == CallsSpec => []CallsInv
  BY CallsStart, CallsStep, PTL DEF CallsSpec
-----------------------------------------------------------------------------

\* An END that keeps the convention goes on after the latest frame.
LEMMA EndReturns ==
  ASSUME CallsInv, CallsNext, breaches' = {}, Ending, status' # "crashed"
  PROVE  /\ frames # <<>>
         /\ frames' = SubSeq(frames, 1, Len(frames) - 1)
         /\ instructionCounter' = frames[Len(frames)] + 1
  <1>1. End
    BY TurnKinds, CallTurn DEF CallsNext, Quiet, Ending, Aside
  <1>2. frames \in Seq(Addresses) /\ frames # <<>> /\ FramesOnStack
    BY NoBreach DEF CallsInv, CallsTypeOK
  <1>3. frames' = SubSeq(frames, 1, Len(frames) - 1)
    BY <1>1, <1>2, NoBreach, EndTurn DEF FramesNow
  <1>4. Len(frames) \in 1..Len(frames)
    BY <1>2, LenProperties, EmptySeq
  <1>5. jump = frames[Len(frames)] /\ jump \in Addresses
    BY <1>2, <1>4, ElementOfSeq DEF FramesOnStack
  <1>6. jump + 1 \in Word
    BY <1>5, MachineAssumption, HalfPositive
    DEF Addresses, Word, RBML_WORD_MIN, RBML_WORD_MAX
  <1>7. instructionCounter' = jump + 1
    BY <1>1, <1>6, EndTurn, WrapWord DEF Continue
  <1> QED
    BY <1>2, <1>3, <1>5, <1>7

\* END goes on after its own CALL in every program that keeps the convention.
THEOREM EveryEndReturnsToItsCaller == CallsSpec => ReturnsToCaller
  <1>1. CallsInv /\ [CallsNext]_callVars =>
          [breaches' = {} /\ Ending /\ status' # "crashed" =>
             instructionCounter' = frames[Len(frames)] + 1]_callVars
    BY EndReturns
  <1> QED
    BY <1>1, FramesAreOnStack, PTL DEF CallsSpec, ReturnsToCaller

\* A program that keeps the convention never outgrows the call stack.
THEOREM NestingFits == CallsSpec => CallStackHolds
  <1>1. ASSUME CallsInv, CallsNext, breaches' = {}, Calling, jump # 0
        PROVE  Fits
    <2>1. FramesOnStack /\ Len(frames) < SIZE_OF_CALLSTACK /\ Len(frames) \in Nat
      BY <1>1, NoBreach, LenProperties DEF CallsInv, CallsTypeOK
    <2> QED
      BY <1>1, <2>1, MachineAssumption DEF FramesOnStack, Fits, CallsInv, StackShape
  <1>2. CallsInv /\ [CallsNext]_callVars =>
          [breaches' = {} /\ Calling /\ jump # 0 => Fits]_callVars
    BY <1>1
  <1> QED
    BY <1>2, FramesAreOnStack, PTL DEF CallsSpec, CallStackHolds

\* The jump register and the call stack implement the nesting of calls.
THEOREM MachineImplementsCallStack == CallsSpec => ImplementsCallStack
  <1>1. CallsInit => CS!Init
    BY DEF CallsInit, Init, CS!Init
  <1>2. CallsInv /\ [CallsNext]_callVars => [CS!Next]_(CS!csvars)
    <2> SUFFICES ASSUME CallsInv, [CallsNext]_callVars
                 PROVE  [CS!Next]_(CS!csvars)
      OBVIOUS
    <2>1. CASE UNCHANGED callVars
      BY <2>1 DEF callVars, vars, CS!csvars
    <2>2. CASE CallsNext /\ breaches' # {}
      BY <2>2 DEF CS!Next
    <2>3. CASE CallsNext /\ breaches' = {}
      <3>1. /\ breaches = {}
            /\ frames' = IF status' = "crashed" THEN frames ELSE FramesNow
            /\ Ending => frames # <<>>
        BY <2>3, NoBreach
      <3>2. CASE Ending /\ status' # "crashed"
        <4>1. CS!Return
          BY <2>3, <3>2, EndReturns DEF CS!Return
        <4> QED
          BY <2>3, <3>1, <4>1 DEF CS!Next
      <3>3. CASE status' = "crashed" \/ ~Ending
        <4>1. CS!Call \/ CS!Step
          BY <3>1, <3>3 DEF FramesNow, CS!Call, CS!Step
        <4> QED
          BY <2>3, <3>1, <4>1 DEF CS!Next
      <3> QED
        BY <3>2, <3>3
    <2> QED
      BY <2>1, <2>2, <2>3
  <1> QED
    BY <1>1, <1>2, FramesAreOnStack, PTL DEF CallsSpec, ImplementsCallStack, CS!Spec
=============================================================================
