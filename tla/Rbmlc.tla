------------------------------- MODULE Rbmlc -------------------------------
(***************************************************************************)
(* The assembler as a command: main and compile of rbmlc.c and code_write  *)
(* around the parser of Assembler, with the output file, the exit status   *)
(* and the failures of the files it works on.                              *)
(***************************************************************************)
EXTENDS Assembler

CONSTANTS
  OldOutput,   \* what the output file holds before: a set of at most one text
  BUFFER       \* words stdio keeps before it writes any

ASSUME RbmlcAssumption ==
  /\ OldOutput \subseteq Seq(Int) /\ Cardinality(OldOutput) <= 1
  /\ BUFFER \in Nat \ {0}

VARIABLES
  option,        \* whether -o is given
  output_file,   \* "unset", "named", "derived", or "wild"
  output,        \* what the output file holds, as a set of at most one text
  lost,          \* fclose has failed
  stage, exit_status

written == <<output, lost>>
process == <<stage, exit_status>>
rvars == <<avars, option, output_file, written, process>>

\* A read error looks to the scanner like the end of the file: source is what
\* can be read before either.
RInit ==
  /\ option \in BOOLEAN
  /\ output_file = "unset"
  /\ output = OldOutput
  /\ lost = FALSE
  /\ stage = "options"
  /\ exit_status = "none"
  /\ Init

Exit(with) == stage' = "exited" /\ exit_status' = with
GoOn(to) == stage' = to /\ UNCHANGED exit_status

-----------------------------------------------------------------------------

\* output_file is not initialised: without -o the test for NULL reads whatever
\* the stack holds, and only if that is NULL is a name made up.
Options ==
  /\ stage = "options"
  /\ \/ /\ output_file' \in IF option THEN {"named"} ELSE {"derived", "wild"}
        /\ GoOn("opening")
     \/ Exit("1") /\ UNCHANGED output_file
  /\ UNCHANGED <<avars, option, written>>

\* code_alloc and parser_alloc: no memory, or no such file.
OpenInput ==
  /\ stage = "opening"
  /\ GoOn("assembling") \/ Exit("1")
  /\ UNCHANGED <<avars, option, output_file, written>>

Assemble ==
  /\ stage = "assembling"
  /\ Parse \/ code_check_refs
  /\ CASE status' = "died" -> Exit("1")
       [] status' = "crashed" -> Exit("signal")
       [] OTHER -> UNCHANGED process
  /\ UNCHANGED <<option, output_file, written>>

ReportTotal ==
  /\ stage = "assembling" /\ status = "checked"
  /\ num_errors # 0
  /\ GoOn("freeing")
  /\ UNCHANGED <<avars, option, output_file, written>>

\* Slip: the file is opened, and so emptied, before the errors are counted.
OpensAtOnce ==
  /\ stage = "assembling" /\ status = "checked"
  /\ output' = {<<>>} /\ GoOn("writing")
  /\ UNCHANGED <<avars, option, output_file, lost>>

\* code_write: opening the file empties it.  With a wild name, die prints it.
OpenOutput ==
  /\ stage = "assembling" /\ status = "checked"
  /\ num_errors = 0
  /\ \/ /\ output' = IF output_file = "wild" THEN output ELSE {<<>>}
        /\ GoOn("writing")
     \/ /\ \/ Exit("1")
           \/ output_file = "wild" /\ Exit("signal")
        /\ UNCHANGED output
  /\ UNCHANGED <<avars, option, output_file, lost>>

Prefixes == {SubSeq(text, 1, n) : n \in 0..Len(text)}

\* Slip: the error indicator of the stream is not looked at.
WriteUnchecked ==
  /\ stage = "writing"
  /\ GoOn("freeing")
  /\ \/ output' = {text}
     \/ Len(text) >= BUFFER /\ \E t \in Prefixes : output' = {t}
  /\ UNCHANGED <<avars, option, output_file, lost>>

\* fwrite hands full buffers to the system and may be told of a failure then;
\* less than a buffer is only written by fclose.  A file that could not be
\* written is removed, if it can be.
Write ==
  /\ stage = "writing"
  /\ \/ /\ output' \in IF output_file = "wild" THEN {output}
                       ELSE {{t} : t \in IF Len(text) < BUFFER THEN {<<>>} ELSE Prefixes}
        /\ GoOn("closing")
     \/ /\ Len(text) >= BUFFER
        /\ output' \in IF output_file = "wild" THEN {output}
                       ELSE {{t} : t \in Prefixes} \cup {{}}
        /\ Exit("1")
  /\ UNCHANGED <<avars, option, output_file, lost>>

\* Nobody looks at what fclose returns.
Close ==
  /\ stage = "closing"
  /\ \/ /\ output' = IF output_file = "wild" THEN output ELSE {text}
        /\ UNCHANGED lost
     \/ /\ lost' = TRUE
        /\ UNCHANGED output
  /\ GoOn("freeing")
  /\ UNCHANGED <<avars, option, output_file>>

\* code_free walks a tree and lists by way of nodes it has freed; with one
\* symbol and no reference there is no such node.
ReadsFreed ==
  \/ Cardinality(DOMAIN symbol_table) > 1
  \/ \E name \in DOMAIN symbol_table : symbol_table[name].refs # {}

Free ==
  /\ stage = "freeing"
  /\ \/ Exit(IF num_errors = 0 THEN "0" ELSE "1")
     \/ ReadsFreed /\ Exit("signal")
  /\ UNCHANGED <<avars, option, output_file, written>>

Exited == stage = "exited" /\ UNCHANGED rvars

RNext ==
  \/ Options \/ OpenInput \/ Assemble \/ ReportTotal
  \/ OpenOutput \/ Write \/ Close \/ Free \/ Exited

RSpec == RInit /\ [][RNext]_rvars

\* The command is one process that waits for nobody.
RFairSpec == RSpec /\ WF_rvars(RNext)
-----------------------------------------------------------------------------
(* Properties.                                                             *)

\* Exit status 0 means that what was read is a program and the output file
\* holds it, but for what a failing fclose may have cost and a name that was
\* never set (rbmlc.c:130-142, code.c:137-152).
SuccessHoldsProgram ==
  exit_status = "0" /\ ~lost /\ output_file # "wild" =>
    WellFormed(source) /\ output = {Program(source)}

\* A file that is not a program costs the output file nothing: an older
\* program is still there (rbmlc.c:134-138).
BadSourceKeepsOutput ==
  [][ ~WellFormed(source) => output' = output ]_rvars

\* The command always exits, whatever the source and whichever call fails
\* (rbmlc.c:104-143).
Exits == <>(stage = "exited")

\* "[-o <output-file>]" (rbmlc.c:49): -o may be left out, and a name is made
\* for the output file then (rbmlc.c:87-102).
OutputIsNamed == output_file # "wild"
=============================================================================
