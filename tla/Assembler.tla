----------------------------- MODULE Assembler -----------------------------
(***************************************************************************)
(* The assembler's parser and the code it builds: rbml_lex.l,              *)
(* rbml_parser.y, code.c and symbol.c, up to code_check_refs.              *)
(*                                                                         *)
(* One step looks at one token, as the generated LALR parser does.  Its    *)
(* stack is abstracted to where it stands in the current line (mode,       *)
(* partial); the tables reduce without looking ahead wherever a rule is    *)
(* complete, so the actions run at the rule's last token.                  *)
(***************************************************************************)
EXTENDS Assembly

CONSTANTS
  Sources,                \* the source files, as sequences of tokens
  CODE_ALLOCATION_STEP    \* words by which the program text grows (100)

ASSUME AssemblerAssumption ==
  /\ CODE_ALLOCATION_STEP \in Nat \ {0}
  /\ Sources # {}
  /\ \A src \in Sources : src \in Seq({t \in {src[i] : i \in DOMAIN src} : IsToken(t)})

VARIABLES
  source,        \* the tokens of the file being assembled
  next,          \* the index of the token the parser looks at
  mode,          \* where the parser stands in the line
  partial,       \* the tokens of the instruction or label begun
  errstatus,     \* tokens to shift before syntax errors are reported again
  num_errors,
  reported,      \* the line numbers given with the errors
  text,          \* the program text
  allocated,     \* words allocated for it
  symbol_table,  \* a function from the names seen to symbols
  status         \* "parsing", "parsed", "checked", "died" or "crashed"

code == <<text, allocated, symbol_table>>
parse == <<next, mode, partial, errstatus>>
errors == <<num_errors, reported>>
avars == <<source, parse, errors, code, status>>

Init ==
  /\ source \in Sources
  /\ next = 1
  /\ mode = "line"
  /\ partial = <<>>
  /\ errstatus = 0
  /\ num_errors = 0
  /\ reported = {}
  /\ text = <<>>
  /\ allocated = 0
  /\ symbol_table = <<>>
  /\ status = "parsing"

-----------------------------------------------------------------------------
(* Tokens.                                                                 *)

AtEnd == next > Len(source)
token == IF AtEnd THEN Token("EOF", 0) ELSE source[next]

\* Slip: the number is read after the token that follows.
CountsAhead == LineNumber(source, next + 2)

\* What yylineno is once the token has been matched: a newline counts
\* itself, and the end of the file matches nothing.
line_num == LineNumber(source, next + 1)

-----------------------------------------------------------------------------
(* Symbols and code.                                                       *)

Defined(table, name) == name \in DOMAIN table /\ table[name].line_num # 0

code_symbol_add(table, name, line) ==
  [ n \in DOMAIN table \cup {name} |->
      IF n = name THEN [line_num |-> line, offset |-> Len(text), refs |-> {}]
                  ELSE table[n] ]

\* Slip: the reference is noted for the word after the one about to be emitted.
RefersAhead(table, name) ==
  LET seen == IF name \in DOMAIN table THEN table ELSE code_symbol_add(table, name, 0)
  IN  IF seen[name].line_num = 0
      THEN [seen EXCEPT ![name].refs = @ \cup {[line_num |-> line_num, offset |-> Len(text) + 1]}]
      ELSE seen

\* A symbol that has not been defined remembers the word about to be emitted.
code_symbol_ref(table, name) ==
  LET seen == IF name \in DOMAIN table THEN table ELSE code_symbol_add(table, name, 0)
  IN  IF seen[name].line_num = 0
      THEN [seen EXCEPT ![name].refs = @ \cup {[line_num |-> line_num, offset |-> Len(text)]}]
      ELSE seen

\* Slip: the word after the one that refers to the symbol.
PatchedNext(refs) ==
  [ i \in DOMAIN text |->
      IF \E ref \in refs : ref.offset = i THEN RBML_SET_ARG3(text[i], Len(text))
                                          ELSE text[i] ]

\* Every word that refers to the symbol gets the address it is defined at.
Patched(refs) ==
  [ i \in DOMAIN text |->
      IF \E ref \in refs : ref.offset = i - 1 THEN RBML_SET_ARG3(text[i], Len(text))
                                              ELSE text[i] ]

\* Slip: the text grows one word late.
EmitsPastEnd(w) ==
  /\ text' = Append(text, w)
  /\ allocated' = IF allocated < Len(text) THEN allocated + CODE_ALLOCATION_STEP
                                           ELSE allocated

code_emit(w) ==
  /\ text' = Append(text, w)
  /\ allocated' = IF allocated <= Len(text) THEN allocated + CODE_ALLOCATION_STEP
                                            ELSE allocated

TheName(inst) == CHOOSE name \in RefersTo(inst) : TRUE

-----------------------------------------------------------------------------
(* Errors and recovery.                                                    *)

parser_error ==
  /\ num_errors' = num_errors + 1
  /\ reported' = reported \cup {line_num}

\* Slip: the parser stays where it was, and looks at the token again.
RecoverKeepsMode ==
  /\ errstatus' = 3
  /\ partial' = <<>>
  /\ UNCHANGED <<mode, next>>

\* The rest of the line is given up; the offending token is looked at again.
Recover ==
  /\ errstatus' = 3
  /\ mode' = "error"
  /\ partial' = <<>>
  /\ UNCHANGED next

SyntaxError ==
  /\ IF errstatus = 0 THEN parser_error ELSE UNCHANGED errors
  /\ Recover
  /\ UNCHANGED <<code, status>>

\* A token is accepted.
Shift(to, kept) ==
  /\ next' = next + 1
  /\ errstatus' = IF errstatus > 0 THEN errstatus - 1 ELSE 0
  /\ mode' = to
  /\ partial' = kept

-----------------------------------------------------------------------------
(* The parser's steps.                                                     *)

Looking == status = "parsing" /\ UNCHANGED source

\* The scanner reports a character and goes on to the next token.
BadCharacter ==
  /\ Looking
  /\ token.kind = "BAD"
  /\ parser_error
  /\ next' = next + 1
  /\ UNCHANGED <<mode, partial, errstatus, code, status>>

\* Slip: recovery eats the end of the line.
DiscardsNewLine ==
  /\ Looking
  /\ mode = "error"
  /\ token.kind \notin {"EOF", "BAD"}
  /\ next' = next + 1
  /\ UNCHANGED <<mode, partial, errstatus, errors, code, status>>

\* Slip: the token is not taken from the input.
DiscardKeeps ==
  /\ Looking
  /\ mode = "error"
  /\ token.kind \notin {"NL", "EOF", "BAD"}
  /\ UNCHANGED <<parse, errors, code, status>>

\* While recovering, tokens are dropped up to the end of the line.
Discard ==
  /\ Looking
  /\ mode = "error"
  /\ token.kind \notin {"NL", "EOF", "BAD"}
  /\ next' = next + 1
  /\ UNCHANGED <<mode, partial, errstatus, errors, code, status>>

NewLine ==
  /\ Looking
  /\ token.kind = "NL"
  /\ mode \in {"line", "label", "end", "error"}
  /\ Shift("line", <<>>)
  /\ UNCHANGED <<errors, code, status>>

Accept ==
  /\ Looking
  /\ token.kind = "EOF"
  /\ mode \in {"line", "label", "end", "error"}
  /\ status' = "parsed"
  /\ UNCHANGED <<parse, errors, code>>

Ident ==
  /\ Looking
  /\ mode = "line" /\ token.kind = "IDENT"
  /\ Shift("ident", <<token>>)
  /\ UNCHANGED <<errors, code, status>>

\* label: IDENT ':' for a name not seen before.
NewLabel ==
  /\ Looking
  /\ mode = "ident" /\ token.kind = "COLON"
  /\ partial[1].value \notin DOMAIN symbol_table
  /\ symbol_table' = code_symbol_add(symbol_table, partial[1].value, line_num)
  /\ Shift("label", <<>>)
  /\ UNCHANGED <<errors, text, allocated, status>>

\* The label is already defined: the line is in error, with one report.
DuplicateLabel ==
  /\ Looking
  /\ mode = "ident" /\ token.kind = "COLON"
  /\ Defined(symbol_table, partial[1].value)
  /\ parser_error
  /\ next' = next + 1
  /\ errstatus' = 3 /\ mode' = "error" /\ partial' = <<>>
  /\ UNCHANGED <<code, status>>

\* The label was referenced before.  symbol_define frees each reference and
\* then reads the link to the next one from it: the allocator may have left
\* it there or not, and then the list ends in a wild pointer.
ReferencedLabel ==
  LET name == partial[1].value
  IN  /\ Looking
      /\ mode = "ident" /\ token.kind = "COLON"
      /\ name \in DOMAIN symbol_table /\ ~Defined(symbol_table, name)
      /\ \/ /\ text' = Patched(symbol_table[name].refs)
            /\ symbol_table' = [symbol_table EXCEPT ![name] =
                 [line_num |-> line_num, offset |-> Len(text), refs |-> {}]]
            /\ UNCHANGED status
         \/ /\ symbol_table[name].refs # {}
            /\ status' = "crashed"
            /\ UNCHANGED <<text, symbol_table>>
      /\ Shift("label", <<>>)
      /\ UNCHANGED <<errors, allocated>>

\* An instruction whose last token has been seen is emitted.
Complete(inst) ==
  /\ symbol_table' = IF RefersTo(inst) = {} THEN symbol_table
                     ELSE code_symbol_ref(symbol_table, TheName(inst))
  /\ code_emit(Encode(inst, IF RefersTo(inst) = {} THEN 0
                            ELSE symbol_table'[TheName(inst)].offset))
  /\ Shift("end", <<>>)

\* The token that completes an instruction.
Completes ==
  \/ /\ mode \in {"line", "label"} /\ token.kind \in DOMAIN Operands
     /\ Operands[token.kind] = <<>>
  \/ /\ mode = "operands" /\ Len(partial) = Len(Operands[partial[1].kind])
     /\ token.kind = Operands[partial[1].kind][Len(partial)]

Instruction ==
  /\ Looking
  /\ mode \in {"line", "label"} /\ token.kind \in DOMAIN Operands
  /\ IF Completes THEN Complete(<<token>>)
                  ELSE Shift("operands", <<token>>) /\ UNCHANGED code
  /\ UNCHANGED <<errors, status>>

Expected == Operands[partial[1].kind][Len(partial)]

Operand ==
  /\ Looking
  /\ mode = "operands" /\ token.kind = Expected
  /\ IF Completes THEN Complete(Append(partial, token))
                  ELSE Shift("operands", Append(partial, token)) /\ UNCHANGED code
  /\ UNCHANGED <<errors, status>>

Unexpected ==
  /\ Looking
  /\ token.kind # "BAD"
  /\ \/ mode = "line" /\ token.kind \notin {"NL", "EOF", "IDENT"} \cup DOMAIN Operands
     \/ mode = "ident" /\ token.kind # "COLON"
     \/ mode = "label" /\ token.kind \notin {"NL", "EOF"} \cup DOMAIN Operands
     \/ mode = "operands" /\ token.kind # Expected
     \/ mode = "end" /\ token.kind \notin {"NL", "EOF"}
  /\ SyntaxError

\* Symbols, references and the text are allocated as they are needed; the
\* process ends when there is no memory for one.
Allocates ==
  \/ mode = "ident" /\ token.kind = "COLON" /\ partial[1].value \notin DOMAIN symbol_table
  \/ Completes /\ allocated <= Len(text)
  \/ Completes /\ token.kind = "IDENT" /\ ~Defined(symbol_table, token.value)

RunOutOfMemory ==
  /\ Looking
  /\ Allocates
  /\ status' = "died"
  /\ UNCHANGED <<parse, errors, code>>

\* The scanner copies a name and does not look whether there was memory for
\* the copy: a rule that looks up a name that is not there reads through NULL.
\* A name that recovery drops is never looked at.
LostName ==
  /\ Looking
  /\ \/ mode = "ident" /\ token.kind = "COLON"
     \/ Completes /\ token.kind = "IDENT"
  /\ status' = "crashed"
  /\ UNCHANGED <<parse, errors, code>>

-----------------------------------------------------------------------------
(* code_check_refs: an error for every reference left.                     *)

Unresolved == UNION {{<<name, ref>> : ref \in symbol_table[name].refs} :
                       name \in DOMAIN symbol_table}

\* Slip: references left are not looked for.
ChecksNothing ==
  /\ status = "parsed"
  /\ status' = "checked"
  /\ UNCHANGED <<source, parse, errors, code>>

code_check_refs ==
  /\ status = "parsed"
  /\ num_errors' = num_errors + Cardinality(Unresolved)
  /\ reported' = reported \cup {u[2].line_num : u \in Unresolved}
  /\ status' = "checked"
  /\ UNCHANGED <<source, parse, code>>

Parse ==
  \/ BadCharacter \/ Discard \/ NewLine \/ Accept \/ Ident
  \/ NewLabel \/ DuplicateLabel \/ ReferencedLabel
  \/ Instruction \/ Operand \/ Unexpected \/ RunOutOfMemory \/ LostName

Finished ==
  /\ status \in {"checked", "died", "crashed"}
  /\ UNCHANGED avars

Next == Parse \/ code_check_refs \/ Finished

Spec == Init /\ [][Next]_avars

\* The assembler is one process that waits for nobody.
FairSpec == Spec /\ WF_avars(Next)
-----------------------------------------------------------------------------
(* Properties.                                                             *)

\* What is written to the text stays within what is allocated for it
\* (code.c:121-132).
TextFits == Len(text) <= allocated

\* Every variable keeps its type, and the text fits what is allocated for it.
TypeOK ==
  /\ next \in 1..(Len(source) + 1)
  /\ mode \in {"line", "ident", "label", "operands", "end", "error"}
  /\ \A i \in DOMAIN partial : partial[i] \in {source[j] : j \in 1..(next - 1)}
  /\ errstatus \in 0..3
  /\ num_errors \in Nat
  /\ reported \subseteq 1..LineNumber(source, Len(source) + 1)
  /\ text \in Seq(Word) /\ TextFits
  /\ \A name \in DOMAIN symbol_table :
       symbol_table[name] \in [line_num : Nat, offset : 0..Len(text),
                               refs : SUBSET [line_num : Nat, offset : 0..Len(text)]]
  /\ status \in {"parsing", "parsed", "checked", "died", "crashed"}

\* A reference that waits for its label is to a word that was emitted, so that
\* defining the label writes within the text (code.c:82-103, symbol.c:105-130).
RefsInText ==
  \A name \in DOMAIN symbol_table :
    \A ref \in symbol_table[name].refs : ref.offset \in 0..(Len(text) - 1)

\* The assembler ends with errors exactly when the file is not a program:
\* errors that yacc keeps to itself while it recovers never make a bad file
\* pass (rbml_parser.y, symbol.c:136-146).
ErrorsIffIllFormed ==
  status = "checked" => (num_errors = 0 <=> WellFormed(source))

\* One pass with references patched as labels appear yields the program that
\* two passes define (code.c:64-132, symbol.c:117-130).
TextIsProgram ==
  status = "checked" /\ WellFormed(source) => text = Program(source)

\* An error costs its own line only: every other line that holds a complete
\* instruction gives its word (rbml_parser.y:51-57).
RecoversAtNextLine ==
  status = "checked" => Len(text) = Cardinality(Giving(Lines(source)))

\* Errors do not cascade: a line is reported when it is in error itself, or
\* when the line before it is, whose end the scanner has already counted
\* (rbml_lex.l:16, parser.c:63-74).
ReportedIsInError ==
  status = "checked" =>
    \A k \in reported : \/ ~GoodLine(source, k) \/ Dangling(source, k)
                        \/ k > 1 /\ ~GoodLine(source, k - 1)

\* A token is looked at again only to begin recovery from it: every other step
\* of the parser takes one, so that it ends on every file (rbml_parser.y:51-57).
EveryStepProgresses ==
  [][ status' = "parsing" => \/ next' = next + 1
                             \/ next' = next /\ mode # "error" /\ mode' = "error" ]_avars

\* "Define previously referenced symbol" (code.h:56): a label referenced
\* before is defined; the process does not die of it (symbol.c:124-129).
DefinesReferenced ==
  [][ ReferencedLabel => status' # "crashed" ]_avars
=============================================================================
