---------------------------- MODULE SymbolTable ----------------------------
(***************************************************************************)
(* What code.c expects of its symbol table: a set of symbols in which a    *)
(* name is looked up and to which it is added when it is not there.        *)
(***************************************************************************)
CONSTANT Names

VARIABLES
  table,   \* the names that have a symbol
  answer   \* the latest lookup: the name and whether it was found

Init ==
  /\ table = {}
  /\ answer = {}

Lookup(name) ==
  /\ answer' = {<<name, name \in table>>}
  /\ UNCHANGED table

\* Only a name that was just looked up in vain is added.
Add(name) ==
  /\ answer = {<<name, FALSE>>}
  /\ table' = table \cup {name}
  /\ UNCHANGED answer

Next == \E name \in Names : Lookup(name) \/ Add(name)

Spec == Init /\ [][Next]_<<table, answer>>
=============================================================================
