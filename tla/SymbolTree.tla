----------------------------- MODULE SymbolTree -----------------------------
(***************************************************************************)
(* The symbol table of code.c as the red-black tree of tree.h: lookup,     *)
(* insertion, the walk of code_check_refs and the walk of code_free, which *)
(* frees the nodes it walks over.  One step is one turn of a loop of those *)
(* functions.  Nodes are named by their keys and ordered as symbol_cmp     *)
(* orders the names.  Nothing is ever removed from the table, so           *)
(* RB_REMOVE, which is generated and not called, is left out.              *)
(***************************************************************************)
EXTENDS Integers, Sequences, FiniteSets

CONSTANT Keys    \* the names, as numbers in the order of symbol_cmp

ASSUME KeysAssumption == Keys \subseteq Nat \ {0} /\ IsFiniteSet(Keys)

VARIABLES
  rbh_root, child, parent, color,   \* the tree
  pc,                               \* the loop being run
  elm, tmp, above,                  \* elm, tmp and parent of that loop
  answer,                           \* the latest lookup
  visited,                          \* the symbols code_check_refs has seen
  freed                             \* the symbols code_free has freed

links == <<rbh_root, child, parent, color>>
locals == <<elm, tmp, above>>
tvars == <<links, pc, locals, answer, visited, freed>>

NULL == 0
Sides == {"left", "right"}
Mirror(side) == IF side = "left" THEN "right" ELSE "left"

Init ==
  /\ rbh_root = NULL
  /\ child = [side \in Sides |-> [n \in Keys |-> NULL]]
  /\ parent = [n \in Keys |-> NULL]
  /\ color = [n \in Keys |-> "none"]
  /\ pc = "idle"
  /\ elm = NULL /\ tmp = NULL /\ above = NULL
  /\ answer = {}
  /\ visited = {}
  /\ freed = {}

-----------------------------------------------------------------------------
(* Lookup and insertion.                                                   *)

SideOf(k, n) == IF k < n THEN "left" ELSE "right"

\* RB_FIND, and on a miss RB_INSERT: both callers, a label and a reference,
\* add the name they did not find.
Lookup == \E k \in Keys :
  /\ pc = "idle"
  /\ pc' = "find"
  /\ elm' = k /\ tmp' = rbh_root /\ above' = NULL
  /\ UNCHANGED <<links, answer, visited, freed>>

\* Slip: down one side only.
DescendRight ==
  /\ above' = tmp
  /\ tmp' = child["right"][tmp]
  /\ UNCHANGED <<links, pc, elm, answer, visited, freed>>

Descend ==
  /\ above' = tmp
  /\ tmp' = child[SideOf(elm, tmp)][tmp]
  /\ UNCHANGED <<links, pc, elm, answer, visited, freed>>

FindStep == pc = "find" /\ tmp \notin {NULL, elm} /\ Descend

FindEnd ==
  /\ pc = "find" /\ tmp \in {NULL, elm}
  /\ answer' = {<<elm, tmp = elm>>}
  /\ IF tmp = elm THEN pc' = "idle" /\ UNCHANGED tmp
                  ELSE pc' = "insert" /\ tmp' = rbh_root
  /\ above' = NULL
  /\ UNCHANGED <<links, elm, visited, freed>>

InsertStep == pc = "insert" /\ tmp \notin {NULL, elm} /\ Descend

\* The new node becomes a red leaf; a node that is there already stays alone.
Link ==
  /\ pc = "insert" /\ tmp \in {NULL, elm}
  /\ IF tmp = elm THEN pc' = "idle" /\ UNCHANGED links
     ELSE /\ parent' = [parent EXCEPT ![elm] = above]
          /\ child' = [side \in Sides |->
               IF above # NULL /\ side = SideOf(elm, above)
               THEN [child[side] EXCEPT ![elm] = NULL, ![above] = elm]
               ELSE [child[side] EXCEPT ![elm] = NULL]]
          /\ rbh_root' = IF above = NULL THEN elm ELSE rbh_root
          /\ color' = [color EXCEPT ![elm] = "red"]
          /\ pc' = "color"
  /\ UNCHANGED <<locals, answer, visited, freed>>

-----------------------------------------------------------------------------
(* RB_INSERT_COLOR.                                                        *)

tree == [root |-> rbh_root, child |-> child, parent |-> parent]

\* Slip: the subtree that changes hands keeps its old parent.
RotateLosesParent(t, e, side) ==
  LET up == t.child[Mirror(side)][e]
      moved == t.child[side][up]
      p == t.parent[e]
  IN  [ root |-> IF p = NULL THEN up ELSE t.root,
        child |-> [ s \in Sides |-> [ n \in Keys |->
                      IF n = e /\ s = Mirror(side) THEN moved
                      ELSE IF n = up /\ s = side THEN e
                      ELSE IF n = p /\ t.child[s][p] = e THEN up
                      ELSE t.child[s][n] ] ],
        parent |-> [ n \in Keys |-> IF n = up THEN p ELSE IF n = e THEN up
                                    ELSE t.parent[n] ] ]

\* RB_ROTATE_LEFT (side "left") and RB_ROTATE_RIGHT: the child of e on the
\* other side takes e's place, and e goes down to that side.
Rotate(t, e, side) ==
  LET up == t.child[Mirror(side)][e]
      moved == t.child[side][up]
      p == t.parent[e]
  IN  [ root |-> IF p = NULL THEN up ELSE t.root,
        child |-> [ s \in Sides |-> [ n \in Keys |->
                      IF n = e /\ s = Mirror(side) THEN moved
                      ELSE IF n = up /\ s = side THEN e
                      ELSE IF n = p /\ t.child[s][p] = e THEN up
                      ELSE t.child[s][n] ] ],
        parent |-> [ n \in Keys |-> IF n = up THEN p ELSE IF n = e THEN up
                                    ELSE IF n = moved THEN e
                                    ELSE t.parent[n] ] ]

Parent == parent[elm]
Grandparent == parent[Parent]
ParentSide == IF child["left"][Grandparent] = Parent THEN "left" ELSE "right"
Uncle == child[Mirror(ParentSide)][Grandparent]

RedParent == pc = "color" /\ Parent # NULL /\ color[Parent] = "red"
RedUncle == Uncle # NULL /\ color[Uncle] = "red"

\* Slip: the uncle stays red.
RecolorKeepsUncle ==
  /\ RedParent /\ RedUncle
  /\ color' = [color EXCEPT ![Parent] = "black", ![Grandparent] = "red"]
  /\ elm' = Grandparent
  /\ UNCHANGED <<rbh_root, child, parent, pc, tmp, above, answer, visited, freed>>

Recolor ==
  /\ RedParent /\ RedUncle
  /\ color' = [color EXCEPT ![Uncle] = "black", ![Parent] = "black", ![Grandparent] = "red"]
  /\ elm' = Grandparent
  /\ UNCHANGED <<rbh_root, child, parent, pc, tmp, above, answer, visited, freed>>

\* An inner grandchild is first rotated outwards, in its parent's place.
Rebalance ==
  LET side == ParentSide
      inner == child[Mirror(side)][Parent] = elm
      outward == IF inner THEN Rotate(tree, Parent, side) ELSE tree
      after == Rotate(outward, Grandparent, Mirror(side))
      middle == IF inner THEN elm ELSE Parent
  IN  /\ RedParent /\ ~RedUncle
      /\ rbh_root' = after.root /\ child' = after.child /\ parent' = after.parent
      /\ color' = [color EXCEPT ![middle] = "black", ![Grandparent] = "red"]
      /\ elm' = IF inner THEN Parent ELSE elm
      /\ UNCHANGED <<pc, tmp, above, answer, visited, freed>>

ColorEnd ==
  /\ pc = "color" /\ ~RedParent
  /\ color' = [color EXCEPT ![rbh_root] = "black"]
  /\ pc' = "idle"
  /\ UNCHANGED <<rbh_root, child, parent, locals, answer, visited, freed>>

-----------------------------------------------------------------------------
(* RB_NEXT and the two walks.                                              *)

\* Slip: the walk starts at the root.
StartAtRoot == rbh_root

\* The nodes reached from n by following a link as far as it goes, n first.
Chain(link, n) ==
  LET From[m \in Keys] == IF link[m] = NULL THEN <<m>> ELSE <<m>> \o From[link[m]]
  IN  From[n]

\* From n down its left spine, and from n up as long as it is a right child:
\* the nodes whose links RB_MIN and RB_NEXT follow.
LeftSpine(n) == Chain(child["left"], n)

RightChildOf ==
  [m \in Keys |-> IF parent[m] # NULL /\ child["right"][parent[m]] = m
                  THEN parent[m] ELSE NULL]

RightAncestry(n) == Chain(RightChildOf, n)

Last(seq) == seq[Len(seq)]

RB_MIN == IF rbh_root = NULL THEN NULL ELSE Last(LeftSpine(rbh_root))

\* Slip: only one step up.
NextOneUp(n) ==
  IF child["right"][n] # NULL THEN Last(LeftSpine(child["right"][n])) ELSE parent[n]

RB_NEXT(n) ==
  IF child["right"][n] # NULL THEN Last(LeftSpine(child["right"][n]))
                              ELSE parent[Last(RightAncestry(n))]

RB_NEXT_reads(n) ==
  LET Elements(seq) == {seq[i] : i \in DOMAIN seq}
  IN  IF child["right"][n] # NULL
      THEN {n} \cup Elements(LeftSpine(child["right"][n]))
      ELSE Elements(RightAncestry(n)) \cup ({parent[Last(RightAncestry(n))]} \ {NULL})

\* The file has been parsed: code_check_refs walks the table.
CheckRefs ==
  /\ pc = "idle"
  /\ pc' = "check"
  /\ elm' = RB_MIN
  /\ UNCHANGED <<links, tmp, above, answer, visited, freed>>

CheckStep ==
  /\ pc = "check" /\ elm # NULL
  /\ visited' = visited \cup {elm}
  /\ elm' = RB_NEXT(elm)
  /\ UNCHANGED <<links, pc, tmp, above, answer, freed>>

\* code_free walks it again.
CheckEnd ==
  /\ pc = "check" /\ elm = NULL
  /\ pc' = "free"
  /\ elm' = RB_MIN
  /\ UNCHANGED <<links, tmp, above, answer, visited, freed>>

\* Slip: the next node is the right child, as if the walk were downhill.
FreeDownhill ==
  /\ pc = "free" /\ elm # NULL
  /\ freed' = freed \cup {elm}
  /\ elm' = child["right"][elm]
  /\ UNCHANGED <<links, pc, tmp, above, answer, visited>>

\* The next node is found before this one is freed, but by way of nodes that
\* were freed earlier, whose links the allocator may or may not have kept.
FreeStep ==
  /\ pc = "free" /\ elm # NULL
  /\ \/ /\ freed' = freed \cup {elm}
        /\ elm' = RB_NEXT(elm)
        /\ UNCHANGED pc
     \/ /\ RB_NEXT_reads(elm) \cap freed # {}
        /\ pc' = "crashed"
        /\ UNCHANGED <<elm, freed>>
  /\ UNCHANGED <<links, tmp, above, answer, visited>>

FreeEnd ==
  /\ pc = "free" /\ elm = NULL
  /\ pc' = "done"
  /\ UNCHANGED <<links, locals, answer, visited, freed>>

Finished == pc \in {"done", "crashed"} /\ UNCHANGED tvars

\* The steps of a loop that has been started.
Loop ==
  \/ FindStep \/ FindEnd \/ InsertStep \/ Link
  \/ Recolor \/ Rebalance \/ ColorEnd
  \/ CheckStep \/ CheckEnd \/ FreeStep \/ FreeEnd

Next == Lookup \/ CheckRefs \/ Loop \/ Finished

Spec == Init /\ [][Next]_tvars
FairSpec == Spec /\ WF_tvars(Loop)
-----------------------------------------------------------------------------
(* Properties.                                                             *)

Nodes == {n \in Keys : color[n] # "none"}

\* The ancestors of a node, itself first.
Path(n) == Chain(parent, n)

\* Every variable keeps its type (tree.h:297-317).
TypeOK ==
  /\ rbh_root \in Nodes \cup {NULL}
  /\ child \in [Sides -> [Keys -> Nodes \cup {NULL}]]
  /\ parent \in [Keys -> Nodes \cup {NULL}]
  /\ color \in [Keys -> {"none", "red", "black"}]
  /\ pc \in {"idle", "find", "insert", "color", "check", "free", "done", "crashed"}
  /\ {elm, tmp, above} \subseteq Keys \cup {NULL}
  /\ freed \subseteq Nodes

\* The links agree both ways and in the order of the names at every step, also
\* between the two rotations of an insertion and the next (tree.h:340-378, 432-475):
\* a node is the child of its parent, the root has none, and on the way up from a
\* node each ancestor is on the side the order asks for.
SearchTree ==
  \A n \in Nodes :
    /\ IF parent[n] = NULL THEN n = rbh_root
       ELSE n \in {child[side][parent[n]] : side \in Sides}
    /\ \A i \in 1..(Len(Path(n)) - 1) :
         LET m == Path(n)[i + 1] IN child[SideOf(n, m)][m] = Path(n)[i]

BlackDepth(n) == Cardinality({i \in DOMAIN Path(n) : color[Path(n)[i]] = "black"})

\* Between operations no red node has a red parent, the root is black, and all
\* ways down end after the same number of black nodes (tree.h:432-475).
RedBlack ==
  pc = "idle" =>
    /\ \A n \in Nodes : color[n] = "red" => parent[n] # NULL /\ color[parent[n]] = "black"
    /\ \A m, n \in {l \in Nodes : \E side \in Sides : child[side][l] = NULL} :
         BlackDepth(m) = BlackDepth(n)

\* The walk of code_check_refs sees every symbol, once and in order
\* (code.c:113, tree.h:697-718).
ChecksEverySymbol ==
  /\ pc = "check" /\ elm # NULL => \A n \in visited : n < elm
  /\ pc = "free" => visited = Nodes

\* code_free leaves no symbol behind, and frees none twice (code.c:50).
FreesEverySymbol ==
  /\ pc = "done" => freed = Nodes
  /\ pc = "free" => elm \notin freed

\* Every search, insertion and walk comes to its end: none of them goes round
\* in links (tree.h:432-475, 656-671, 697-718).
LoopsEnd == pc \notin {"idle", "done", "crashed"} ~> pc \in {"idle", "done", "crashed"}

\* The tree implements the symbol table: a lookup answers whether the name was
\* added before (code.c:58-76).
ST == INSTANCE SymbolTable WITH Names <- Keys, table <- Nodes, answer <- answer

ImplementsSymbolTable == ST!Spec
=============================================================================
