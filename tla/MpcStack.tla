------------------------------ MODULE MpcStack ------------------------------
(***************************************************************************)
(* A stack in an array that grows and shrinks with its use, as the parser  *)
(* machine of mpc.c keeps two (mpc.c:735-947).  Only the number of entries *)
(* and the number of slots the array has room for are modelled.            *)
(***************************************************************************)
EXTENDS Integers

VARIABLES num, slots
svars == <<num, slots>>

\* reserve_more: ceil((slots + 1) * 1.5), once num has outgrown the array.
More(n, s) == IF n > s THEN (3 * (s + 1) + 1) \div 2 ELSE s

\* Slip: shrinks as soon as two thirds would do for the present entries.
LessEager(n, s) == IF s > n THEN (2 * (s - 1)) \div 3 ELSE s

\* reserve_less: floor((slots - 1) / 1.5), when slots > (num + 1)^1.5.
Less(n, s) == IF s * s > (n + 1) * (n + 1) * (n + 1) THEN (2 * (s - 1)) \div 3 ELSE s

Init == num = 0 /\ slots = 0

Push ==
  /\ num' = num + 1
  /\ slots' = More(num + 1, slots)

Pop ==
  /\ num > 0
  /\ num' = num - 1
  /\ slots' = Less(num - 1, slots)

Next == Push \/ Pop

Spec == Init /\ [][Next]_svars

\* There is a slot for every entry, whatever was pushed and popped before:
\* no write to the array is past its end.
SlotsSuffice == num \in Nat /\ slots \in Nat /\ num <= slots
=============================================================================
