------------------------------ MODULE HashRing ------------------------------
(***************************************************************************)
(* The consistent hash ring as operators on its nodeMap, a function from   *)
(* the occupied positions to their nodes.  The hash values themselves are  *)
(* a parameter: slots[n] is the set of positions of the virtual nodes of n.*)
(*                                                                         *)
(* Two virtual nodes of one node at one position are the one element of    *)
(* slots[n].  The sorted list of the code then holds the position twice,   *)
(* which GetNode does not notice; RemoveNode, which looks the owner up     *)
(* after it has deleted it, leaves the second entry without an owner.      *)
(* That is not distinguished here.                                         *)
(***************************************************************************)
EXTENDS Integers

CONSTANT Size  \* positions are 0 .. Size - 1

ASSUME SizeAssumption == Size \in Nat \ {0}

Positions == 0 .. Size - 1

EmptyRing == [p \in {} |-> {}]

\* Mutant of RingAdd: a position another node owns is taken over.
RingAddTakesOver(map, slots, n) ==
  [p \in DOMAIN map \cup slots[n] |-> IF p \in slots[n] THEN n ELSE map[p]]

\* A position another node owns is skipped.
RingAdd(map, slots, n) ==
  [p \in DOMAIN map \cup slots[n] |-> IF p \in DOMAIN map THEN map[p] ELSE n]

\* Mutant of RingRemove: the virtual nodes stay.
RingRemoveNothing(map, n) == map

RingRemove(map, n) ==
  [p \in {q \in DOMAIN map : map[q] # n} |-> map[p]]

\* How far p lies from position h, clockwise.
Ahead(h, p) == IF p >= h THEN p - h ELSE p - h + Size

\* GetNode: the node at the first occupied position from h on, wrapping round.
GetNode(map, h) ==
  map[CHOOSE p \in DOMAIN map : \A q \in DOMAIN map : Ahead(h, p) <= Ahead(h, q)]
=============================================================================
