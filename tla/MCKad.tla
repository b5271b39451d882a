------------------------------- MODULE MCKad -------------------------------
(* Instances of DoubleKadTree for TLC: keys of four bits, written as the
   numbers they encode. *)
EXTENDS DoubleKadTree

Bits(n) == [i \in 0 .. 3 |-> (n \div 2^(3 - i)) % 2 = 1]

MCRoot == Bits(0)

(* Four ids on the left side of the root, three of them in one bucket of the
   deepest level; one on the right side, at the greatest distance. *)
MCPeerId == {Bits(n) : n \in {1, 2, 3, 5, 15}}

MCSocket == {Bits(n) : n \in {6, 9}}

(* One peer is seen at two addresses, and shares one of them. *)
MCKadValue ==
    {[id |-> Bits(n), socket |-> Bits(6)] : n \in {1, 2, 3}}
    \cup {[id |-> Bits(n), socket |-> Bits(9)] : n \in {1, 5, 15}}
=============================================================================
