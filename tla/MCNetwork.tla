----------------------------- MODULE MCNetwork -----------------------------
(* Instances of Network: four nodes, XOR distances.                           *)
EXTENDS Network, Bitwise

Ids == 0 .. 3
XorDist == [t \in Ids |-> [p \in Ids |-> t ^^ p]]

(* 0 and 3 reach each other over 1; or directly and, once that connection
   breaks, over 1; or they are neighbours and lie on the way from 2 to 1. *)
NearAndFar == {{{0, 1}, {1, 3}},
               {{0, 1}, {1, 3}, {0, 3}},
               {{2, 3}, {0, 3}, {0, 1}}}
NearAndFarPairs == {<<2, 2>>, <<0, 3>>, <<3, 0>>, <<2, 1>>}

(* The networks look the same from 0 and from 3, as far as these two ask for
   each other: whichever of them asks first is called 0.  What 2 asks for is
   followed until a second request or a break, not until both. *)
Followed ==
    \/ asked = <<>> \/ asked[1].from = 0
    \/ asked[1].from = 2 /\ Len(asked) + breaks <= 2

(* 3 may be stable with the relay while 0 sends it data. *)
Line == {{{0, 1}, {1, 3}}}
LinePairs == {<<3, 1>>, <<0, 3>>}
=============================================================================
