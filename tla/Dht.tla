-------------------------------- MODULE Dht --------------------------------
(***************************************************************************)
(* What the table of DHT peers promises the code that uses it: a map from  *)
(* peers to the value of their last successful add.  Only a table that     *)
(* already holds K_BUCKET other peers may refuse a new one, or give one up *)
(* for it.                                                                 *)
(***************************************************************************)
EXTENDS Integers, FiniteSets, Functions

CONSTANTS
    Peer,           \* the peers there are
    Value,          \* what is kept for a peer
    K_BUCKET        \* a table of fewer peers takes every new one

VARIABLE table

Put(f, p, v) == [q \in DOMAIN f \cup {p} |-> IF q = p THEN v ELSE f[q]]

Drop(f, p) == Restrict(f, DOMAIN f \ {p})

(* The possible outcomes of adding v for p. *)
AddOutcome(f, p, v) ==
    {[ok |-> TRUE, table |-> Put(f, p, v)]}
    \cup IF p \in DOMAIN f \/ Cardinality(DOMAIN f) < K_BUCKET
         THEN {}
         ELSE {[ok |-> FALSE, table |-> f]}
              \cup {[ok |-> TRUE, table |-> Put(Drop(f, q), p, v)] : q \in DOMAIN f}

Init == table = [p \in {} |-> {}]

(* One add or remove leads from map f to map g. *)
Changes(f, g) ==
    \E p \in Peer :
        \/ g = Drop(f, p)
        \/ \E v \in Value : \E o \in AddOutcome(f, p, v) : g = o.table

Next == Changes(table, table')

Spec == Init /\ [][Next]_table
=============================================================================
