------------------------------ MODULE KadTree ------------------------------
(***************************************************************************)
(* The binary trie of k-buckets of src/kad.rs (KadTree, Node, Cell,        *)
(* Distance), as operators on one value: the tree.                         *)
(*                                                                         *)
(* A key is a string of KEY_LENGTH bits.  A node of the trie is the pair   *)
(* of its level (the `index` its methods are called with) and the bits of  *)
(* the distances that lead to it; a tree is a function from its nodes to   *)
(* the cells of their `list`.  The root, KadTree itself, has no list: its  *)
(* `left` and `right` are the two nodes of level 1.                        *)
(*                                                                         *)
(* A Vec of cells is modelled as a set.  Its order decides one thing only, *)
(* which of several farther cells a full bucket of the deepest level gives *)
(* up; insert has one outcome for each of them.                            *)
(***************************************************************************)
EXTENDS Integers, FiniteSets

CONSTANTS
    KEY_LENGTH,     \* bits of a key (256 for PeerId, 144 for SocketAddr)
    MAX_LEVEL,      \* the level at which a full bucket no longer splits (8)
    K_BUCKET        \* cells a bucket holds (4)

ASSUME LevelsAssumption ==
    /\ KEY_LENGTH \in Nat
    /\ MAX_LEVEL \in 1 .. KEY_LENGTH
    /\ K_BUCKET \in Nat \ {0}

Key == [0 .. KEY_LENGTH - 1 -> BOOLEAN]

Nil == [found |-> FALSE]

----------------------------------------------------------------------------
(* Distances *)

xor(a, b) == [i \in 0 .. KEY_LENGTH - 1 |-> a[i] # b[i]]

(* Bits are compared from index 0 on, the most significant one. *)
Closer(a, b) ==
    \E i \in 0 .. KEY_LENGTH - 1 :
        /\ ~a[i] /\ b[i]
        /\ \A j \in 0 .. i - 1 : a[j] = b[j]

max == [i \in 0 .. KEY_LENGTH - 1 |-> TRUE]

(* The cell of a key in the tree of root_key carries the key, the key of its
   value and the distance of the key from the root. *)
Cell(root, key, value) == [key |-> key, value |-> value, dist |-> xor(root, key)]

----------------------------------------------------------------------------
(* Nodes *)

At(d, level) == <<level, [j \in 0 .. level - 1 |-> d[j]]>>

(* The other child of the parent of At(d, level). *)
Sibling(d, level) ==
    <<level, [j \in 0 .. level - 1 |-> IF j = level - 1 THEN ~d[j] ELSE d[j]]>>

Node == UNION {{l} \X [0 .. l - 1 -> BOOLEAN] : l \in 1 .. MAX_LEVEL}

EmptyTree == [n \in {} |-> {}]

HasChild(t, d, level) ==
    At(d, level + 1) \in DOMAIN t \/ Sibling(d, level + 1) \in DOMAIN t

(* The level at which the descent along d ends: the first node without
   children.  An absent node has none. *)
LeafLevel(t, d) ==
    CHOOSE l \in 1 .. MAX_LEVEL :
        /\ ~HasChild(t, d, l)
        /\ \A i \in 1 .. l - 1 : HasChild(t, d, i)

List(t, n) == IF n \in DOMAIN t THEN t[n] ELSE {}

Cells(t) == UNION {t[n] : n \in DOMAIN t}

keys(t) == {c.key : c \in Cells(t)}

is_empty(t) == Cells(t) = {}

----------------------------------------------------------------------------
(* Insertion *)

Shares(S, d, level) == {c \in S : At(c.dist, level) = At(d, level)}

(* Faulty: room for one cell less. *)
HasRoomButOne(S) == Cardinality(S) < K_BUCKET - 1

HasRoom(S) == Cardinality(S) < K_BUCKET

(* Faulty: a bucket of the deepest level splits as well. *)
SplitLevelTooDeep(S, d, from) ==
    CHOOSE l \in from .. MAX_LEVEL + 1 :
        /\ l = MAX_LEVEL + 1 \/ HasRoom(Shares(S, d, l))
        /\ \A i \in from .. l - 1 : ~HasRoom(Shares(S, d, i))

(* A full bucket splits until the bucket on the path of d has room, at
   MAX_LEVEL at the latest. *)
SplitLevel(S, d, from) ==
    CHOOSE l \in from .. MAX_LEVEL :
        /\ l = MAX_LEVEL \/ HasRoom(Shares(S, d, l))
        /\ \A i \in from .. l - 1 : ~HasRoom(Shares(S, d, i))

(* Faulty: the bucket that splits keeps its cells. *)
SplitKeepsList(t, S, d, from, to) ==
    LET created == {At(d, l) : l \in 1 .. to} \cup {Sibling(d, l) : l \in from + 1 .. to}
    IN  [n \in DOMAIN t \cup created |->
            IF n = At(d, to) THEN Shares(S, d, to) ELSE List(t, n)]

(* The tree after the bucket S of the leaf on the path of d, at level `from`,
   has been divided down to level `to`. *)
Split(t, S, d, from, to) ==
    LET created == {At(d, l) : l \in 1 .. to} \cup {Sibling(d, l) : l \in from + 1 .. to}
    IN  [n \in DOMAIN t \cup created |->
            CASE n = At(d, to) -> Shares(S, d, to)
              [] \E l \in from .. to - 1 : n = At(d, l) -> {}
              [] \E l \in from + 1 .. to : n = Sibling(d, l) ->
                    {c \in S : At(c.dist, n[1]) = n}
              [] OTHER -> List(t, n)]

(* KadTree.add and Node.insert: the set of possible outcomes, each with the
   answer, the keys of the values whose cells were dropped, and the tree. *)
insert(t, cell) ==
    LET d    == cell.dist
        from == LeafLevel(t, d)
        old  == {c \in List(t, At(d, from)) : c.key = cell.key}
        S    == List(t, At(d, from)) \ old
        to   == SplitLevel(S, d, from)
        u    == Split(t, S, d, from, to)
        B    == u[At(d, to)]
        far  == {c \in B : Closer(d, c.dist)}
        drop == {c.value : c \in old}
    IN  IF HasRoom(B)
        THEN {[ok |-> TRUE, removed |-> drop,
               tree |-> [u EXCEPT ![At(d, to)] = B \cup {cell}]]}
        ELSE IF far = {}
        THEN {[ok |-> FALSE, removed |-> drop, tree |-> u]}
        ELSE {[ok |-> TRUE, removed |-> drop \cup {c.value},
               tree |-> [u EXCEPT ![At(d, to)] = (B \ {c}) \cup {cell}]] : c \in far}

----------------------------------------------------------------------------
(* Lookup and removal *)

(* Faulty: the other side is taken whenever there is one. *)
SearchPathSwapped(t, d) ==
    IF Sibling(d, 1) \in DOMAIN t THEN [d EXCEPT ![0] = ~d[0]] ELSE d

(* The descent of a search ends in the list of the leaf on the path of d; a
   side of the root that was never created is replaced by the other side. *)
SearchPath(t, d) ==
    IF At(d, 1) \notin DOMAIN t /\ Sibling(d, 1) \in DOMAIN t
    THEN [d EXCEPT ![0] = ~d[0]]
    ELSE d

(* Faulty: any cell of the bucket will do. *)
SearchFirst(t, root, key) ==
    LET p == SearchPath(t, xor(root, key))
        B == List(t, At(p, LeafLevel(t, p)))
    IN  IF B = {} THEN Nil
        ELSE [found |-> TRUE, is_it |-> \E c \in B : c.key = key,
              cell |-> CHOOSE c \in B : \A e \in B : e.key = key => c = e]

(* The cell of the key itself, or the closest one of the bucket, of those
   closer than the greatest distance there is. *)
search(t, root, key) ==
    LET d == xor(root, key)
        p == SearchPath(t, d)
        B == List(t, At(p, LeafLevel(t, p)))
        N == {c \in B : Closer(xor(d, c.dist), max)}
    IN  IF \E c \in B : c.key = key
        THEN [found |-> TRUE, is_it |-> TRUE, cell |-> CHOOSE c \in B : c.key = key]
        ELSE IF N = {} THEN Nil
        ELSE [found |-> TRUE, is_it |-> FALSE,
              cell |-> CHOOSE c \in N :
                          \A e \in N : e = c \/ ~Closer(xor(d, e.dist), xor(d, c.dist))]

contains(t, root, key) ==
    LET r == search(t, root, key) IN r.found /\ r.is_it

(* The closest cell, unless it is the one the request came from. *)
next_closest(t, root, key, prev) ==
    LET r == search(t, root, key) IN IF r.found /\ r.cell.key = prev THEN Nil ELSE r

(* The cells of the key on its own path. *)
Held(t, root, key) ==
    LET d == xor(root, key) IN {c \in List(t, At(d, LeafLevel(t, d))) : c.key = key}

remove(t, root, key) ==
    LET d == xor(root, key)
        n == At(d, LeafLevel(t, d))
    IN  IF n \in DOMAIN t THEN [t EXCEPT ![n] = @ \ Held(t, root, key)] ELSE t
=============================================================================
