----------------------------- MODULE KadProofs -----------------------------
(***************************************************************************)
(* Proofs about DoubleKadTree, for keys and buckets of any size and any    *)
(* number of levels: the tries find what they hold and answer with the     *)
(* closest, their buckets and values are in order, and the table is the    *)
(* map of Dht.                                                             *)
(***************************************************************************)
EXTENDS DoubleKadTree, FiniteSetTheorems, TLAPS

Level == 1 .. MAX_LEVEL

----------------------------------------------------------------------------
(* Bits and nodes *)

(* Two keys have the same first l bits. *)
Agree(a, b, l) == \A j \in 0 .. l - 1 : a[j] = b[j]

(* The key that leads to the sibling of level l. *)
Flip(d, l) == [d EXCEPT ![l - 1] = ~d[l - 1]]

(* A node is a level and as many bits. *)
LEMMA AtSame ==
    ASSUME NEW d \in Key, NEW e \in Key, NEW l \in Level, NEW i \in Level
    PROVE  At(d, l) = At(e, i) <=> l = i /\ Agree(d, e, l)
  BY Zenon DEF At, Agree

(* Keys agree with themselves, in both directions, on fewer bits and through
   a third key. *)
LEMMA AgreeFacts ==
    ASSUME NEW a, NEW b, NEW l \in Nat
    PROVE  /\ Agree(a, a, l) /\ (Agree(a, b, l) => Agree(b, a, l))
           /\ Agree(a, b, l) => \A i \in Nat : i <= l => Agree(a, b, i)
           /\ \A c : Agree(a, b, l) /\ Agree(b, c, l) => Agree(a, c, l)
  BY DEF Agree

LEMMA FlipFacts ==
    ASSUME NEW d \in Key, NEW l \in Level
    PROVE  /\ Flip(d, l) \in Key /\ Sibling(d, l) = At(Flip(d, l), l)
           /\ Agree(Flip(d, l), d, l - 1) /\ Flip(d, l)[l - 1] # d[l - 1]
           /\ Flip(Flip(d, l), l) = d
<1>0. l \in Int /\ l - 1 \in 0 .. KEY_LENGTH - 1
  BY LevelsAssumption DEF Level
<1>1. Flip(d, l) \in Key /\ Flip(d, l)[l - 1] = ~d[l - 1]
  BY Zenon, <1>0 DEF Key, Flip
<1>2. d[l - 1] \in BOOLEAN
  BY Zenon, <1>0 DEF Key
<1>3. Flip(d, l)[l - 1] # d[l - 1]
  BY Zenon, <1>1, <1>2
<1>4. \A j \in 0 .. KEY_LENGTH - 1 : j # l - 1 => Flip(d, l)[j] = d[j]
  BY Zenon, <1>0 DEF Key, Flip
<1>5. Agree(Flip(d, l), d, l - 1)
  BY <1>0, <1>4, LevelsAssumption DEF Agree, Level
<1>6. Sibling(d, l) = At(Flip(d, l), l)
  BY <1>0, <1>1, <1>4, LevelsAssumption DEF Sibling, At, Level
<1>7. Flip(Flip(d, l), l) = d
  <2>1. ~~d[l - 1] = d[l - 1]
    BY Zenon, <1>2
  <2> QED BY Zenon, <2>1, <1>0, <1>1, <1>4 DEF Flip, Key
<1> QED BY Zenon, <1>1, <1>3, <1>5, <1>6, <1>7

(* A key that has the bits of d up to level l - 1 leads to At(d, l) or to its
   sibling. *)
LEMMA Either ==
    ASSUME NEW d \in Key, NEW e \in Key, NEW l \in Level, Agree(e, d, l - 1)
    PROVE  /\ e[l - 1] = d[l - 1] => Agree(e, d, l)
           /\ e[l - 1] # d[l - 1] => Agree(e, Flip(d, l), l)
<1>0. l \in Int /\ l - 1 \in 0 .. KEY_LENGTH - 1 /\ \A j \in 0 .. l - 1 : j = l - 1 \/ j \in 0 .. l - 1 - 1
  BY LevelsAssumption DEF Level
<1>1. Flip(d, l) \in Key /\ Agree(Flip(d, l), d, l - 1) /\ Flip(d, l)[l - 1] # d[l - 1]
  BY Zenon, FlipFacts
<1>2. d[l - 1] \in BOOLEAN /\ e[l - 1] \in BOOLEAN /\ Flip(d, l)[l - 1] \in BOOLEAN
  BY Zenon, <1>0, <1>1 DEF Key
<1>3. e[l - 1] # d[l - 1] => e[l - 1] = Flip(d, l)[l - 1]
  BY Zenon, <1>1, <1>2
<1> QED BY Zenon, <1>0, <1>1, <1>3 DEF Agree

LEMMA Nodes ==
    /\ \A n \in Node : \E d \in Key, l \in Level : n = At(d, l)
    /\ \A d \in Key, l \in Level : At(d, l) \in Node /\ At(d, l)[1] = l
<1>1. ASSUME NEW n \in Node
      PROVE  \E d \in Key, l \in Level : n = At(d, l)
  <2>1. PICK l \in Level : n \in {l} \X [0 .. l - 1 -> BOOLEAN]
    BY Zenon DEF Node, Level
  <2>2. PICK f \in [0 .. l - 1 -> BOOLEAN] : n = <<l, f>>
    BY <2>1
  <2> DEFINE d == [i \in 0 .. KEY_LENGTH - 1 |-> IF i < l THEN f[i] ELSE FALSE]
  <2>3. \A i \in 0 .. KEY_LENGTH - 1 : i < l => i \in 0 .. l - 1
    BY DEF Level
  <2>4. d \in Key
    BY Zenon, <2>3 DEF Key
  <2>5. \A j \in 0 .. l - 1 : j \in 0 .. KEY_LENGTH - 1 /\ j < l
    BY LevelsAssumption DEF Level
  <2>6. \A j \in 0 .. l - 1 : d[j] = f[j]
    BY Zenon, <2>5
  <2> HIDE DEF d
  <2>7. f = [j \in 0 .. l - 1 |-> d[j]]
    BY Zenon, <2>6
  <2> QED BY Zenon, <2>2, <2>4, <2>7 DEF At
<1>2. ASSUME NEW d \in Key, NEW l \in Level
      PROVE  At(d, l) \in Node /\ At(d, l)[1] = l
  <2>1. [j \in 0 .. l - 1 |-> d[j]] \in [0 .. l - 1 -> BOOLEAN]
    BY LevelsAssumption DEF Key, Level
  <2>2. At(d, l) \in {l} \X [0 .. l - 1 -> BOOLEAN]
    BY Zenon, <2>1 DEF At
  <2> QED BY Zenon, <2>2 DEF Node, Level, At
<1> QED BY Zenon, <1>1, <1>2

----------------------------------------------------------------------------
(* Trees *)

(* The cells of the node on the path of d at level l: distances are those of
   the keys and lead there, and no key has two cells. *)
Bucket(S, root, K, d, l) ==
    /\ IsFiniteSet(S) /\ Cardinality(S) <= K_BUCKET
    /\ S \subseteq [key : K, value : ValueKey, dist : Key]
    /\ \A c \in S : c.dist = xor(root, c.key) /\ Agree(c.dist, d, l)
    /\ \A c, e \in S : c.key = e.key => c = e

(* A node has its parents and, but for the sides of the root, its sibling; one
   that has children has no cells. *)
Grown(t, d, l) ==
    /\ \A i \in 1 .. l : At(d, i) \in DOMAIN t
    /\ l > 1 => Sibling(d, l) \in DOMAIN t
    /\ t[At(d, l)] # {} => ~HasChild(t, d, l)

Tree(t, root, K) ==
    /\ DOMAIN t \subseteq Node
    /\ \A d \in Key, l \in Level : At(d, l) \in DOMAIN t =>
          Bucket(t[At(d, l)], root, K, d, l) /\ Grown(t, d, l)

(* Which children a node has depends on its bits only; there are none below
   MAX_LEVEL. *)
LEMMA Child ==
    ASSUME NEW t, DOMAIN t \subseteq Node, NEW d \in Key, NEW e \in Key, NEW l \in Level,
           Agree(e, d, l)
    PROVE  /\ HasChild(t, e, l) => HasChild(t, d, l) /\ l + 1 \in Level
           /\ l + 1 \in Level => At(e, l + 1) \in {At(d, l + 1), Sibling(d, l + 1)}
<1>1. ASSUME l + 1 \in Level
      PROVE  /\ At(e, l + 1) \in {At(d, l + 1), Sibling(d, l + 1)}
             /\ Sibling(e, l + 1) \in {At(d, l + 1), Sibling(d, l + 1)}
  <2> DEFINE m == l + 1
  <2>0. m \in Level /\ m - 1 = l /\ l \in Nat
    BY <1>1 DEF Level
  <2> HIDE DEF m
  <2>1. ASSUME NEW g \in Key, Agree(g, d, l)
        PROVE  At(g, m) \in {At(d, m), Sibling(d, m)}
    <3>1. Agree(g, d, m) \/ Agree(g, Flip(d, m), m)
      BY Zenon, <2>0, <2>1, Either
    <3> QED BY <3>1, <2>0, AtSame, FlipFacts
  <2>2. Flip(e, m) \in Key /\ Agree(Flip(e, m), e, l) /\ Sibling(e, m) = At(Flip(e, m), m)
    BY Zenon, <2>0, FlipFacts
  <2>3. Agree(Flip(e, m), d, l)
    BY Zenon, <2>0, <2>2, AgreeFacts
  <2> QED BY Zenon, <2>1, <2>2, <2>3 DEF m
<1>2. HasChild(t, e, l) => l + 1 \in Level
  <2>1. ASSUME NEW f, <<l + 1, f>> \in Node PROVE l + 1 \in Level
    BY <2>1 DEF Node, Level
  <2> QED BY Zenon, <2>1 DEF HasChild, At, Sibling
<1> QED BY Zenon, <1>1, <1>2 DEF HasChild

(* A set of numbers has a least one. *)
LEMMA LeastNat ==
    ASSUME NEW T, T \subseteq Nat, T # {}
    PROVE  \E x \in T : \A y \in T : x <= y
<1> DEFINE R == OpToRel(<, Nat)
<1>1. IsWellFoundedOn(R, Nat)
  BY ZenonT(40), NatLessThanWellFounded
<1>2. \A x, y \in Nat : <<y, x>> \in R <=> y < x
  BY Zenon DEF OpToRel
<1> HIDE DEF R
<1>3. PICK x \in T : \A y \in T : ~ (<<y, x>> \in R)
  BY ZenonT(40), <1>1, WFMin
<1>4. \A y \in T : ~ (y < x)
  BY ZenonT(40), <1>2, <1>3
<1>5. \A y \in T : x <= y
  BY <1>4
<1> QED BY Zenon, <1>5

(* The descent ends, at one level. *)
IsLeaf(t, d, l) == l \in Level /\ ~HasChild(t, d, l) /\ \A i \in 1 .. l - 1 : HasChild(t, d, i)

LEMMA LeafExists ==
    ASSUME NEW t, DOMAIN t \subseteq Node, NEW d \in Key
    PROVE  IsLeaf(t, d, LeafLevel(t, d))
<1> DEFINE T == {l \in Level : ~HasChild(t, d, l)}
<1>1. MAX_LEVEL \in T
  <2>1. MAX_LEVEL \in Level /\ MAX_LEVEL + 1 \notin Level /\ MAX_LEVEL \in Nat
    BY LevelsAssumption DEF Level
  <2>2. Agree(d, d, MAX_LEVEL)
    BY Zenon, <2>1, AgreeFacts
  <2> QED BY Zenon, <2>1, <2>2, Child
<1>2. T \subseteq Nat /\ T # {}
  BY <1>1 DEF Level
<1>3. PICK l \in T : \A y \in T : l <= y
  BY Zenon, <1>2, LeastNat
<1>4. l \in 1 .. MAX_LEVEL /\ ~HasChild(t, d, l) /\ \A i \in 1 .. l - 1 : HasChild(t, d, i)
  BY <1>3, LevelsAssumption DEF Level
<1>5. LeafLevel(t, d) \in 1 .. MAX_LEVEL /\ ~HasChild(t, d, LeafLevel(t, d))
      /\ \A i \in 1 .. LeafLevel(t, d) - 1 : HasChild(t, d, i)
  BY Zenon, <1>4 DEF LeafLevel
<1> QED BY Zenon, <1>5 DEF IsLeaf, Level

LEMMA LeafUnique ==
    ASSUME NEW t, DOMAIN t \subseteq Node, NEW d \in Key, NEW l, IsLeaf(t, d, l)
    PROVE  l = LeafLevel(t, d)
<1>1. IsLeaf(t, d, LeafLevel(t, d))
  BY Zenon, LeafExists
<1> QED BY <1>1, LevelsAssumption DEF IsLeaf, Level

(* The nodes on the path of d are those up to its leaf, which is there unless
   it is a side of the root. *)
LEMMA Path ==
    ASSUME NEW t, NEW root, NEW K, Tree(t, root, K), NEW d \in Key, NEW l, IsLeaf(t, d, l)
    PROVE  /\ \A i \in Level : At(d, i) \in DOMAIN t => i <= l
           /\ \A i \in 1 .. l - 1 : At(d, i) \in DOMAIN t
           /\ l > 1 => At(d, l) \in DOMAIN t
<1>0. l \in Level /\ l \in Nat /\ DOMAIN t \subseteq Node /\ ~HasChild(t, d, l)
  BY DEF IsLeaf, Level, Tree
<1>1. ASSUME NEW i \in Level, At(d, i) \in DOMAIN t, ~(i <= l)
      PROVE  FALSE
  <2>1. l + 1 \in 1 .. i
    BY <1>0, <1>1 DEF Level
  <2>2. At(d, l + 1) \in DOMAIN t
    BY Zenon, <1>1, <2>1 DEF Tree, Grown
  <2> QED BY Zenon, <1>0, <2>2 DEF HasChild
<1>2. ASSUME l > 1
      PROVE  At(d, l) \in DOMAIN t
  <2>1. l - 1 \in 1 .. l - 1 /\ l - 1 + 1 = l
    BY <1>0, <1>2
  <2>2. At(d, l) \in DOMAIN t \/ Sibling(d, l) \in DOMAIN t
    BY Zenon, <2>1 DEF IsLeaf, HasChild
  <2>3. CASE Sibling(d, l) \in DOMAIN t
    <3>1. Flip(d, l) \in Key /\ At(Flip(d, l), l) \in DOMAIN t /\ Flip(Flip(d, l), l) = d
      BY Zenon, <1>0, <2>3, FlipFacts
    <3>2. Sibling(Flip(d, l), l) \in DOMAIN t
      BY Zenon, <1>0, <1>2, <3>1 DEF Tree, Grown
    <3> QED BY Zenon, <1>0, <3>1, <3>2, FlipFacts
  <2> QED BY Zenon, <2>2, <2>3
<1>3. ASSUME NEW i \in 1 .. l - 1
      PROVE  At(d, i) \in DOMAIN t
  <2>1. l > 1 /\ i \in 1 .. l
    BY <1>0
  <2> QED BY Zenon, <1>0, <1>2, <2>1 DEF Tree, Grown
<1> QED BY Zenon, <1>1, <1>2, <1>3

(* A cell is in the leaf on the path of its distance. *)
LEMMA CellAt ==
    ASSUME NEW t, NEW root, NEW K, Tree(t, root, K), NEW n \in DOMAIN t, NEW c \in t[n]
    PROVE  /\ c \in [key : K, value : ValueKey, dist : Key] /\ c.dist = xor(root, c.key)
           /\ n[1] \in Level /\ n = At(c.dist, n[1]) /\ IsLeaf(t, c.dist, n[1])
           /\ n[1] = LeafLevel(t, c.dist)
<1>0. DOMAIN t \subseteq Node
  BY Zenon DEF Tree
<1>1. PICK d \in Key, l \in Level : n = At(d, l)
  BY Zenon, <1>0, Nodes
<1>2. n[1] = l /\ l \in Nat
  BY <1>1, Nodes DEF Level
<1>3. Bucket(t[n], root, K, d, l) /\ Grown(t, d, l)
  BY Zenon, <1>1 DEF Tree
<1>4. c \in [key : K, value : ValueKey, dist : Key] /\ c.dist = xor(root, c.key) /\ Agree(c.dist, d, l)
  BY Zenon, <1>3 DEF Bucket
<1>5. c.dist \in Key
  BY Zenon, <1>4
<1>6. n = At(c.dist, l)
  BY <1>1, <1>4, <1>5, AtSame
<1>7. Bucket(t[n], root, K, c.dist, l) /\ Grown(t, c.dist, l)
  BY Zenon, <1>5, <1>6 DEF Tree
<1>8. ~HasChild(t, c.dist, l)
  BY Zenon, <1>6, <1>7 DEF Grown
<1>9. \A i \in 1 .. l - 1 : HasChild(t, c.dist, i)
  <2>1. \A i \in 1 .. l - 1 : i + 1 \in 1 .. l
    BY <1>2
  <2> QED BY Zenon, <1>7, <2>1 DEF Grown, HasChild
<1>10. IsLeaf(t, c.dist, l)
  BY Zenon, <1>8, <1>9 DEF IsLeaf
<1>11. l = LeafLevel(t, c.dist)
  BY Zenon, <1>0, <1>5, <1>10, LeafUnique
<1> QED BY Zenon, <1>2, <1>4, <1>6, <1>10, <1>11

(* Two nodes share no cell, and no key has two cells. *)
LEMMA Unique ==
    ASSUME NEW t, NEW root, NEW K, Tree(t, root, K), NEW m \in DOMAIN t, NEW n \in DOMAIN t,
           NEW c \in t[m], NEW e \in t[n], c.key = e.key
    PROVE  m = n /\ c = e
<1>1. c.dist = e.dist /\ m = At(c.dist, m[1]) /\ n = At(e.dist, n[1]) /\ m[1] = n[1]
  BY CellAt
<1>2. m = n
  BY Zenon, <1>1
<1>3. m[1] \in Level /\ c.dist \in Key
  BY CellAt
<1>4. Bucket(t[m], root, K, c.dist, m[1])
  BY Zenon, <1>1, <1>3 DEF Tree
<1> QED BY Zenon, <1>2, <1>4 DEF Bucket

(* What a leaf on the path of d holds, by its definition as a list. *)
LEMMA LeafBucket ==
    ASSUME NEW t, NEW root, NEW K, Tree(t, root, K), NEW d \in Key, NEW l \in Level
    PROVE  Bucket(List(t, At(d, l)), root, K, d, l) /\ List(t, At(d, l)) \subseteq Cells(t)
<1>1. CASE At(d, l) \in DOMAIN t
  BY Zenon, <1>1 DEF Tree, List, Cells
<1>2. CASE At(d, l) \notin DOMAIN t
  <2>1. List(t, At(d, l)) = {}
    BY Zenon, <1>2 DEF List
  <2>2. Bucket({}, root, K, d, l)
    BY FS_EmptySet, LevelsAssumption DEF Bucket
  <2> QED BY Zenon, <2>1, <2>2
<1> QED BY Zenon, <1>1, <1>2

(* Some of the cells of a bucket. *)
LEMMA SubBucket ==
    ASSUME NEW S, NEW root, NEW K, NEW d, NEW l, Bucket(S, root, K, d, l),
           NEW R, R \subseteq S, NEW e, NEW i, \A c \in R : Agree(c.dist, e, i)
    PROVE  Bucket(R, root, K, e, i)
<1>1. IsFiniteSet(S) /\ R \in SUBSET S
  BY Zenon DEF Bucket
<1>2. /\ IsFiniteSet(R) /\ Cardinality(R) <= Cardinality(S)
      /\ Cardinality(R) \in Nat /\ Cardinality(S) \in Nat
  BY Zenon, <1>1, FS_Subset, FS_CardinalityType
<1>3. Cardinality(R) <= K_BUCKET
  BY <1>2, LevelsAssumption DEF Bucket
<1> QED BY Zenon, <1>2, <1>3 DEF Bucket

(* A cell whose distance has the bits of d up to the leaf of d is there. *)
LEMMA InLeaf ==
    ASSUME NEW t, NEW root, NEW K, Tree(t, root, K), NEW d \in Key, NEW l, IsLeaf(t, d, l),
           NEW c \in Cells(t), Agree(c.dist, d, l)
    PROVE  At(d, l) \in DOMAIN t /\ c \in t[At(d, l)]
<1>0. DOMAIN t \subseteq Node /\ l \in Level /\ l \in Nat
  BY DEF Tree, IsLeaf, Level
<1>1. PICK n \in DOMAIN t : c \in t[n]
  BY Zenon DEF Cells
<1>2. c.dist \in Key /\ n = At(c.dist, n[1]) /\ n[1] = LeafLevel(t, c.dist)
  BY <1>1, CellAt
<1>3. Agree(d, c.dist, l)
  BY Zenon, <1>0, AgreeFacts
<1>4. ~HasChild(t, c.dist, l)
  BY Zenon, <1>0, <1>2, Child DEF IsLeaf
<1>5. ASSUME NEW i \in 1 .. l - 1
      PROVE  HasChild(t, c.dist, i)
  <2>1. i \in Nat /\ i <= l /\ i \in Level
    BY <1>0, LevelsAssumption DEF Level
  <2>2. Agree(d, c.dist, i)
    BY Zenon, <1>0, <1>3, <2>1, AgreeFacts
  <2>3. HasChild(t, d, i)
    BY Zenon, <1>5 DEF IsLeaf
  <2> QED BY Zenon, <1>0, <1>2, <2>1, <2>2, <2>3, Child
<1>6. IsLeaf(t, c.dist, l)
  BY Zenon, <1>0, <1>4, <1>5 DEF IsLeaf
<1>7. l = LeafLevel(t, c.dist)
  BY Zenon, <1>0, <1>2, <1>6, LeafUnique
<1>8. At(d, l) = At(c.dist, l)
  BY <1>0, <1>2, <1>3, AtSame
<1> QED BY Zenon, <1>1, <1>2, <1>7, <1>8

Puts(t, u, n, B) ==
    DOMAIN u = DOMAIN t /\ u[n] = B /\ \A m \in DOMAIN t : m # n => u[m] = t[m]

(* A leaf with other cells leaves a tree, and changes its cells by those. *)
LEMMA Put ==
    ASSUME NEW t, NEW root, NEW K, Tree(t, root, K), NEW d \in Key, NEW l \in Level,
           At(d, l) \in DOMAIN t, ~HasChild(t, d, l),
           NEW B, Bucket(B, root, K, d, l),
           NEW u, Puts(t, u, At(d, l), B)
    PROVE  Tree(u, root, K) /\ Cells(u) = (Cells(t) \ t[At(d, l)]) \cup B
<1>1. DOMAIN u = DOMAIN t /\ u[At(d, l)] = B /\ \A n \in DOMAIN t : n # At(d, l) => u[n] = t[n]
  BY Zenon DEF Puts
<1>2. \A e \in Key : \A i : HasChild(u, e, i) <=> HasChild(t, e, i)
  BY Zenon, <1>1 DEF HasChild
<1>3. ASSUME NEW e \in Key, NEW i \in Level, At(e, i) \in DOMAIN u
      PROVE  Bucket(u[At(e, i)], root, K, e, i) /\ Grown(u, e, i)
  <2>1. Bucket(t[At(e, i)], root, K, e, i) /\ Grown(t, e, i)
    BY Zenon, <1>1, <1>3 DEF Tree
  <2>2. CASE At(e, i) = At(d, l)
    <3>1. i = l /\ Agree(e, d, l)
      BY <2>2, AtSame
    <3>2. \A c \in B : Agree(c.dist, d, l) => Agree(c.dist, e, l)
      BY Zenon, <3>1 DEF Agree
    <3>3. Bucket(B, root, K, e, l)
      BY Zenon, <3>2 DEF Bucket
    <3>4. ~HasChild(t, e, l)
      BY Zenon, <3>1, Child DEF Tree
    <3> QED BY Zenon, <1>1, <1>2, <2>1, <2>2, <3>1, <3>3, <3>4 DEF Grown
  <2>3. CASE At(e, i) # At(d, l)
    BY Zenon, <1>1, <1>2, <1>3, <2>1, <2>3 DEF Grown
  <2> QED BY Zenon, <2>2, <2>3
<1>4. Tree(u, root, K)
  BY Zenon, <1>1, <1>3 DEF Tree
<1>5. \A n \in DOMAIN t : n # At(d, l) => \A c \in t[n] : c \notin t[At(d, l)]
  BY Zenon, Unique
<1>6. Cells(u) = (Cells(t) \ t[At(d, l)]) \cup B
  BY <1>1, <1>5 DEF Cells
<1> QED BY Zenon, <1>4, <1>6

(* Removing the cell of a key. *)
LEMMA RemoveTree ==
    ASSUME NEW t, NEW root \in Key, NEW K, Tree(t, root, K), K \subseteq Key, NEW key \in K
    PROVE  /\ Held(t, root, key) = {c \in Cells(t) : c.key = key}
           /\ Tree(remove(t, root, key), root, K)
           /\ Cells(remove(t, root, key)) = Cells(t) \ Held(t, root, key)
<1> DEFINE d == xor(root, key)
           l == LeafLevel(t, d)
           H == Held(t, root, key)
<1>0. d \in Key
  BY Zenon DEF xor, Key
<1>1. IsLeaf(t, d, l) /\ l \in Level /\ ~HasChild(t, d, l) /\ l \in Nat
  BY <1>0, LeafExists DEF Tree, IsLeaf, Level
<1>2. H = {c \in List(t, At(d, l)) : c.key = key}
  BY Zenon DEF Held
<1>3. List(t, At(d, l)) \subseteq Cells(t) /\ Bucket(List(t, At(d, l)), root, K, d, l)
  BY Zenon, <1>0, <1>1, LeafBucket
<1>4. remove(t, root, key) = IF At(d, l) \in DOMAIN t THEN [t EXCEPT ![At(d, l)] = @ \ H] ELSE t
  BY Zenon DEF remove
<1> HIDE DEF l, H
<1>5. ASSUME NEW c \in Cells(t), c.key = key
      PROVE  c \in H
  <2>1. PICK n \in DOMAIN t : c \in t[n]
    BY Zenon DEF Cells
  <2>2. c.dist = d
    BY <1>5, <2>1, CellAt
  <2>3. Agree(c.dist, d, l)
    BY Zenon, <1>1, <2>2, AgreeFacts
  <2>4. At(d, l) \in DOMAIN t /\ c \in t[At(d, l)]
    BY Zenon, <1>0, <1>1, <2>3, InLeaf
  <2> QED BY Zenon, <1>2, <1>5, <2>4 DEF List
<1>6. H = {c \in Cells(t) : c.key = key}
  BY Zenon, <1>2, <1>3, <1>5
<1>7. CASE At(d, l) \notin DOMAIN t
  <2>1. H = {}
    BY Zenon, <1>2, <1>7 DEF List
  <2> QED BY Zenon, <1>4, <1>6, <1>7, <2>1 DEF H
<1>8. CASE At(d, l) \in DOMAIN t
  <2> DEFINE B == t[At(d, l)] \ H
             u == [t EXCEPT ![At(d, l)] = B]
  <2>1. List(t, At(d, l)) = t[At(d, l)]
    BY Zenon, <1>8 DEF List
  <2>2. remove(t, root, key) = u
    BY Zenon, <1>4, <1>8
  <2>3. Bucket(B, root, K, d, l)
    <3>1. B \subseteq List(t, At(d, l)) /\ \A c \in B : Agree(c.dist, d, l)
      BY Zenon, <1>3, <2>1 DEF Bucket
    <3> HIDE DEF B, d, u
    <3> QED BY Zenon, <1>3, <3>1, SubBucket
  <2>10. Puts(t, u, At(d, l), B)
    BY Zenon, <1>8 DEF Puts
  <2> HIDE DEF B, u, d
  <2>4. Tree(u, root, K) /\ Cells(u) = (Cells(t) \ t[At(d, l)]) \cup B
    BY <1>0, <1>1, <1>8, <2>3, <2>10, Put
  <2>5. Cells(u) = Cells(t) \ H
    BY Zenon, <1>2, <1>3, <2>1, <2>4 DEF B
  <2> QED BY Zenon, <1>6, <2>2, <2>4, <2>5 DEF H
<1> QED BY Zenon, <1>7, <1>8

(* A child, as a key that leads there. *)
LEMMA ChildKey ==
    ASSUME NEW t, DOMAIN t \subseteq Node, NEW d \in Key, NEW l \in Level
    PROVE  HasChild(t, d, l) <=>
               /\ l + 1 \in Level
               /\ \E g \in Key : Agree(g, d, l) /\ At(g, l + 1) \in DOMAIN t
<1>0. l \in Nat /\ l + 1 - 1 = l
  BY DEF Level
<1>1. Agree(d, d, l)
  BY Zenon, <1>0, AgreeFacts
<1>2. ASSUME HasChild(t, d, l)
      PROVE  /\ l + 1 \in Level
             /\ \E g \in Key : Agree(g, d, l) /\ At(g, l + 1) \in DOMAIN t
  <2>1. l + 1 \in Level
    BY Zenon, <1>1, <1>2, Child
  <2>2. /\ Flip(d, l + 1) \in Key /\ Agree(Flip(d, l + 1), d, l)
        /\ Sibling(d, l + 1) = At(Flip(d, l + 1), l + 1)
    BY <1>0, <2>1, FlipFacts
  <2> QED BY Zenon, <1>1, <1>2, <2>1, <2>2 DEF HasChild
<1>3. ASSUME l + 1 \in Level, NEW g \in Key, Agree(g, d, l), At(g, l + 1) \in DOMAIN t
      PROVE  HasChild(t, d, l)
  BY Zenon, <1>3, Child DEF HasChild
<1> QED BY Zenon, <1>2, <1>3

----------------------------------------------------------------------------
(* Splits *)

(* What Split does, in terms of keys: At(d, i) exists up to level `to`, and so
   do the siblings below the leaf that is split. *)
Below(e, d, from, to, i) == i \in from + 1 .. to /\ Agree(e, Flip(d, i), i)

Divided(t, u, S, d, from, to) ==
    /\ DOMAIN u \subseteq Node
    /\ \A e \in Key, i \in Level : At(e, i) \in DOMAIN u <=>
          At(e, i) \in DOMAIN t \/ (i <= to /\ Agree(e, d, i)) \/ Below(e, d, from, to, i)
    /\ u[At(d, to)] = {c \in S : Agree(c.dist, d, to)}
    /\ \A i \in from .. to - 1 : u[At(d, i)] = {}
    /\ \A e \in Key, i \in Level : Below(e, d, from, to, i) =>
          u[At(e, i)] = {c \in S : Agree(c.dist, e, i)}
    /\ \A e \in Key, i \in Level :
          /\ At(e, i) \in DOMAIN u /\ ~Below(e, d, from, to, i)
          /\ ~(i \in from .. to /\ Agree(e, d, i))
          => u[At(e, i)] = List(t, At(e, i))

LEMMA SplitDivides ==
    ASSUME NEW t, DOMAIN t \subseteq Node, NEW d \in Key, NEW from \in Level, NEW to \in from .. MAX_LEVEL,
           NEW S, \A c \in S : c.dist \in Key
    PROVE  Divided(t, Split(t, S, d, from, to), S, d, from, to)
<1> DEFINE u == Split(t, S, d, from, to)
           N == DOMAIN t \cup {At(d, l) : l \in 1 .. to} \cup {Sibling(d, l) : l \in from + 1 .. to}
<1>0. /\ to \in Level /\ from \in Nat /\ to \in Nat /\ 1 .. to \subseteq Level /\ from .. to \subseteq Level
      /\ from + 1 .. to \subseteq Level
  BY LevelsAssumption DEF Level
<1>1. DOMAIN u = N
  BY Zenon DEF Split
<1>2. ASSUME NEW e \in Key, NEW i \in Level
      PROVE  /\ \A l \in Level : At(e, i) = At(d, l) <=> i = l /\ Agree(e, d, i)
             /\ \A l \in Level : At(e, i) = Sibling(d, l) <=> i = l /\ Agree(e, Flip(d, i), i)
             /\ At(e, i)[1] = i
             /\ Agree(e, Flip(d, i), i) => ~Agree(e, d, i)
  <2>1. \A l \in Level : Flip(d, l) \in Key /\ Sibling(d, l) = At(Flip(d, l), l) /\ Flip(d, l)[l - 1] # d[l - 1]
    BY Zenon, FlipFacts
  <2>2. i - 1 \in 0 .. i - 1
    BY DEF Level
  <2>3. Agree(e, Flip(d, i), i) => ~Agree(e, d, i)
    BY Zenon, <2>1, <2>2 DEF Agree
  <2>4. \A l \in Level : At(e, i) = At(d, l) <=> i = l /\ Agree(e, d, i)
    BY Zenon, AtSame
  <2>5. \A l \in Level : At(e, i) = At(Flip(d, l), l) <=> i = l /\ Agree(e, Flip(d, l), i)
    BY <2>1, AtSame
  <2> QED BY Zenon, <2>1, <2>3, <2>4, <2>5, Nodes
<1>3. DOMAIN u \subseteq Node
  <2>1. \A l \in Level : At(d, l) \in Node /\ Sibling(d, l) \in Node
    BY Nodes, FlipFacts
  <2> HIDE DEF u
  <2> QED BY Zenon, <1>0, <1>1, <2>1
<1>4. ASSUME NEW e \in Key, NEW i \in Level
      PROVE  At(e, i) \in DOMAIN u <=>
                At(e, i) \in DOMAIN t \/ (i <= to /\ Agree(e, d, i)) \/ Below(e, d, from, to, i)
  <2>1. At(e, i) \in {At(d, l) : l \in 1 .. to} <=> i <= to /\ Agree(e, d, i)
    BY <1>0, <1>2 DEF Level
  <2>2. At(e, i) \in {Sibling(d, l) : l \in from + 1 .. to} <=> Below(e, d, from, to, i)
    BY <1>0, <1>2 DEF Below
  <2> QED BY Zenon, <1>1, <2>1, <2>2
<1>5. ASSUME NEW n \in N
      PROVE  u[n] = CASE n = At(d, to) -> Shares(S, d, to)
                      [] \E l \in from .. to - 1 : n = At(d, l) -> {}
                      [] \E l \in from + 1 .. to : n = Sibling(d, l) ->
                            {c \in S : At(c.dist, n[1]) = n}
                      [] OTHER -> List(t, n)
  BY Zenon DEF Split
<1> HIDE DEF u, N
<1>6. ASSUME NEW e \in Key, NEW i \in Level, At(e, i) \in N
      PROVE  /\ i = to /\ Agree(e, d, i) => u[At(e, i)] = {c \in S : Agree(c.dist, d, to)}
             /\ i \in from .. to - 1 /\ Agree(e, d, i) => u[At(e, i)] = {}
             /\ Below(e, d, from, to, i) => u[At(e, i)] = {c \in S : Agree(c.dist, e, i)}
             /\ ~Below(e, d, from, to, i) /\ ~(i \in from .. to /\ Agree(e, d, i))
                    => u[At(e, i)] = List(t, At(e, i))
  <2> DEFINE n == At(e, i)
  <2>1. n = At(d, to) <=> i = to /\ Agree(e, d, i)
    BY <1>0, <1>2
  <2>2. (\E l \in from .. to - 1 : n = At(d, l)) <=> i \in from .. to - 1 /\ Agree(e, d, i)
    <3>1. from .. to - 1 \subseteq Level
      BY <1>0, LevelsAssumption DEF Level
    <3> QED BY <1>2, <3>1
  <2>3. (\E l \in from + 1 .. to : n = Sibling(d, l)) <=> Below(e, d, from, to, i)
    BY <1>0, <1>2 DEF Below
  <2>4. Shares(S, d, to) = {c \in S : Agree(c.dist, d, to)}
    BY <1>0, AtSame DEF Shares
  <2>5. n[1] = i
    BY Zenon, <1>2
  <2>6. {c \in S : At(c.dist, n[1]) = n} = {c \in S : Agree(c.dist, e, i)}
    BY <2>5, AtSame
  <2>7. Below(e, d, from, to, i) => ~Agree(e, d, i)
    BY Zenon, <1>2 DEF Below
  <2>8. i \in from .. to <=> i = to \/ i \in from .. to - 1
    BY <1>0 DEF Level
  <2>9. i = to => i \notin from .. to - 1
    BY <1>0
  <2> QED BY Zenon, <1>5, <1>6, <2>1, <2>2, <2>3, <2>4, <2>6, <2>7, <2>8, <2>9
<1>7. /\ \A i \in 1 .. to : At(d, i) \in N /\ Agree(d, d, i)
  BY <1>0, AgreeFacts DEF N
<1>8. \A e \in Key, i \in Level : Below(e, d, from, to, i) => At(e, i) \in N
  BY Zenon, <1>1, <1>4
<1>9. u[At(d, to)] = {c \in S : Agree(c.dist, d, to)}
  BY <1>0, <1>6, <1>7 DEF Level
<1>10. \A i \in from .. to - 1 : u[At(d, i)] = {}
  <2>1. \A i \in from .. to - 1 : i \in Level /\ i \in 1 .. to
    BY <1>0, LevelsAssumption DEF Level
  <2> QED BY Zenon, <2>1, <1>6, <1>7
<1> QED BY Zenon, <1>1, <1>3, <1>4, <1>6, <1>8, <1>9, <1>10 DEF Divided, u

(* A divided tree is a tree, and its leaf on the path of d is at level `to`. *)
LEMMA DividedTree ==
    ASSUME NEW t, NEW root, NEW K, Tree(t, root, K), NEW d \in Key, NEW from, IsLeaf(t, d, from),
           NEW to \in from .. MAX_LEVEL, NEW S, S \subseteq List(t, At(d, from)),
           NEW u, Divided(t, u, S, d, from, to)
    PROVE  /\ Tree(u, root, K) /\ At(d, to) \in DOMAIN u /\ ~HasChild(u, d, to)
           /\ Cells(u) = (Cells(t) \ List(t, At(d, from))) \cup S
<1>0. /\ from \in Level /\ to \in Level /\ from \in Nat /\ to \in Nat /\ from <= to
      /\ DOMAIN t \subseteq Node /\ DOMAIN u \subseteq Node /\ ~HasChild(t, d, from)
  BY LevelsAssumption DEF Level, IsLeaf, Tree, Divided
<1>1. \A i \in Level : i \in Nat /\ i >= 1 /\ i <= MAX_LEVEL /\ MAX_LEVEL \in Nat
  BY LevelsAssumption DEF Level
<1>2. /\ Bucket(List(t, At(d, from)), root, K, d, from) /\ List(t, At(d, from)) \subseteq Cells(t)
      /\ \A c \in S : c.dist \in Key /\ Agree(c.dist, d, from)
  <2>1. Bucket(List(t, At(d, from)), root, K, d, from) /\ List(t, At(d, from)) \subseteq Cells(t)
    BY Zenon, <1>0, LeafBucket
  <2> QED BY Zenon, <2>1 DEF Bucket
(* Nothing of t is below its leaf. *)
<1>3. ASSUME NEW e \in Key, NEW i \in Level, i > from, Agree(e, d, from)
      PROVE  At(e, i) \notin DOMAIN t
  <2>1. SUFFICES ASSUME At(e, i) \in DOMAIN t PROVE FALSE
    BY Zenon
  <2>2. from + 1 \in 1 .. i /\ from + 1 \in Level
    BY <1>0, <1>1, <1>3 DEF Level
  <2>3. At(e, from + 1) \in DOMAIN t
    BY Zenon, <2>1, <2>2 DEF Tree, Grown
  <2> QED BY Zenon, <1>0, <1>3, <2>2, <2>3, ChildKey
<1>4. ASSUME NEW e \in Key, NEW i \in Level
      PROVE  /\ Below(e, d, from, to, i) => ~Agree(e, d, i) /\ Agree(e, d, i - 1) /\ i > from /\ i <= to
             /\ i \in from + 1 .. to /\ Agree(e, d, i - 1) /\ ~Agree(e, d, i) => Below(e, d, from, to, i)
  <2>1. Flip(d, i) \in Key /\ Agree(Flip(d, i), d, i - 1) /\ Flip(d, i)[i - 1] # d[i - 1]
    BY Zenon, FlipFacts
  <2>2. i \in Nat /\ i - 1 \in Nat /\ i - 1 \in 0 .. i - 1 /\ \A j \in 0 .. i - 1 - 1 : j \in 0 .. i - 1
    BY <1>1
  <2>3. ASSUME Below(e, d, from, to, i)
        PROVE  ~Agree(e, d, i) /\ Agree(e, d, i - 1) /\ i > from /\ i <= to
    <3>1. Agree(e, Flip(d, i), i) /\ i > from /\ i <= to
      BY <1>0, <2>2, <2>3 DEF Below
    <3> QED BY Zenon, <2>1, <2>2, <3>1 DEF Agree
  <2>4. ASSUME i \in from + 1 .. to, Agree(e, d, i - 1), ~Agree(e, d, i)
        PROVE  Below(e, d, from, to, i)
    BY Zenon, <2>4, Either DEF Below
  <2> QED BY Zenon, <2>3, <2>4
<1>5. ASSUME NEW e \in Key, NEW i \in Level, At(e, i) \in DOMAIN u, At(e, i) \notin DOMAIN t
      PROVE  Agree(e, d, i - 1) /\ i <= to
  <2>1. i \in Nat /\ i - 1 \in Nat /\ i - 1 <= i
    BY <1>1
  <2>2. (i <= to /\ Agree(e, d, i)) \/ Below(e, d, from, to, i)
    BY Zenon, <1>5 DEF Divided
  <2> QED BY <1>4, <2>1, <2>2, AgreeFacts
<1>11. ASSUME NEW e \in Key, NEW i \in Level, i + 1 \in Level,
              At(e, i + 1) \in DOMAIN u, At(e, i + 1) \notin DOMAIN t
       PROVE  Agree(e, d, i) /\ i + 1 <= to
  <2> DEFINE m == i + 1
  <2>1. m \in Level /\ m - 1 = i
    BY <1>1, <1>11
  <2> HIDE DEF m
  <2>2. At(e, m) \in DOMAIN u /\ At(e, m) \notin DOMAIN t
    BY Zenon, <1>11 DEF m
  <2>3. Agree(e, d, i) /\ m <= to
    BY Zenon, <1>5, <2>1, <2>2
  <2> QED BY Zenon, <2>3 DEF m
(* The path of d, and the siblings of its nodes. *)
<1>6. ASSUME NEW e \in Key, NEW i \in Level, i <= to, Agree(e, d, i)
      PROVE  (\A k \in 1 .. i : At(e, k) \in DOMAIN u) /\ (i > 1 => Sibling(e, i) \in DOMAIN u)
  <2>1. ASSUME NEW k \in 1 .. i PROVE At(e, k) \in DOMAIN u
    <3>1. k \in Level /\ k \in Nat /\ k <= i /\ k <= to
      BY <1>0, <1>1, <1>6 DEF Level
    <3>2. Agree(e, d, k)
      BY Zenon, <1>1, <1>6, <3>1, AgreeFacts
    <3> QED BY Zenon, <3>1, <3>2 DEF Divided
  <2>2. ASSUME i > 1 PROVE Sibling(e, i) \in DOMAIN u
    <3>1. /\ Flip(e, i) \in Key /\ Sibling(e, i) = At(Flip(e, i), i)
          /\ Agree(Flip(e, i), e, i - 1) /\ Flip(e, i)[i - 1] # e[i - 1]
      BY Zenon, FlipFacts
    <3>2. CASE i > from
      <4>1. i \in from + 1 .. to /\ i - 1 \in Nat /\ i - 1 <= i /\ i \in Nat /\ i - 1 \in 0 .. i - 1
        BY <1>0, <1>1, <1>6, <3>2
      <4>2. Agree(e, d, i - 1)
        BY Zenon, <1>6, <4>1, AgreeFacts
      <4>3. Agree(Flip(e, i), d, i - 1)
        BY Zenon, <3>1, <4>1, <4>2, AgreeFacts
      <4>4. ~Agree(Flip(e, i), d, i)
        BY Zenon, <1>6, <3>1, <4>1 DEF Agree
      <4>5. Below(Flip(e, i), d, from, to, i)
        BY Zenon, <1>4, <3>1, <4>1, <4>3, <4>4
      <4> QED BY <3>1, <4>5 DEF Divided
    <3>3. CASE ~(i > from)
      <4>1. i \in 1 .. from - 1 \/ (i = from /\ from > 1)
        <5>1. i \in Nat
          BY Zenon, <1>1
        <5> QED BY <1>0, <2>2, <3>3, <5>1
      <4>2. At(d, i) \in DOMAIN t
        BY Zenon, <4>1, Path
      <4>3. At(e, i) \in DOMAIN t
        BY <1>6, <4>2, AtSame
      <4>4. Sibling(e, i) \in DOMAIN t
        BY Zenon, <2>2, <4>3 DEF Tree, Grown
      <4> QED BY <3>1, <4>4 DEF Divided
    <3> QED BY Zenon, <3>2, <3>3
  <2> QED BY Zenon, <2>1, <2>2

<1>12. ASSUME NEW e \in Key, Agree(e, d, to)
       PROVE  ~HasChild(u, e, to)
  <2>1. SUFFICES ASSUME to + 1 \in Level, NEW g \in Key, Agree(g, e, to), At(g, to + 1) \in DOMAIN u
                 PROVE  FALSE
    BY Zenon, <1>0, ChildKey
  <2>2. ~(to + 1 <= to) /\ to + 1 > from
    BY <1>0
  <2>3. Agree(g, d, to)
    BY Zenon, <1>0, <1>12, <2>1, AgreeFacts
  <2>4. Agree(g, d, from)
    BY Zenon, <1>0, <2>3, AgreeFacts
  <2> QED BY Zenon, <1>0, <1>3, <1>11, <2>1, <2>2, <2>4
(* The nodes of the divided tree, one kind at a time. *)
<1>7. ASSUME NEW e \in Key, NEW i \in Level, At(e, i) \in DOMAIN u
      PROVE  Bucket(u[At(e, i)], root, K, e, i) /\ Grown(u, e, i)
  <2>1. CASE i <= to /\ Agree(e, d, i)
    <3>1. (\A k \in 1 .. i : At(e, k) \in DOMAIN u) /\ (i > 1 => Sibling(e, i) \in DOMAIN u)
      BY Zenon, <1>6, <2>1
    <3>2. At(e, i) = At(d, i)
      BY <2>1, AtSame
    <3>3. CASE i = to
      <4>1. u[At(e, i)] = {c \in S : Agree(c.dist, d, to)}
        BY Zenon, <3>2, <3>3 DEF Divided
      <4>2. \A c \in u[At(e, i)] : Agree(c.dist, e, i)
        BY Zenon, <2>1, <3>3, <4>1 DEF Agree
      <4>3. Bucket(u[At(e, i)], root, K, e, i)
        BY Zenon, <1>2, <4>1, <4>2, SubBucket
      <4>4. ~HasChild(u, e, i)
        BY Zenon, <1>12, <2>1, <3>3
      <4> QED BY Zenon, <3>1, <4>3, <4>4 DEF Grown
    <3>4. CASE i # to
      <4>1. u[At(e, i)] = {}
        <5>1. CASE i \in from .. to - 1
          BY Zenon, <3>2, <5>1 DEF Divided
        <5>2. CASE i \in 1 .. from - 1
          <6>1. At(d, i) \in DOMAIN t /\ HasChild(t, d, i)
            BY Zenon, <5>2, Path DEF IsLeaf
          <6>2. t[At(d, i)] = {}
            BY Zenon, <6>1 DEF Tree, Grown
          <6>3. i \notin from .. to /\ i \notin from + 1 .. to
            BY <1>0, <5>2
          <6>4. u[At(e, i)] = List(t, At(e, i))
            BY Zenon, <1>7, <6>3 DEF Divided, Below
          <6> QED BY Zenon, <3>2, <6>1, <6>2, <6>4 DEF List
        <5> QED BY <1>0, <1>1, <2>1, <3>4, <5>1, <5>2
      <4>2. Bucket({}, root, K, e, i)
        BY Zenon, <1>2, SubBucket
      <4> QED BY Zenon, <3>1, <4>1, <4>2 DEF Grown
    <3> QED BY Zenon, <3>3, <3>4
  <2>2. CASE Below(e, d, from, to, i)
    <3>1. /\ i \in Nat /\ i - 1 \in Nat /\ i > from /\ from <= i - 1 /\ i <= to
          /\ Agree(e, d, i - 1) /\ ~Agree(e, d, i)
      BY <1>0, <1>1, <1>4, <2>2
    <3>2. u[At(e, i)] = {c \in S : Agree(c.dist, e, i)}
      BY Zenon, <2>2 DEF Divided
    <3>3. Bucket(u[At(e, i)], root, K, e, i)
      BY Zenon, <1>2, <3>2, SubBucket
    <3>4. ASSUME NEW k \in 1 .. i PROVE At(e, k) \in DOMAIN u
      <4>1. CASE k = i
        BY Zenon, <1>7, <4>1
      <4>2. CASE k # i
        <5>1. k \in Level /\ k \in Nat /\ k <= i - 1 /\ k <= to
          BY <1>0, <1>1, <3>1, <3>4, <4>2 DEF Level
        <5>2. Agree(e, d, k)
          BY <3>1, <5>1, AgreeFacts
        <5> QED BY Zenon, <5>1, <5>2 DEF Divided
      <4> QED BY Zenon, <4>1, <4>2
    <3>5. Sibling(e, i) \in DOMAIN u
      <4>1. /\ Flip(e, i) \in Key /\ Sibling(e, i) = At(Flip(e, i), i)
            /\ Agree(Flip(e, i), e, i - 1) /\ Flip(e, i)[i - 1] # e[i - 1]
        BY Zenon, FlipFacts
      <4>2. Agree(Flip(e, i), d, i - 1)
        BY Zenon, <3>1, <4>1, AgreeFacts
      <4>3. Agree(Flip(e, i), d, i) \/ Below(Flip(e, i), d, from, to, i)
        <5>1. i \in from + 1 .. to
          BY <1>0, <3>1
        <5> QED BY Zenon, <1>4, <4>1, <4>2, <5>1
      <4> QED BY <3>1, <4>1, <4>3 DEF Divided
    <3>6. ~HasChild(u, e, i)
      <4>1. SUFFICES ASSUME i + 1 \in Level, NEW g \in Key, Agree(g, e, i), At(g, i + 1) \in DOMAIN u
                     PROVE  FALSE
        BY Zenon, <1>0, ChildKey
      <4>2. i + 1 > from /\ i + 1 - 1 = i
        BY <1>0, <3>1
      <4>3. Agree(g, e, i - 1)
        BY <3>1, <4>1, AgreeFacts
      <4>4. Agree(g, d, i - 1)
        BY <3>1, <4>3, AgreeFacts
      <4>5. Agree(g, d, from)
        BY Zenon, <1>0, <3>1, <4>4, AgreeFacts
      <4>6. Agree(g, d, i)
        BY Zenon, <1>3, <1>11, <4>1, <4>2, <4>5
      <4>7. Agree(e, d, i)
        BY Zenon, <4>1, <4>6 DEF Agree
      <4> QED BY Zenon, <3>1, <4>7
    <3> QED BY Zenon, <3>3, <3>4, <3>5, <3>6 DEF Grown
  <2>3. CASE At(e, i) \in DOMAIN t /\ ~Agree(e, d, i)
    <3>1. Bucket(t[At(e, i)], root, K, e, i) /\ Grown(t, e, i)
      BY Zenon, <2>3 DEF Tree
    <3>2. ~Below(e, d, from, to, i)
      <4>1. SUFFICES ASSUME Below(e, d, from, to, i) PROVE FALSE
        BY Zenon
      <4>2. Agree(e, d, i - 1) /\ i > from /\ i - 1 \in Nat /\ from <= i - 1
        BY <1>0, <1>1, <1>4, <4>1
      <4>3. Agree(e, d, from)
        BY Zenon, <1>0, <4>2, AgreeFacts
      <4> QED BY Zenon, <1>3, <2>3, <4>2, <4>3
    <3>3. u[At(e, i)] = t[At(e, i)]
      BY Zenon, <1>7, <2>3, <3>2 DEF Divided, List
    <3>4. (\A k \in 1 .. i : At(e, k) \in DOMAIN u) /\ (i > 1 => Sibling(e, i) \in DOMAIN u)
      <4>1. \A k \in 1 .. i : k \in Level
        BY <1>1 DEF Level
      <4> QED BY <3>1, <4>1, FlipFacts DEF Grown, Divided
    <3>5. HasChild(u, e, i) => HasChild(t, e, i)
      <4>1. SUFFICES ASSUME i + 1 \in Level, NEW g \in Key, Agree(g, e, i), At(g, i + 1) \in DOMAIN u
                     PROVE  At(g, i + 1) \in DOMAIN t
        BY Zenon, <1>0, ChildKey
      <4>3. ~Agree(g, d, i)
        BY Zenon, <2>3, <4>1 DEF Agree
      <4> QED BY Zenon, <1>11, <4>1, <4>3
    <3> QED BY Zenon, <3>1, <3>3, <3>4, <3>5 DEF Grown
  <2>4. At(e, i) \in DOMAIN t /\ Agree(e, d, i) => i <= to
    <3>1. At(e, i) \in DOMAIN t /\ Agree(e, d, i) => At(d, i) \in DOMAIN t
      BY AtSame
    <3>2. At(d, i) \in DOMAIN t => i <= from
      BY Zenon, Path
    <3>3. i \in Nat
      BY Zenon, <1>1
    <3> QED BY <1>0, <3>1, <3>2, <3>3
  <2> QED BY Zenon, <1>7, <2>1, <2>2, <2>3, <2>4 DEF Divided
<1>8. Tree(u, root, K)
  BY Zenon, <1>0, <1>7 DEF Tree

<1>9. At(d, to) \in DOMAIN u /\ ~HasChild(u, d, to)
  <2>1. Agree(d, d, to) /\ to \in 1 .. to
    BY <1>0, AgreeFacts DEF Level
  <2> QED BY <1>0, <1>6, <1>12, <2>1
(* Its cells. *)
<1>13. ASSUME NEW c \in Cells(u)
       PROVE  c \in (Cells(t) \ List(t, At(d, from))) \cup S
  <2>1. PICK n \in DOMAIN u : c \in u[n]
    BY Zenon DEF Cells
  <2>2. PICK e \in Key, i \in Level : n = At(e, i)
    BY Zenon, <1>0, <2>1, Nodes
  <2>3. CASE Below(e, d, from, to, i)
    BY <2>1, <2>2, <2>3 DEF Divided
  <2>4. CASE i \in from .. to /\ Agree(e, d, i)
    <3>1. n = At(d, i)
      BY <2>2, <2>4, AtSame
    <3>2. i = to \/ i \in from .. to - 1
      BY <1>0, <2>4
    <3> QED BY Zenon, <2>1, <3>1, <3>2 DEF Divided
  <2>5. CASE ~Below(e, d, from, to, i) /\ ~(i \in from .. to /\ Agree(e, d, i))
    <3>1. u[n] = List(t, n)
      BY Zenon, <2>1, <2>2, <2>5 DEF Divided
    <3>2. n \in DOMAIN t /\ c \in t[n]
      BY Zenon, <2>1, <3>1 DEF List
    <3>3. from \in from .. to
      BY <1>0
    <3>4. n # At(d, from)
      <4>1. At(e, i) = At(d, from) => i = from /\ Agree(e, d, i)
        BY Zenon, <1>0, AtSame
      <4> QED BY Zenon, <2>2, <2>5, <3>3, <4>1
    <3>5. c \notin List(t, At(d, from))
      BY Zenon, <3>2, <3>4, Unique DEF List
    <3> QED BY Zenon, <3>2, <3>5 DEF Cells
  <2> QED BY Zenon, <2>3, <2>4, <2>5
<1>14. ASSUME NEW c \in Cells(t), c \notin List(t, At(d, from))
       PROVE  c \in Cells(u)
  <2>1. PICK n \in DOMAIN t : c \in t[n]
    BY Zenon DEF Cells
  <2> DEFINE i == n[1]
  <2>2. c.dist \in Key /\ i \in Level /\ n = At(c.dist, i) /\ IsLeaf(t, c.dist, i)
    BY <2>1, CellAt
  <2> HIDE DEF i
  <2>3. i \in Nat
    BY Zenon, <1>1, <2>2
  <2>4. ~Agree(c.dist, d, i)
    <3>1. SUFFICES ASSUME Agree(c.dist, d, i) PROVE FALSE
      BY Zenon
    <3>2. n = At(d, i) /\ Agree(d, c.dist, i)
      BY <2>2, <2>3, <3>1, AtSame, AgreeFacts
    <3>3. i <= from
      BY Zenon, <2>1, <2>2, <3>2, Path
    <3>4. i # from
      BY Zenon, <1>14, <2>1, <3>2 DEF List
    <3>5. HasChild(t, d, i)
      <4>1. i \in 1 .. from - 1
        BY <1>0, <1>1, <2>2, <2>3, <3>3, <3>4
      <4> QED BY Zenon, <4>1 DEF IsLeaf
    <3>6. HasChild(t, c.dist, i)
      BY Zenon, <1>0, <2>2, <3>2, <3>5, Child
    <3> QED BY Zenon, <2>2, <3>6 DEF IsLeaf
  <2>5. ~Below(c.dist, d, from, to, i)
    <3>1. SUFFICES ASSUME Below(c.dist, d, from, to, i) PROVE FALSE
      BY Zenon
    <3>2. Agree(c.dist, d, i - 1) /\ i > from /\ i - 1 \in Nat /\ from <= i - 1
      BY <1>0, <1>1, <1>4, <2>2, <2>3, <3>1
    <3>3. Agree(c.dist, d, from)
      BY Zenon, <1>0, <3>2, AgreeFacts
    <3> QED BY Zenon, <1>3, <2>1, <2>2, <3>2, <3>3
  <2>6. n \in DOMAIN u /\ u[n] = t[n]
    BY Zenon, <2>1, <2>2, <2>4, <2>5 DEF Divided, List
  <2> QED BY Zenon, <2>1, <2>6 DEF Cells
<1>15. ASSUME NEW c \in S
       PROVE  c \in Cells(u)
  <2>1. CASE Agree(c.dist, d, to)
    <3>1. c \in u[At(d, to)]
      BY Zenon, <2>1 DEF Divided
    <3> QED BY Zenon, <1>9, <3>1 DEF Cells
  <2>2. CASE ~Agree(c.dist, d, to)
    <3> DEFINE T == {k \in from + 1 .. to : ~Agree(c.dist, d, k)}
    <3>1. to # from
      BY Zenon, <1>2, <2>2
    <3>2. to \in T /\ T \subseteq Nat
      BY <1>0, <2>2, <3>1
    <3>3. PICK k \in T : \A y \in T : k <= y
      BY Zenon, <3>2, LeastNat
    <3>4. k \in from + 1 .. to /\ k \in Nat /\ k \in Level /\ ~Agree(c.dist, d, k)
      BY <1>0, <1>1, <3>3 DEF Level
    <3>5. Agree(c.dist, d, k - 1)
      <4>1. CASE k - 1 = from
        BY Zenon, <1>2, <4>1
      <4>2. CASE k - 1 # from
        <5>1. k - 1 \in from + 1 .. to /\ ~(k <= k - 1)
          BY <1>0, <3>4, <4>2
        <5> QED BY Zenon, <3>3, <5>1
      <4> QED BY Zenon, <4>1, <4>2
    <3>6. Below(c.dist, d, from, to, k)
      BY Zenon, <1>2, <1>4, <3>4, <3>5
    <3>7. Agree(c.dist, c.dist, k)
      BY Zenon, <3>4, AgreeFacts
    <3>8. At(c.dist, k) \in DOMAIN u /\ c \in u[At(c.dist, k)]
      BY <1>2, <3>4, <3>6, <3>7 DEF Divided
    <3> QED BY Zenon, <3>8 DEF Cells
  <2> QED BY Zenon, <2>1, <2>2
<1> QED BY Zenon, <1>8, <1>9, <1>13, <1>14, <1>15

----------------------------------------------------------------------------
(* Insertion *)

Own(t, key) == {c \in Cells(t) : c.key = key}

Full(t) == \E B \in SUBSET Cells(t) : IsFiniteSet(B) /\ Cardinality(B) >= K_BUCKET

(* What an insertion does to the cells of a tree: the cell takes the place of
   those of its key; a full tree without any may refuse it, or give up a cell. *)
Outcome(t, cell, r) ==
    /\ r.ok \in BOOLEAN
    /\ \E gone \in SUBSET Cells(t) :
          /\ r.removed = {c.value : c \in gone}
          /\ Cells(r.tree) = (Cells(t) \ gone) \cup (IF r.ok THEN {cell} ELSE {})
          /\ \/ r.ok /\ gone = Own(t, cell.key)
             \/ /\ Own(t, cell.key) = {} /\ Full(t)
                /\ \/ ~r.ok /\ gone = {}
                   \/ r.ok /\ \E c \in Cells(t) : gone = {c}

LEMMA SplitLevelType ==
    ASSUME NEW S, NEW d, NEW from \in Level
    PROVE  SplitLevel(S, d, from) \in from .. MAX_LEVEL
<1> DEFINE T == {l \in from .. MAX_LEVEL : l = MAX_LEVEL \/ HasRoom(Shares(S, d, l))}
<1>1. MAX_LEVEL \in T /\ T \subseteq Nat
  BY LevelsAssumption DEF Level
<1>2. PICK l \in T : \A y \in T : l <= y
  BY Zenon, <1>1, LeastNat
<1>3. \A i \in from .. l - 1 : i \in from .. MAX_LEVEL /\ ~(l <= i)
  BY <1>2, LevelsAssumption DEF Level
<1>4. \A i \in from .. l - 1 : ~HasRoom(Shares(S, d, i))
  BY Zenon, <1>2, <1>3
<1>5. /\ l \in from .. MAX_LEVEL /\ (l = MAX_LEVEL \/ HasRoom(Shares(S, d, l)))
      /\ \A i \in from .. l - 1 : ~HasRoom(Shares(S, d, i))
  BY Zenon, <1>2, <1>4
<1> HIDE DEF T
<1> QED BY Zenon, <1>5 DEF SplitLevel

(* A bucket with a cell more, and with another in place of one. *)
LEMMA WithCell ==
    ASSUME NEW B, NEW root, NEW K, NEW d, NEW l, Bucket(B, root, K, d, l),
           NEW cell \in [key : K, value : ValueKey, dist : Key],
           cell.dist = xor(root, cell.key), Agree(cell.dist, d, l),
           \A c \in B : c.key # cell.key, Cardinality(B) < K_BUCKET
    PROVE  Bucket(B \cup {cell}, root, K, d, l)
<1>1. IsFiniteSet(B) /\ Cardinality(B) \in Nat
  BY Zenon, FS_CardinalityType DEF Bucket
<1>2. /\ IsFiniteSet(B \cup {cell})
      /\ Cardinality(B \cup {cell}) = IF cell \in B THEN Cardinality(B) ELSE Cardinality(B) + 1
  BY Zenon, <1>1, FS_AddElement
<1>4. Cardinality(B \cup {cell}) <= K_BUCKET
  BY <1>1, <1>2, LevelsAssumption
<1> QED BY Zenon, <1>2, <1>4 DEF Bucket

LEMMA InsteadOf ==
    ASSUME NEW B, NEW root, NEW K, NEW d, NEW l, Bucket(B, root, K, d, l), NEW c \in B,
           NEW cell \in [key : K, value : ValueKey, dist : Key],
           cell.dist = xor(root, cell.key), Agree(cell.dist, d, l),
           \A e \in B : e.key # cell.key
    PROVE  Bucket((B \ {c}) \cup {cell}, root, K, d, l)
<1>1. IsFiniteSet(B) /\ Cardinality(B) \in Nat /\ Cardinality(B) <= K_BUCKET
  BY Zenon, FS_CardinalityType DEF Bucket
<1>2. Cardinality(B \ {c}) = IF c \in B THEN Cardinality(B) - 1 ELSE Cardinality(B)
  BY Zenon, <1>1, FS_RemoveElement
<1>5. Cardinality(B \ {c}) < K_BUCKET
  BY <1>1, <1>2, LevelsAssumption
<1>3. \A e \in B \ {c} : Agree(e.dist, d, l)
  BY Zenon DEF Bucket
<1>4. Bucket(B \ {c}, root, K, d, l)
  BY Zenon, <1>3, SubBucket
<1> QED BY Zenon, <1>4, <1>5, WithCell

LEMMA Insert ==
    ASSUME NEW t, NEW root \in Key, NEW K, Tree(t, root, K), K \subseteq Key,
           NEW cell \in [key : K, value : ValueKey, dist : Key], cell.dist = xor(root, cell.key),
           NEW r \in insert(t, cell)
    PROVE  Tree(r.tree, root, K) /\ Outcome(t, cell, r)
<1> DEFINE d    == cell.dist
           from == LeafLevel(t, d)
           L    == List(t, At(d, from))
           old  == {c \in L : c.key = cell.key}
           S    == L \ old
           to   == SplitLevel(S, d, from)
           u    == Split(t, S, d, from, to)
           B    == u[At(d, to)]
           far  == {c \in B : Closer(d, c.dist)}
           drop == {c.value : c \in old}
<1>1. \/ /\ HasRoom(B)
         /\ r = [ok |-> TRUE, removed |-> drop, tree |-> [u EXCEPT ![At(d, to)] = B \cup {cell}]]
      \/ ~HasRoom(B) /\ r = [ok |-> FALSE, removed |-> drop, tree |-> u]
      \/ /\ ~HasRoom(B)
         /\ \E c \in far : r = [ok |-> TRUE, removed |-> drop \cup {c.value},
                                tree |-> [u EXCEPT ![At(d, to)] = (B \ {c}) \cup {cell}]]
  BY Zenon DEF insert
<1>2. /\ d \in Key /\ cell.key \in K /\ DOMAIN t \subseteq Node
      /\ IsLeaf(t, d, from) /\ from \in Level
  BY Zenon, LeafExists DEF Tree, IsLeaf
<1>3. old = Own(t, cell.key)
  <2>1. old = Held(t, root, cell.key)
    BY Zenon DEF Held
  <2>2. Held(t, root, cell.key) = {c \in Cells(t) : c.key = cell.key}
    BY <1>2, RemoveTree
  <2> QED BY Zenon, <2>1, <2>2 DEF Own
<1>4. Bucket(L, root, K, d, from) /\ L \subseteq Cells(t) /\ S \subseteq L
  BY Zenon, <1>2, LeafBucket
<1>5. to \in from .. MAX_LEVEL /\ to \in Level /\ to \in Nat
  <2>1. to \in from .. MAX_LEVEL
    BY Zenon, <1>2, SplitLevelType
  <2> QED BY <1>2, <2>1, LevelsAssumption DEF Level
<1>6. Divided(t, u, S, d, from, to)
  <2>1. \A c \in S : c.dist \in Key
    BY Zenon, <1>4 DEF Bucket
  <2> HIDE DEF from, S, to, d
  <2> QED BY Zenon, <1>2, <1>5, <2>1, SplitDivides DEF u
<1> HIDE DEF d, from, L, old, S, to, u, B, far, drop

<1>7. /\ Tree(u, root, K) /\ At(d, to) \in DOMAIN u /\ ~HasChild(u, d, to)
      /\ Cells(u) = (Cells(t) \ L) \cup S
  BY <1>2, <1>4, <1>5, <1>6, DividedTree DEF L
<1>8. Cells(u) = Cells(t) \ Own(t, cell.key) /\ old \subseteq Cells(t)
  BY Zenon, <1>3, <1>4, <1>7 DEF S, old, Own
<1>9. Bucket(B, root, K, d, to) /\ B \subseteq Cells(u)
  BY Zenon, <1>2, <1>5, <1>7 DEF Tree, B, Cells
<1>10. B \subseteq S /\ \A c \in B : c.key # cell.key
  <2>1. B = {c \in S : Agree(c.dist, d, to)}
    BY Zenon, <1>6 DEF Divided, B
  <2> QED BY Zenon, <2>1 DEF S, old
<1>11. Agree(cell.dist, d, to) /\ cell.dist = xor(root, cell.key)
  BY Zenon, <1>5, AgreeFacts DEF d
<1>12. ASSUME NEW C, Bucket(C, root, K, d, to), NEW w, w = [u EXCEPT ![At(d, to)] = C]
       PROVE  Tree(w, root, K) /\ Cells(w) = (Cells(u) \ B) \cup C
  <2>1. Puts(u, w, At(d, to), C)
    BY Zenon, <1>7, <1>12 DEF Puts
  <2>2. Bucket(C, root, K, d, to)
    BY Zenon, <1>12
  <2>3. Tree(w, root, K) /\ Cells(w) = (Cells(u) \ u[At(d, to)]) \cup C
    BY <1>2, <1>5, <1>7, <2>1, <2>2, Put
  <2> QED BY Zenon, <2>3 DEF B
<1>13. ~HasRoom(B) => Own(t, cell.key) = {} /\ Full(t)
  <2>1. SUFFICES ASSUME ~HasRoom(B) PROVE Own(t, cell.key) = {} /\ Full(t)
    BY Zenon
  <2>2. IsFiniteSet(L) /\ Cardinality(L) \in Nat /\ Cardinality(L) <= K_BUCKET /\ B \in SUBSET L
    BY Zenon, <1>4, <1>10, FS_CardinalityType DEF Bucket
  <2>3. IsFiniteSet(B) /\ Cardinality(B) \in Nat /\ (Cardinality(L) = Cardinality(B) => L = B)
        /\ Cardinality(B) <= Cardinality(L)
    BY Zenon, <2>2, FS_Subset, FS_CardinalityType
  <2>4. Cardinality(B) >= K_BUCKET
    BY <2>1, <2>3, LevelsAssumption DEF HasRoom
  <2>5. L = B
    BY <2>2, <2>3, <2>4, LevelsAssumption
  <2>6. old = {}
    BY Zenon, <1>10, <2>5 DEF old
  <2>7. B \in SUBSET Cells(t)
    BY Zenon, <1>4, <2>5
  <2> QED BY Zenon, <1>3, <2>3, <2>4, <2>6, <2>7 DEF Full
<1>14. drop = {c.value : c \in Own(t, cell.key)}
  BY Zenon, <1>3 DEF drop
<1>15. CASE /\ HasRoom(B)
            /\ r = [ok |-> TRUE, removed |-> drop, tree |-> [u EXCEPT ![At(d, to)] = B \cup {cell}]]
  <2>1. Bucket(B \cup {cell}, root, K, d, to)
    BY Zenon, <1>9, <1>10, <1>11, <1>15, WithCell DEF HasRoom
  <2>2. r.ok = TRUE /\ r.removed = drop /\ r.tree = [u EXCEPT ![At(d, to)] = B \cup {cell}]
    BY Zenon, <1>15
  <2>3. Tree(r.tree, root, K) /\ Cells(r.tree) = (Cells(u) \ B) \cup (B \cup {cell})
    BY Zenon, <1>12, <2>1, <2>2
  <2>4. Cells(r.tree) = (Cells(t) \ Own(t, cell.key)) \cup {cell}
    BY Zenon, <1>8, <1>9, <2>3
  <2>5. Own(t, cell.key) \in SUBSET Cells(t)
    BY Zenon DEF Own
  <2> QED BY Zenon, <1>14, <2>2, <2>3, <2>4, <2>5 DEF Outcome
<1>16. CASE ~HasRoom(B) /\ r = [ok |-> FALSE, removed |-> drop, tree |-> u]
  <2>1. r.ok = FALSE /\ r.removed = {} /\ r.tree = u
    BY Zenon, <1>13, <1>14, <1>16
  <2>2. Cells(r.tree) = Cells(t)
    BY Zenon, <1>8, <1>13, <1>16, <2>1
  <2> QED BY Zenon, <1>7, <1>13, <1>16, <2>1, <2>2 DEF Outcome
<1>17. ASSUME ~HasRoom(B), NEW c \in far,
              r = [ok |-> TRUE, removed |-> drop \cup {c.value},
                   tree |-> [u EXCEPT ![At(d, to)] = (B \ {c}) \cup {cell}]]
       PROVE  Tree(r.tree, root, K) /\ Outcome(t, cell, r)
  <2>1. c \in B
    BY Zenon DEF far
  <2>2. Bucket((B \ {c}) \cup {cell}, root, K, d, to)
    BY Zenon, <1>9, <1>10, <1>11, <2>1, InsteadOf
  <2>3. /\ r.ok = TRUE /\ r.removed = {c.value}
        /\ r.tree = [u EXCEPT ![At(d, to)] = (B \ {c}) \cup {cell}]
    BY Zenon, <1>13, <1>14, <1>17
  <2>4. Tree(r.tree, root, K) /\ Cells(r.tree) = (Cells(u) \ B) \cup ((B \ {c}) \cup {cell})
    BY Zenon, <1>12, <2>2, <2>3
  <2>5. Cells(r.tree) = (Cells(t) \ {c}) \cup {cell} /\ c \in Cells(t)
    BY Zenon, <1>8, <1>9, <1>13, <1>17, <2>1, <2>4
  <2>6. {c} \in SUBSET Cells(t) /\ r.removed = {e.value : e \in {c}}
    BY <2>3, <2>5
  <2> QED BY Zenon, <1>13, <1>17, <2>3, <2>4, <2>5, <2>6 DEF Outcome
<1> QED BY Zenon, <1>1, <1>15, <1>16, <1>17

----------------------------------------------------------------------------
(* The table *)

(* The keys of values tell peers apart, and lead to the value of the peer. *)
Valued ==
    /\ DOMAIN values \subseteq ValueKey
    /\ \A k \in DOMAIN values : values[k] \in KadValue
    /\ ValuesExact
    /\ \A c \in Cells(peers) : c.value[1] = c.key /\ values[c.value].id = c.key

IInv ==
    /\ Tree(peers, root_peer, PeerId) /\ Tree(ips, root_ip, Socket)
    /\ Valued /\ IsFiniteSet(keys(peers))

LEMMA InitInv == Init => IInv
<1> SUFFICES ASSUME Init PROVE IInv
  BY Zenon
<1>1. ASSUME NEW root, NEW K PROVE Tree(EmptyTree, root, K) /\ Cells(EmptyTree) = {}
  BY Zenon DEF EmptyTree, Tree, Cells
<1>2. Cells(peers) = {} /\ DOMAIN values = {}
  BY Zenon, <1>1 DEF Init
<1>3. keys(peers) = {}
  BY Zenon, <1>2 DEF keys
<1> QED BY Zenon, <1>1, <1>2, <1>3, FS_EmptySet DEF Init, IInv, Valued, ValuesExact

(* Any two cells with one value are the same cell. *)
LEMMA OneValue ==
    ASSUME IInv, NEW c \in Cells(peers), NEW e \in Cells(peers), c.value = e.value
    PROVE  c = e
<1>1. c.key = e.key
  BY Zenon DEF IInv, Valued
<1>2. PICK m \in DOMAIN peers : c \in peers[m]
  BY Zenon DEF Cells
<1>3. PICK n \in DOMAIN peers : e \in peers[n]
  BY Zenon DEF Cells
<1> QED BY Zenon, <1>1, <1>2, <1>3, Unique DEF IInv

(* The cells of a tree carry keys and values of their type. *)
LEMMA CellType ==
    ASSUME NEW t, NEW root, NEW K, Tree(t, root, K), NEW c \in Cells(t)
    PROVE  c \in [key : K, value : ValueKey, dist : Key] /\ c.dist = xor(root, c.key)
<1>1. PICK n \in DOMAIN t : c \in t[n]
  BY Zenon DEF Cells
<1> QED BY <1>1, CellAt

LEMMA MadeCell ==
    ASSUME NEW root \in Key, NEW K, K \subseteq Key, NEW key \in K, NEW k \in ValueKey
    PROVE  LET cell == Cell(root, key, k)
           IN  /\ cell \in [key : K, value : ValueKey, dist : Key]
               /\ cell.key = key /\ cell.value = k /\ cell.dist = xor(root, cell.key)
<1>1. xor(root, key) \in Key
  BY Zenon DEF xor, Key
<1> QED BY Zenon, <1>1 DEF Cell

(* What add does: `gone` are the cells that lose their value. *)
Adds(v, k, gone, ok) ==
    /\ k \in ValueKey /\ k[1] = v.id /\ k \notin UsedKeys
    /\ gone \subseteq Cells(peers)
    /\ Cells(peers') = (Cells(peers) \ gone) \cup (IF ok THEN {Cell(root_peer, v.id, k)} ELSE {})
    /\ values' = IF ok THEN With(Without(values, {c.value : c \in gone}), k, v)
                 ELSE Without(values, {c.value : c \in gone})
    /\ \/ ok /\ gone = Own(peers, v.id)
       \/ /\ Own(peers, v.id) = {} /\ Full(peers)
          /\ \/ ~ok /\ gone = {}
             \/ ok /\ \E c \in Cells(peers) : gone = {c}

LEMMA AddStep ==
    ASSUME IInv, NEW v \in KadValue, add(v)
    PROVE  /\ Tree(peers', root_peer, PeerId) /\ Tree(ips', root_ip, Socket)
           /\ \E k, gone : \E ok \in BOOLEAN : Adds(v, k, gone, ok)
<1> DEFINE free == ({v.id} \X Draw) \ UsedKeys
           k    == CHOOSE k \in free : TRUE
           cell == Cell(root_peer, v.id, k)
<1>1. v.id \in PeerId /\ v.socket \in Socket
  BY Zenon, KeysAssumption
<1>2. /\ free # {}
      /\ \E r \in insert(peers, cell) :
            /\ peers' = r.tree
            /\ \/ /\ r.ok
                  /\ values' = With(Without(values, r.removed), k, v)
                  /\ \E q \in insert(ips, Cell(root_ip, v.socket, k)) : ips' = q.tree
               \/ /\ ~r.ok
                  /\ values' = Without(values, r.removed)
                  /\ UNCHANGED ips
  BY Zenon DEF add
<1>3. k \in free
  BY Zenon, <1>2
<1>4. k \in ValueKey /\ k[1] = v.id /\ k \notin UsedKeys
  BY <1>1, <1>3 DEF ValueKey
<1> HIDE DEF free, k, cell
<1>5. PICK r \in insert(peers, cell) :
            /\ peers' = r.tree
            /\ \/ /\ r.ok
                  /\ values' = With(Without(values, r.removed), k, v)
                  /\ \E q \in insert(ips, Cell(root_ip, v.socket, k)) : ips' = q.tree
               \/ /\ ~r.ok
                  /\ values' = Without(values, r.removed)
                  /\ UNCHANGED ips
  BY Zenon, <1>2
<1>6. /\ cell \in [key : PeerId, value : ValueKey, dist : Key]
      /\ cell.key = v.id /\ cell.value = k /\ cell.dist = xor(root_peer, cell.key)
  BY <1>1, <1>4, MadeCell, KeysAssumption DEF cell
<1>7. Tree(r.tree, root_peer, PeerId) /\ Outcome(peers, cell, r)
  BY Zenon, <1>6, Insert, KeysAssumption DEF IInv
<1>8. Tree(ips', root_ip, Socket)
  <2>1. CASE ips' = ips
    BY Zenon, <2>1 DEF IInv
  <2>2. ASSUME NEW q \in insert(ips, Cell(root_ip, v.socket, k)), ips' = q.tree
        PROVE  Tree(ips', root_ip, Socket)
    <3> DEFINE far == Cell(root_ip, v.socket, k)
    <3>1. far \in [key : Socket, value : ValueKey, dist : Key] /\ far.dist = xor(root_ip, far.key)
      BY <1>1, <1>4, MadeCell, KeysAssumption
    <3> HIDE DEF far
    <3>2. q \in insert(ips, far)
      BY Zenon DEF far
    <3> QED BY Zenon, <2>2, <3>1, <3>2, Insert, KeysAssumption DEF IInv
  <2> QED BY Zenon, <1>5, <2>1, <2>2
<1>9. PICK gone \in SUBSET Cells(peers) :
          /\ r.removed = {c.value : c \in gone}
          /\ Cells(r.tree) = (Cells(peers) \ gone) \cup (IF r.ok THEN {cell} ELSE {})
          /\ \/ r.ok /\ gone = Own(peers, cell.key)
             \/ /\ Own(peers, cell.key) = {} /\ Full(peers)
                /\ \/ ~r.ok /\ gone = {}
                   \/ r.ok /\ \E c \in Cells(peers) : gone = {c}
  BY Zenon, <1>7 DEF Outcome
<1>10. r.ok \in BOOLEAN
  BY Zenon, <1>7 DEF Outcome
<1>11. values' = IF r.ok THEN With(Without(values, {c.value : c \in gone}), k, v)
                 ELSE Without(values, {c.value : c \in gone})
  BY Zenon, <1>5, <1>9
<1>12. Adds(v, k, gone, r.ok)
  BY Zenon, <1>4, <1>5, <1>6, <1>9, <1>11 DEF Adds, cell
<1> QED BY Zenon, <1>5, <1>7, <1>8, <1>10, <1>12

(* The values after it. *)
ValuesAfter(v, k, gone, ok) ==
    /\ k \notin DOMAIN values /\ \A c \in Cells(peers) : c.value # k
    /\ ok => k \in DOMAIN values' /\ values'[k] = v
    /\ \A c \in Cells(peers) \ gone :
        /\ c.value \in DOMAIN values /\ c.value \in DOMAIN values'
        /\ values'[c.value] = values[c.value]
    /\ DOMAIN values' = {c.value : c \in Cells(peers')}
    /\ \A x \in DOMAIN values' : values'[x] \in KadValue

LEMMA AddValues ==
    ASSUME IInv, NEW v \in KadValue, NEW k, NEW gone, NEW ok \in BOOLEAN, Adds(v, k, gone, ok)
    PROVE  ValuesAfter(v, k, gone, ok)
<1> DEFINE V == {c.value : c \in gone}
           f == Without(values, V)
           cell == Cell(root_peer, v.id, k)
<1>1. k \notin DOMAIN values /\ \A c \in Cells(peers) : c.value # k
  BY Zenon DEF Adds, UsedKeys
<1>2. DOMAIN values = {c.value : c \in Cells(peers)} /\ \A x \in DOMAIN values : values[x] \in KadValue
  BY Zenon DEF IInv, Valued, ValuesExact
<1>3. gone \subseteq Cells(peers) /\ Cells(peers') = (Cells(peers) \ gone) \cup (IF ok THEN {cell} ELSE {})
  BY Zenon DEF Adds
<1>4. values' = IF ok THEN With(f, k, v) ELSE f
  BY Zenon DEF Adds
<1>5. cell.value = k
  BY Zenon DEF Cell
<1>6. \A c \in Cells(peers) \ gone : c.value \notin V
  BY Zenon, <1>3, OneValue
<1>7. DOMAIN f = DOMAIN values \ V /\ \A x \in DOMAIN f : f[x] = values[x]
  BY Zenon DEF Without, Restrict
<1> HIDE DEF f, V, cell
<1>15. /\ DOMAIN With(f, k, v) = DOMAIN f \cup {k} /\ With(f, k, v)[k] = v
       /\ \A x \in DOMAIN f : x # k => With(f, k, v)[x] = f[x]
  BY Zenon DEF With
<1>8. DOMAIN values' = DOMAIN f \cup (IF ok THEN {k} ELSE {})
  BY Zenon, <1>4, <1>15
<1>9. \A x \in DOMAIN f : values'[x] = values[x]
  <2>1. \A x \in DOMAIN f : x # k
    BY Zenon, <1>1, <1>7
  <2> QED BY Zenon, <1>4, <1>7, <1>15, <2>1
<1>10. ok => k \in DOMAIN values' /\ values'[k] = v
  BY Zenon, <1>4, <1>8, <1>15
<1>11. DOMAIN f = {c.value : c \in Cells(peers) \ gone}
  BY Zenon, <1>2, <1>3, <1>6, <1>7 DEF V
<1>12. DOMAIN values' = {c.value : c \in Cells(peers')}
  BY Zenon, <1>3, <1>5, <1>8, <1>11
<1>13. \A c \in Cells(peers) \ gone : /\ c.value \in DOMAIN values /\ c.value \in DOMAIN values'
                                      /\ values'[c.value] = values[c.value]
  BY Zenon, <1>2, <1>8, <1>9, <1>11
<1>14. \A x \in DOMAIN values' : values'[x] \in KadValue
  BY Zenon, <1>2, <1>7, <1>8, <1>9, <1>10
<1> QED BY Zenon, <1>1, <1>10, <1>12, <1>13, <1>14 DEF ValuesAfter

LEMMA AddInv ==
    ASSUME IInv, NEW v \in KadValue, add(v)
    PROVE  IInv'
<1>1. Tree(peers', root_peer, PeerId) /\ Tree(ips', root_ip, Socket)
  BY Zenon, AddStep
<1>2. PICK k, gone : \E ok \in BOOLEAN : Adds(v, k, gone, ok)
  BY Zenon, AddStep
<1>3. PICK ok \in BOOLEAN : Adds(v, k, gone, ok)
  BY Zenon, <1>2
<1> DEFINE cell == Cell(root_peer, v.id, k)
<1>4. cell.value = k /\ cell.key = v.id /\ k[1] = v.id
  BY Zenon, <1>3 DEF Cell, Adds
<1>5. Cells(peers') = (Cells(peers) \ gone) \cup (IF ok THEN {cell} ELSE {})
  BY Zenon, <1>3 DEF Adds
<1> HIDE DEF cell
<1>10. ValuesAfter(v, k, gone, ok)
  BY Zenon, <1>3, AddValues
<1>6. \A c \in Cells(peers') : c.value[1] = c.key /\ values'[c.value].id = c.key
  <2>1. \A c \in Cells(peers) \ gone : values'[c.value] = values[c.value]
    BY Zenon, <1>10 DEF ValuesAfter
  <2>2. ok => values'[k] = v
    BY Zenon, <1>10 DEF ValuesAfter
  <2> QED BY Zenon, <1>4, <1>5, <2>1, <2>2 DEF IInv, Valued
<1>7. DOMAIN values' = {c.value : c \in Cells(peers')} /\ \A x \in DOMAIN values' : values'[x] \in KadValue
  BY Zenon, <1>10 DEF ValuesAfter
<1>8. DOMAIN values' \subseteq ValueKey
  <2>1. \A c \in Cells(peers') : c.value \in ValueKey
    BY <1>1, CellType
  <2> QED BY Zenon, <1>7, <2>1
<1>9. IsFiniteSet(keys(peers'))
  <2>1. keys(peers') \in SUBSET (keys(peers) \cup {v.id})
    BY Zenon, <1>4, <1>5 DEF keys
  <2>2. IsFiniteSet(keys(peers) \cup {v.id})
    BY Zenon, FS_AddElement DEF IInv
  <2> QED BY Zenon, <2>1, <2>2, FS_Subset
<1> QED BY Zenon, <1>1, <1>6, <1>7, <1>8, <1>9 DEF IInv, Valued, ValuesExact

(* What remove_peer does. *)
Removes(id) ==
    /\ Cells(peers') = Cells(peers) \ Own(peers, id)
    /\ values' = Without(values, {c.value : c \in Own(peers, id)})

LEMMA RemoveStep ==
    ASSUME IInv, NEW id \in PeerId, remove_peer(id)
    PROVE  Tree(peers', root_peer, PeerId) /\ Tree(ips', root_ip, Socket) /\ Removes(id)
<1> DEFINE held  == {c.value : c \in Held(peers, root_peer, id)}
           known == held \cap DOMAIN values
<1>1. /\ peers' = remove(peers, root_peer, id)
      /\ values' = Without(values, held)
      /\ ips' = ips \/ \E k \in known : ips' = remove(ips, root_ip, values[k].socket)
  BY Zenon DEF remove_peer
<1>2. /\ Held(peers, root_peer, id) = Own(peers, id)
      /\ Tree(peers', root_peer, PeerId)
      /\ Cells(peers') = Cells(peers) \ Own(peers, id)
  BY <1>1, RemoveTree, KeysAssumption DEF IInv, Own
<1>3. Tree(ips', root_ip, Socket)
  <2>1. CASE ips' = ips
    BY Zenon, <2>1 DEF IInv
  <2>2. ASSUME NEW k \in known, ips' = remove(ips, root_ip, values[k].socket)
        PROVE  Tree(ips', root_ip, Socket)
    <3>1. values[k].socket \in Socket
      BY Zenon, KeysAssumption DEF IInv, Valued
    <3> QED BY Zenon, <2>2, <3>1, RemoveTree, KeysAssumption DEF IInv
  <2> QED BY Zenon, <1>1, <2>1, <2>2
<1> QED BY Zenon, <1>1, <1>2, <1>3 DEF Removes

LEMMA RemoveValues ==
    ASSUME IInv, NEW id \in PeerId, Removes(id)
    PROVE  /\ DOMAIN values' = {c.value : c \in Cells(peers')}
           /\ DOMAIN values' \subseteq DOMAIN values
           /\ \A x \in DOMAIN values' : values'[x] = values[x]
<1> DEFINE V == {c.value : c \in Own(peers, id)}
<1>1. DOMAIN values = {c.value : c \in Cells(peers)}
  BY Zenon DEF IInv, Valued, ValuesExact
<1>2. \A c \in Cells(peers) \ Own(peers, id) : c.value \notin V
  BY Zenon, OneValue DEF Own
<1>3. DOMAIN values' = DOMAIN values \ V /\ \A x \in DOMAIN values' : values'[x] = values[x]
  BY Zenon DEF Removes, Without, Restrict
<1>4. Cells(peers') = Cells(peers) \ Own(peers, id)
  BY Zenon DEF Removes
<1>5. Own(peers, id) \subseteq Cells(peers)
  BY Zenon DEF Own
<1> QED BY <1>1, <1>2, <1>3, <1>4, <1>5

LEMMA RemoveInv ==
    ASSUME IInv, NEW id \in PeerId, remove_peer(id)
    PROVE  IInv'
<1>1. Tree(peers', root_peer, PeerId) /\ Tree(ips', root_ip, Socket) /\ Removes(id)
  BY Zenon, RemoveStep
<1>2. /\ DOMAIN values' = {c.value : c \in Cells(peers')}
      /\ DOMAIN values' \subseteq DOMAIN values
      /\ \A x \in DOMAIN values' : values'[x] = values[x]
  BY Zenon, <1>1, RemoveValues
<1>3. Cells(peers') \subseteq Cells(peers)
  BY Zenon, <1>1 DEF Removes
<1>4. \A c \in Cells(peers') : c.value \in DOMAIN values'
  BY Zenon, <1>2
<1>5. \A c \in Cells(peers') : c.value[1] = c.key /\ values'[c.value].id = c.key
  BY Zenon, <1>2, <1>3, <1>4 DEF IInv, Valued
<1>6. IsFiniteSet(keys(peers'))
  <2>1. keys(peers') \in SUBSET keys(peers)
    BY Zenon, <1>3 DEF keys
  <2> QED BY Zenon, <2>1, FS_Subset DEF IInv
<1>7. DOMAIN values' \subseteq ValueKey /\ \A x \in DOMAIN values' : values'[x] \in KadValue
  BY Zenon, <1>2 DEF IInv, Valued
<1> QED BY Zenon, <1>1, <1>2, <1>5, <1>6, <1>7 DEF IInv, Valued, ValuesExact

(* The invariant of the tries and the map. *)
LEMMA Invariance == Spec => []IInv
<1>1. IInv /\ [Next]_vars => IInv'
  <2> SUFFICES ASSUME IInv, [Next]_vars PROVE IInv'
    BY Zenon
  <2>1. CASE UNCHANGED vars
    BY ZenonT(40), <2>1 DEF vars, IInv, Valued, ValuesExact, Tree, Bucket, Grown, HasChild, Cells, keys
  <2>2. CASE \E v \in KadValue : add(v)
    BY Zenon, <2>2, AddInv
  <2>3. CASE \E id \in PeerId : remove_peer(id)
    BY Zenon, <2>3, RemoveInv
  <2> QED BY Zenon, <2>1, <2>2, <2>3 DEF Next
<1> QED BY <1>1, InitInv, PTL DEF Spec

----------------------------------------------------------------------------
(* Distances *)

LEMMA XorFacts ==
    ASSUME NEW root \in Key, NEW a \in Key, NEW b \in Key
    PROVE  /\ xor(a, b) \in Key
           /\ xor(xor(root, a), xor(root, b)) = xor(a, b)
           /\ \A i \in 0 .. KEY_LENGTH - 1 : xor(a, b)[i] = (a[i] # b[i])
<1>1. /\ xor(a, b) \in Key
      /\ \A i \in 0 .. KEY_LENGTH - 1 : xor(a, b)[i] = (a[i] # b[i])
  BY Zenon DEF xor, Key
<1>2. ASSUME NEW i \in 0 .. KEY_LENGTH - 1 PROVE ((root[i] # a[i]) # (root[i] # b[i])) = (a[i] # b[i])
  <2>1. root[i] \in BOOLEAN /\ a[i] \in BOOLEAN /\ b[i] \in BOOLEAN
    BY Zenon DEF Key
  <2> QED BY Zenon, <2>1
<1>3. xor(xor(root, a), xor(root, b))
        = [i \in 0 .. KEY_LENGTH - 1 |-> (root[i] # a[i]) # (root[i] # b[i])]
  BY Zenon DEF xor
<1> QED BY Zenon, <1>1, <1>2, <1>3 DEF xor

(* Closer is a strict order, and nothing is closer than what agrees with it. *)
LEMMA CloserOrder ==
    ASSUME NEW a \in Key, NEW b \in Key, NEW c \in Key
    PROVE  /\ ~Closer(a, a)
           /\ Closer(a, b) /\ Closer(b, c) => Closer(a, c)
           /\ Closer(a, b) => ~Closer(b, a)
<1>1. \A x \in Key : ~Closer(x, x)
  BY Zenon DEF Closer
<1>2. ASSUME NEW x \in Key, NEW y \in Key, NEW z \in Key, Closer(x, y), Closer(y, z)
      PROVE  Closer(x, z)
  <2>1. PICK i \in 0 .. KEY_LENGTH - 1 : ~x[i] /\ y[i] /\ \A j \in 0 .. i - 1 : x[j] = y[j]
    BY Zenon, <1>2 DEF Closer
  <2>2. PICK k \in 0 .. KEY_LENGTH - 1 : ~y[k] /\ z[k] /\ \A j \in 0 .. k - 1 : y[j] = z[j]
    BY Zenon, <1>2 DEF Closer
  <2>3. i \in Int /\ k \in Int /\ i # k
    BY <2>1, <2>2, LevelsAssumption
  <2>4. CASE i < k
    <3>1. ~x[i] /\ z[i]
      BY <2>1, <2>2, <2>4, LevelsAssumption
    <3>2. \A j \in 0 .. i - 1 : x[j] = z[j]
      BY <2>1, <2>2, <2>4, LevelsAssumption
    <3> QED BY Zenon, <3>1, <3>2 DEF Closer
  <2>5. CASE k < i
    <3>1. ~x[k] /\ z[k]
      BY <2>1, <2>2, <2>5, LevelsAssumption
    <3>2. \A j \in 0 .. k - 1 : x[j] = z[j]
      BY <2>1, <2>2, <2>5, LevelsAssumption
    <3> QED BY Zenon, <3>1, <3>2 DEF Closer
  <2> QED BY <2>3, <2>4, <2>5
<1> QED BY Zenon, <1>1, <1>2

(* What is closer than something is closer than the greatest distance. *)
LEMMA CloserThanMax ==
    ASSUME NEW a \in Key, NEW b \in Key, Closer(a, b)
    PROVE  Closer(a, max)
<1> DEFINE T == {i \in 0 .. KEY_LENGTH - 1 : ~a[i]}
<1>1. T # {} /\ T \subseteq Nat
  BY LevelsAssumption DEF Closer
<1>2. PICK i \in T : \A j \in T : i <= j
  BY Zenon, <1>1, LeastNat
<1>3. \A j \in 0 .. i - 1 : a[j] = TRUE
  <2> SUFFICES ASSUME NEW j \in 0 .. i - 1 PROVE a[j] = TRUE
    BY Zenon
  <2>1. j \in 0 .. KEY_LENGTH - 1 /\ j < i /\ i \in Int /\ j \in Int
    BY LevelsAssumption
  <2>2. j \notin T
    BY <1>2, <2>1
  <2>3. a[j] \in BOOLEAN
    BY Zenon, <2>1 DEF Key
  <2> QED BY Zenon, <2>1, <2>2, <2>3
<1>4. \A j \in 0 .. KEY_LENGTH - 1 : max[j] = TRUE
  BY Zenon DEF max
<1>5. \A j \in 0 .. i - 1 : j \in 0 .. KEY_LENGTH - 1
  BY LevelsAssumption
<1> QED BY Zenon, <1>3, <1>4, <1>5 DEF Closer

(* Of finitely many cells one is closest. *)
LEMMA ClosestExists ==
    ASSUME NEW S, IsFiniteSet(S), S # {}, NEW d \in Key, \A c \in S : c.dist \in Key
    PROVE  \E c \in S : \A e \in S : ~Closer(xor(d, e.dist), xor(d, c.dist))
<1> DEFINE D(c) == xor(d, c.dist)
           Under(c) == {e \in S : Closer(D(e), D(c))}
           T == {Cardinality(Under(c)) : c \in S}
<1>1. \A c \in S : D(c) \in Key
  BY Zenon, XorFacts
<1>2. \A c \in S : IsFiniteSet(Under(c)) /\ Cardinality(Under(c)) \in Nat
  <2> SUFFICES ASSUME NEW c \in S PROVE IsFiniteSet(Under(c)) /\ Cardinality(Under(c)) \in Nat
    BY Zenon
  <2>1. Under(c) \in SUBSET S
    BY Zenon
  <2> HIDE DEF Under
  <2> QED BY Zenon, <2>1, FS_Subset, FS_CardinalityType
<1>3. T # {} /\ T \subseteq Nat
  <2> HIDE DEF Under
  <2> QED BY Zenon, <1>2
<1>4. PICK x \in T : \A y \in T : x <= y
  <2> HIDE DEF T
  <2> QED BY Zenon, <1>3, LeastNat
<1>5. PICK c \in S : x = Cardinality(Under(c))
  BY Zenon
<1>6. ASSUME NEW e \in S, Closer(D(e), D(c)) PROVE FALSE
  <2>1. Under(e) \in SUBSET Under(c)
    <3> SUFFICES ASSUME NEW f \in S, Closer(D(f), D(e)) PROVE Closer(D(f), D(c))
      BY Zenon
    <3> HIDE DEF D
    <3> QED BY Zenon, <1>1, <1>6, CloserOrder
  <2>2. e \in Under(c)
    BY Zenon, <1>6
  <2>3. e \notin Under(e)
    <3>1. ~Closer(D(e), D(e))
      <4> HIDE DEF D
      <4> QED BY Zenon, <1>1, CloserOrder
    <3> QED BY Zenon, <3>1
  <2>4. Cardinality(Under(c)) <= Cardinality(Under(e))
    BY Zenon, <1>4, <1>5
  <2> HIDE DEF Under
  <2>5. Cardinality(Under(e)) <= Cardinality(Under(c))
    BY Zenon, <1>2, <2>1, FS_Subset
  <2>6. Cardinality(Under(e)) = Cardinality(Under(c))
    BY <1>2, <2>4, <2>5
  <2>7. Under(e) = Under(c)
    BY Zenon, <1>2, <2>1, <2>6, FS_Subset
  <2> QED BY Zenon, <2>2, <2>3, <2>7
<1> QED BY Zenon, <1>6

----------------------------------------------------------------------------
(* Searches *)

(* The side of the root that a cell is on is there. *)
LEMMA Side ==
    ASSUME NEW t, NEW root, NEW K, Tree(t, root, K), NEW c \in Cells(t)
    PROVE  c.dist \in Key /\ At(c.dist, 1) \in DOMAIN t
<1>1. PICK n \in DOMAIN t : c \in t[n]
  BY Zenon DEF Cells
<1>2. c.dist \in Key /\ n[1] \in Level /\ n = At(c.dist, n[1])
  BY <1>1, CellAt
<1>3. Grown(t, c.dist, n[1])
  BY Zenon, <1>2 DEF Tree
<1>4. 1 \in 1 .. n[1]
  BY <1>2 DEF Level
<1> QED BY Zenon, <1>2, <1>3, <1>4 DEF Grown

(* A search follows the bits of d but for the first, which it turns when that
   side of the root is missing. *)
LEMMA PathBits ==
    ASSUME NEW t, NEW d \in Key
    PROVE  /\ SearchPath(t, d) \in Key
           /\ \A j \in 1 .. KEY_LENGTH - 1 : SearchPath(t, d)[j] = d[j]
           /\ SearchPath(t, d)[0] # d[0] => At(d, 1) \notin DOMAIN t
           /\ At(d, 1) \in DOMAIN t => SearchPath(t, d) = d
<1>1. 0 \in 0 .. KEY_LENGTH - 1
  BY LevelsAssumption
<1>2. CASE At(d, 1) \notin DOMAIN t /\ Sibling(d, 1) \in DOMAIN t
  <2>1. SearchPath(t, d) = [d EXCEPT ![0] = ~d[0]]
    BY Zenon, <1>2 DEF SearchPath
  <2> QED BY <1>1, <1>2, <2>1, LevelsAssumption DEF Key
<1>3. CASE ~(At(d, 1) \notin DOMAIN t /\ Sibling(d, 1) \in DOMAIN t)
  <2>1. SearchPath(t, d) = d
    BY Zenon, <1>3 DEF SearchPath
  <2> QED BY Zenon, <2>1
<1> QED BY Zenon, <1>2, <1>3

(* The list a search ends in. *)
Looked(t, root, key) ==
    LET p == SearchPath(t, xor(root, key)) IN List(t, At(p, LeafLevel(t, p)))

LEMMA SearchOwn ==
    ASSUME NEW t, NEW root \in Key, NEW K, Tree(t, root, K), NEW c \in Cells(t)
    PROVE  c \in Looked(t, root, c.key)
<1> DEFINE d == xor(root, c.key)
<1>1. PICK n \in DOMAIN t : c \in t[n]
  BY Zenon DEF Cells
<1>2. c.dist = d /\ c.dist \in Key /\ n = At(d, LeafLevel(t, d))
  BY <1>1, CellAt
<1>3. SearchPath(t, d) = d
  BY <1>2, Side, PathBits
<1> QED BY Zenon, <1>1, <1>2, <1>3 DEF Looked, List

(* Of all cells, those of that list are closest to the key. *)
LEMMA LookedClosest ==
    ASSUME NEW t, NEW root \in Key, NEW K, Tree(t, root, K), NEW key \in Key,
           NEW c \in Looked(t, root, key), NEW e \in Cells(t), e \notin Looked(t, root, key)
    PROVE  Closer(xor(xor(root, key), c.dist), xor(xor(root, key), e.dist))
<1> DEFINE d == xor(root, key)
           p == SearchPath(t, d)
           l == LeafLevel(t, p)
<1>1. d \in Key
  BY Zenon, XorFacts
<1>2. p \in Key /\ (\A j \in 1 .. KEY_LENGTH - 1 : p[j] = d[j])
      /\ (p[0] # d[0] => At(d, 1) \notin DOMAIN t)
  BY Zenon, <1>1, PathBits
<1>3. e.dist \in Key /\ At(e.dist, 1) \in DOMAIN t
  BY Zenon, Side
<1> HIDE DEF d, p
<1>4. IsLeaf(t, p, l) /\ l \in Level
  BY Zenon, <1>2, LeafExists DEF Tree, IsLeaf
<1>5. c \in List(t, At(p, l)) /\ e \notin List(t, At(p, l))
  BY Zenon DEF Looked, d, p
<1> HIDE DEF l
<1>6. c.dist \in Key /\ Agree(c.dist, p, l)
  BY <1>2, <1>4, <1>5, LeafBucket DEF Bucket
<1>7. ~Agree(e.dist, p, l)
  <2> SUFFICES ASSUME Agree(e.dist, p, l) PROVE FALSE
    BY Zenon
  <2>1. At(p, l) \in DOMAIN t /\ e \in t[At(p, l)]
    BY Zenon, <1>2, <1>4, InLeaf
  <2> QED BY Zenon, <1>5, <2>1 DEF List
<1> DEFINE T == {j \in 0 .. l - 1 : e.dist[j] # p[j]}
<1>8. T # {} /\ T \subseteq Nat
  BY <1>4, <1>7, LevelsAssumption DEF Agree, Level
<1>9. PICK j \in T : \A i \in T : j <= i
  <2> HIDE DEF T
  <2> QED BY Zenon, <1>8, LeastNat
<1>10. /\ j \in 0 .. l - 1 /\ e.dist[j] # p[j] /\ c.dist[j] = p[j] /\ j \in Nat
       /\ j \in 0 .. KEY_LENGTH - 1
  BY <1>4, <1>6, LevelsAssumption DEF Agree, Level
<1>11. \A i \in 0 .. j - 1 : e.dist[i] = p[i] /\ c.dist[i] = p[i] /\ i \in 0 .. KEY_LENGTH - 1
  <2> SUFFICES ASSUME NEW i \in 0 .. j - 1
               PROVE  e.dist[i] = p[i] /\ c.dist[i] = p[i] /\ i \in 0 .. KEY_LENGTH - 1
    BY Zenon
  <2>1. i \in 0 .. l - 1 /\ i < j /\ i \in Int /\ j \in Int /\ i \in 0 .. KEY_LENGTH - 1
    BY <1>4, <1>10, LevelsAssumption DEF Level
  <2>2. i \notin T
    BY <1>9, <2>1
  <2> QED BY Zenon, <1>6, <2>1, <2>2 DEF Agree
<1>12. p[j] = d[j]
  <2>1. CASE j = 0
    <3> SUFFICES ASSUME p[0] # d[0] PROVE FALSE
      BY Zenon, <2>1
    <3>1. e.dist[0] \in BOOLEAN /\ p[0] \in BOOLEAN /\ d[0] \in BOOLEAN
      BY Zenon, <1>1, <1>2, <1>3, <1>10, <2>1 DEF Key
    <3>2. e.dist[0] = d[0]
      BY Zenon, <1>10, <2>1, <3>1
    <3>3. At(e.dist, 1) = At(d, 1)
      BY <3>2 DEF At
    <3> QED BY Zenon, <1>2, <1>3, <3>3
  <2>2. CASE j # 0
    <3>1. j \in 1 .. KEY_LENGTH - 1
      BY <1>10, <2>2, LevelsAssumption
    <3> QED BY Zenon, <1>2, <3>1
  <2> QED BY Zenon, <2>1, <2>2
<1>13. /\ \A i \in 0 .. KEY_LENGTH - 1 : xor(d, c.dist)[i] = (d[i] # c.dist[i])
       /\ \A i \in 0 .. KEY_LENGTH - 1 : xor(d, e.dist)[i] = (d[i] # e.dist[i])
  BY Zenon DEF xor
<1>14. ~xor(d, c.dist)[j] /\ xor(d, e.dist)[j]
  BY Zenon, <1>10, <1>12, <1>13
<1>15. \A i \in 0 .. j - 1 : xor(d, c.dist)[i] = xor(d, e.dist)[i]
  BY Zenon, <1>11, <1>13
<1>16. Closer(xor(d, c.dist), xor(d, e.dist))
  BY Zenon, <1>10, <1>14, <1>15 DEF Closer
<1> QED BY Zenon, <1>16 DEF d

(* What a search answers: the cell of the key, if there is one; and a cell that
   no other cell of the tree is closer than. *)
LEMMA SearchFinds ==
    ASSUME NEW t, NEW root \in Key, NEW K, K \subseteq Key, Tree(t, root, K), NEW c \in Cells(t)
    PROVE  LET r == search(t, root, c.key)
           IN  r.found /\ r.is_it /\ r.cell = c
<1> DEFINE key == c.key
           B == Looked(t, root, key)
<1>1. c \in B
  BY Zenon, SearchOwn
<1>2. search(t, root, key) = [found |-> TRUE, is_it |-> TRUE, cell |-> CHOOSE x \in B : x.key = key]
  BY Zenon, <1>1 DEF search, Looked
<1>3. \A x \in B : x \in Cells(t)
  BY Zenon DEF Looked, List, Cells
<1>4. \A x \in B : x.key = key => x = c
  <2> SUFFICES ASSUME NEW x \in Cells(t), x.key = c.key PROVE x = c
    BY Zenon, <1>3
  <2>1. PICK m \in DOMAIN t : x \in t[m]
    BY Zenon DEF Cells
  <2>2. PICK n \in DOMAIN t : c \in t[n]
    BY Zenon DEF Cells
  <2> QED BY Zenon, <2>1, <2>2, Unique
<1>5. (CHOOSE x \in B : x.key = key) = c
  BY Zenon, <1>1, <1>4
<1> QED BY <1>2, <1>5

LEMMA SearchClosest ==
    ASSUME NEW t, NEW root \in Key, NEW K, K \subseteq Key, Tree(t, root, K), NEW key \in Key,
           search(t, root, key).found, NEW e \in Cells(t)
    PROVE  ~Closer(xor(key, e.key), xor(key, search(t, root, key).cell.key))
<1> DEFINE d == xor(root, key)
           p == SearchPath(t, d)
           B == Looked(t, root, key)
           N == {c \in B : Closer(xor(d, c.dist), max)}
           cell == search(t, root, key).cell
           best == CHOOSE c \in N : \A f \in N : f = c \/ ~Closer(xor(d, f.dist), xor(d, c.dist))
<1>1. d \in Key
  BY Zenon, XorFacts
<1>2. \A c \in Cells(t) : c.key \in Key /\ c.dist \in Key /\ c.dist = xor(root, c.key)
  BY CellType
<1>3. \A c \in Cells(t) : xor(d, c.dist) = xor(key, c.key) /\ xor(d, c.dist) \in Key
  <2> SUFFICES ASSUME NEW c \in Cells(t)
               PROVE  xor(d, c.dist) = xor(key, c.key) /\ xor(d, c.dist) \in Key
    BY Zenon
  <2>1. xor(xor(root, key), xor(root, c.key)) = xor(key, c.key) /\ xor(key, c.key) \in Key
    BY <1>2, XorFacts
  <2>2. c.dist = xor(root, c.key)
    BY Zenon, <1>2
  <2> QED BY Zenon, <2>1, <2>2
<1>4. B \subseteq Cells(t)
  BY Zenon DEF Looked, List, Cells
<1>5. CASE \E c \in B : c.key = key
  <2>1. PICK c \in B : c.key = key
    BY Zenon, <1>5
  <2>2. cell = c
    BY Zenon, <1>4, <2>1, SearchFinds
  <2>3. \A i \in 0 .. KEY_LENGTH - 1 : ~xor(key, key)[i]
    BY Zenon DEF xor
  <2> QED BY Zenon, <2>1, <2>2, <2>3 DEF Closer
<1>6. CASE ~\E c \in B : c.key = key
  <2>1. search(t, root, key) = IF N = {} THEN Nil ELSE [found |-> TRUE, is_it |-> FALSE, cell |-> best]
    BY Zenon, <1>6 DEF search, Looked
  <2>2. N # {} /\ cell = best
    BY <2>1 DEF Nil
  <2> HIDE DEF cell
  <2>3. IsFiniteSet(N)
    <3>1. p \in Key /\ LeafLevel(t, p) \in Level
      BY Zenon, <1>1, PathBits, LeafExists DEF Tree, IsLeaf
    <3>2. IsFiniteSet(B)
      BY <3>1, LeafBucket DEF Looked, Bucket
    <3>3. N \in SUBSET B
      BY Zenon
    <3> HIDE DEF N, B
    <3> QED BY Zenon, <3>2, <3>3, FS_Subset
  <2>4. \E c \in N : \A f \in N : ~Closer(xor(d, f.dist), xor(d, c.dist))
    <3>1. \A c \in N : c.dist \in Key
      BY Zenon, <1>2, <1>4
    <3> HIDE DEF N, d
    <3> QED BY Zenon, <1>1, <2>2, <2>3, <3>1, ClosestExists
  <2>5. best \in N /\ \A f \in N : f = best \/ ~Closer(xor(d, f.dist), xor(d, best.dist))
    <3> HIDE DEF N, d
    <3> QED BY Zenon, <2>4
  <2> HIDE DEF best
  <2>6. best \in B /\ best \in Cells(t)
    BY Zenon, <1>4, <2>5
  <2>7. ~Closer(xor(d, e.dist), xor(d, best.dist))
    <3> DEFINE x == xor(d, e.dist)
               y == xor(d, best.dist)
    <3>1. x \in Key /\ y \in Key
      BY Zenon, <1>3, <2>6
    <3>2. CASE e \notin B
      <4>1. Closer(y, x)
        BY Zenon, <2>6, <3>2, LookedClosest
      <4> HIDE DEF x, y
      <4>2. ~Closer(x, y)
        BY Zenon, <3>1, <4>1, CloserOrder
      <4> QED BY Zenon, <4>2 DEF x, y
    <3>3. CASE e \in N
      <4>1. e = best => x = y
        BY Zenon
      <4>2. e # best => ~Closer(x, y)
        BY Zenon, <2>5, <3>3
      <4> HIDE DEF x, y
      <4>3. ~Closer(x, y)
        BY Zenon, <3>1, <4>1, <4>2, CloserOrder
      <4> QED BY Zenon, <4>3 DEF x, y
    <3>4. CASE e \in B /\ e \notin N
      <4>1. ~Closer(x, max)
        BY Zenon, <3>4
      <4> HIDE DEF x, y
      <4>2. ~Closer(x, y)
        BY Zenon, <3>1, <4>1, CloserThanMax
      <4> QED BY Zenon, <4>2 DEF x, y
    <3> QED BY Zenon, <3>2, <3>3, <3>4
  <2>8. ~Closer(xor(key, e.key), xor(key, best.key))
    BY Zenon, <1>3, <2>6, <2>7
  <2> QED BY Zenon, <2>2, <2>8 DEF cell
<1> QED BY Zenon, <1>5, <1>6

----------------------------------------------------------------------------
(* The table as a map *)

Table(t, vs) == [id \in keys(t) |-> vs[(CHOOSE c \in Cells(t) : c.key = id).value]]

LEMMA TableFacts ==
    ASSUME NEW t, NEW vs, Tree(t, root_peer, PeerId)
    PROVE  /\ DOMAIN Table(t, vs) = keys(t)
           /\ \A c \in Cells(t) : c.key \in keys(t) /\ Table(t, vs)[c.key] = vs[c.value]
<1> SUFFICES ASSUME NEW c \in Cells(t)
             PROVE  c.key \in keys(t) /\ Table(t, vs)[c.key] = vs[c.value]
  BY Zenon DEF Table
<1>1. c.key \in keys(t)
  BY Zenon DEF keys
<1>2. \A x \in Cells(t) : x.key = c.key => x = c
  <2> SUFFICES ASSUME NEW x \in Cells(t), x.key = c.key PROVE x = c
    BY Zenon
  <2>1. PICK m \in DOMAIN t : x \in t[m]
    BY Zenon DEF Cells
  <2>2. PICK n \in DOMAIN t : c \in t[n]
    BY Zenon DEF Cells
  <2> QED BY Zenon, <2>1, <2>2, Unique
<1>3. (CHOOSE x \in Cells(t) : x.key = c.key) = c
  BY Zenon, <1>2
<1> QED BY Zenon, <1>1, <1>3 DEF Table

(* A map on the peers of t with their values is the table. *)
LEMMA TableIs ==
    ASSUME NEW t, NEW vs, Tree(t, root_peer, PeerId), NEW g,
           g = [id \in keys(t) |-> g[id]], \A c \in Cells(t) : g[c.key] = vs[c.value]
    PROVE  g = Table(t, vs)
<1>1. Table(t, vs) = [id \in keys(t) |-> Table(t, vs)[id]]
  BY DEF Table
<1>2. ASSUME NEW id \in keys(t) PROVE g[id] = Table(t, vs)[id]
  <2>1. PICK c \in Cells(t) : c.key = id
    BY Zenon DEF keys
  <2> QED BY <2>1, TableFacts
<1>3. [id \in keys(t) |-> g[id]] = [id \in keys(t) |-> Table(t, vs)[id]]
  BY Zenon, <1>2
<1> QED BY Zenon, <1>1, <1>3

LEMMA FullKeys ==
    ASSUME IInv, Full(peers)
    PROVE  Cardinality(keys(peers)) >= K_BUCKET
<1>1. PICK B \in SUBSET Cells(peers) : IsFiniteSet(B) /\ Cardinality(B) >= K_BUCKET
  BY Zenon DEF Full
<1> DEFINE f == [c \in B |-> c.key]
<1>2. \A c, e \in B : c.key = e.key => c = e
  <2> SUFFICES ASSUME NEW c \in Cells(peers), NEW e \in Cells(peers), c.key = e.key PROVE c = e
    BY Zenon, <1>1
  <2>1. PICK m \in DOMAIN peers : c \in peers[m]
    BY Zenon DEF Cells
  <2>2. PICK n \in DOMAIN peers : e \in peers[n]
    BY Zenon DEF Cells
  <2> QED BY Zenon, <2>1, <2>2, Unique DEF IInv
<1>3. f \in [B -> keys(peers)]
  BY Zenon, <1>1 DEF keys
<1>4. f \in Injection(B, keys(peers))
  BY Zenon, <1>2, <1>3 DEF Injection, IsInjective
<1>5. IsFiniteSet(keys(peers))
  BY Zenon DEF IInv
<1> HIDE DEF f
<1>6. Cardinality(B) <= Cardinality(keys(peers))
  BY Zenon, <1>4, <1>5, FS_Injection
<1>7. Cardinality(B) \in Nat /\ Cardinality(keys(peers)) \in Nat
  BY Zenon, <1>1, <1>5, FS_CardinalityType
<1> QED BY <1>1, <1>6, <1>7, LevelsAssumption

(* The cardinality that Dht speaks of is that of the table. *)
LEMMA MapCardinality ==
    ASSUME NEW S PROVE Map!Cardinality(S) = Cardinality(S)
  BY Zenon DEF Map!Cardinality, Cardinality

(* The steps of the table are those of the map. *)
LEMMA AddMaps ==
    ASSUME IInv, IInv', NEW v \in KadValue, add(v)
    PROVE  Map!Changes(Table(peers, values), Table(peers', values'))
<1> DEFINE f == Table(peers, values)
           g == Table(peers', values')
<1>1. PICK k, gone : \E ok \in BOOLEAN : Adds(v, k, gone, ok)
  BY Zenon, AddStep
<1>2. PICK ok \in BOOLEAN : Adds(v, k, gone, ok)
  BY Zenon, <1>1
<1>3. ValuesAfter(v, k, gone, ok)
  BY Zenon, <1>2, AddValues
<1> DEFINE cell == Cell(root_peer, v.id, k)
<1>4. cell.value = k /\ cell.key = v.id
  BY Zenon DEF Cell
<1>5. /\ gone \subseteq Cells(peers)
      /\ Cells(peers') = (Cells(peers) \ gone) \cup (IF ok THEN {cell} ELSE {})
      /\ \/ ok /\ gone = Own(peers, v.id)
         \/ /\ Own(peers, v.id) = {} /\ Full(peers)
            /\ \/ ~ok /\ gone = {}
               \/ ok /\ \E c \in Cells(peers) : gone = {c}
  BY Zenon, <1>2 DEF Adds
<1> HIDE DEF cell
<1>6. Tree(peers, root_peer, PeerId) /\ Tree(peers', root_peer, PeerId)
  BY Zenon DEF IInv
<1>7. /\ ok => values'[k] = v
      /\ \A c \in Cells(peers) \ gone : values'[c.value] = values[c.value]
  BY Zenon, <1>3 DEF ValuesAfter
<1>8. DOMAIN f = keys(peers) /\ \A c \in Cells(peers) : c.key \in keys(peers) /\ f[c.key] = values[c.value]
  BY Zenon, <1>6, TableFacts
<1>9. v.id \in PeerId
  BY Zenon, KeysAssumption
<1> HIDE DEF f
<1>10. CASE ok /\ gone = Own(peers, v.id)
  <2> DEFINE h == Map!Put(f, v.id, v)
  <2>1. h = [q \in DOMAIN f \cup {v.id} |-> IF q = v.id THEN v ELSE f[q]]
    BY Zenon DEF Map!Put
  <2>2. keys(peers') = DOMAIN f \cup {v.id}
    BY <1>4, <1>5, <1>8, <1>10 DEF keys, Own
  <2>3. h = [q \in keys(peers') |-> h[q]]
    BY Zenon, <2>1, <2>2
  <2>4. ASSUME NEW c \in Cells(peers') PROVE h[c.key] = values'[c.value]
    <3>1. CASE c = cell
      BY Zenon, <1>4, <1>7, <1>10, <2>1, <3>1
    <3>2. CASE c \in Cells(peers) \ gone
      BY Zenon, <1>7, <1>8, <1>10, <2>1, <3>2 DEF Own
    <3> QED BY Zenon, <1>5, <3>1, <3>2
  <2> HIDE DEF h
  <2>5. h = g
    BY <1>6, <2>3, <2>4, TableIs
  <2>6. [ok |-> TRUE, table |-> h] \in Map!AddOutcome(f, v.id, v)
    BY Zenon DEF Map!AddOutcome, h
  <2> QED BY Zenon, <1>9, <2>5, <2>6 DEF Map!Changes, f
<1>11. CASE Own(peers, v.id) = {} /\ Full(peers)
  <2>1. v.id \notin DOMAIN f
    BY Zenon, <1>8, <1>11 DEF Own, keys
  <2>2. ~(Map!Cardinality(DOMAIN f) < K_BUCKET)
    <3>1. Cardinality(keys(peers)) >= K_BUCKET
      BY Zenon, <1>11, FullKeys
    <3>2. Cardinality(keys(peers)) \in Nat
      BY Zenon, FS_CardinalityType DEF IInv
    <3>3. Map!Cardinality(DOMAIN f) = Cardinality(keys(peers))
      BY Zenon, <1>8, MapCardinality
    <3> QED BY <3>1, <3>2, <3>3, LevelsAssumption
  <2>3. /\ [ok |-> FALSE, table |-> f] \in Map!AddOutcome(f, v.id, v)
        /\ \A q \in DOMAIN f :
              [ok |-> TRUE, table |-> Map!Put(Map!Drop(f, q), v.id, v)] \in Map!AddOutcome(f, v.id, v)
    BY Zenon, <2>1, <2>2 DEF Map!AddOutcome
  <2>4. CASE ~ok /\ gone = {}
    <3>1. Cells(peers') = Cells(peers)
      BY Zenon, <1>5, <2>4
    <3>2. keys(peers') = DOMAIN f
      BY Zenon, <1>8, <3>1 DEF keys
    <3>3. f = [q \in keys(peers') |-> f[q]]
      BY <3>2 DEF f, Table
    <3>4. \A c \in Cells(peers') : f[c.key] = values'[c.value]
      BY Zenon, <1>7, <1>8, <2>4, <3>1
    <3>5. f = g
      BY <1>6, <3>3, <3>4, TableIs
    <3> QED BY Zenon, <1>9, <2>3, <3>5 DEF Map!Changes, f
  <2>5. CASE ok /\ \E c \in Cells(peers) : gone = {c}
    <3>1. PICK e \in Cells(peers) : gone = {e}
      BY Zenon, <2>5
    <3> DEFINE h == Map!Put(Map!Drop(f, e.key), v.id, v)
    <3>2. h = [q \in (DOMAIN f \ {e.key}) \cup {v.id} |-> IF q = v.id THEN v ELSE f[q]]
      BY Zenon DEF Map!Put, Map!Drop, Map!Restrict
    <3>3. \A c \in Cells(peers) : c.key = e.key => c = e
      <4> SUFFICES ASSUME NEW c \in Cells(peers), c.key = e.key PROVE c = e
        BY Zenon
      <4>1. PICK m \in DOMAIN peers : c \in peers[m]
        BY Zenon DEF Cells
      <4>2. PICK n \in DOMAIN peers : e \in peers[n]
        BY Zenon DEF Cells
      <4> QED BY Zenon, <1>6, <4>1, <4>2, Unique
    <3>4. keys(peers') = (DOMAIN f \ {e.key}) \cup {v.id}
      <4>1. Cells(peers') = (Cells(peers) \ {e}) \cup {cell}
        BY Zenon, <1>5, <2>5, <3>1
      <4> QED BY <1>4, <1>8, <3>3, <4>1 DEF keys
    <3>5. h = [q \in keys(peers') |-> h[q]]
      BY Zenon, <3>2, <3>4
    <3>6. ASSUME NEW c \in Cells(peers') PROVE h[c.key] = values'[c.value]
      <4>1. CASE c = cell
        BY Zenon, <1>4, <1>7, <2>5, <3>2, <4>1
      <4>2. CASE c \in Cells(peers) \ gone
        <5>1. c.key \in DOMAIN f /\ c.key # e.key /\ c.key # v.id
          BY Zenon, <1>8, <2>1, <3>1, <3>3, <4>2
        <5> QED BY Zenon, <1>7, <1>8, <3>2, <4>2, <5>1
      <4> QED BY Zenon, <1>5, <4>1, <4>2
    <3> HIDE DEF h
    <3>7. h = g
      BY <1>6, <3>5, <3>6, TableIs
    <3>8. e.key \in DOMAIN f
      BY Zenon, <1>8
    <3> QED BY Zenon, <1>9, <2>3, <3>7, <3>8 DEF Map!Changes, f, h
  <2> QED BY Zenon, <1>5, <1>11, <2>4, <2>5, <1>10
<1> QED BY Zenon, <1>5, <1>10, <1>11

LEMMA RemoveMaps ==
    ASSUME IInv, IInv', NEW id \in PeerId, remove_peer(id)
    PROVE  Map!Changes(Table(peers, values), Table(peers', values'))
<1> DEFINE f == Table(peers, values)
           h == Map!Drop(f, id)
<1>1. Tree(peers, root_peer, PeerId) /\ Tree(peers', root_peer, PeerId)
  BY Zenon DEF IInv
<1>2. Removes(id)
  BY Zenon, RemoveStep
<1>3. /\ Cells(peers') = Cells(peers) \ Own(peers, id)
      /\ \A c \in Cells(peers') : values'[c.value] = values[c.value]
  BY Zenon, <1>2, RemoveValues DEF Removes
<1>4. DOMAIN f = keys(peers) /\ \A c \in Cells(peers) : c.key \in keys(peers) /\ f[c.key] = values[c.value]
  BY Zenon, <1>1, TableFacts
<1> HIDE DEF f
<1>5. h = [q \in DOMAIN f \ {id} |-> f[q]]
  BY Zenon DEF Map!Drop, Map!Restrict
<1>6. keys(peers') = DOMAIN f \ {id}
  BY Zenon, <1>3, <1>4 DEF keys, Own
<1>7. h = [q \in keys(peers') |-> h[q]]
  BY Zenon, <1>5, <1>6
<1>8. \A c \in Cells(peers') : h[c.key] = values'[c.value]
  BY Zenon, <1>3, <1>4, <1>5 DEF Own
<1> HIDE DEF h
<1>9. h = Table(peers', values')
  BY <1>1, <1>7, <1>8, TableIs
<1> QED BY Zenon, <1>9 DEF Map!Changes, f, h

----------------------------------------------------------------------------
(* Results *)

LEMMA TreeSound ==
    ASSUME NEW t, NEW root, NEW K, Tree(t, root, K)
    PROVE  TreeType(t, K) /\ BucketsSound(t)
<1>1. ASSUME NEW n \in DOMAIN t
      PROVE  /\ t[n] \subseteq [key : K, value : ValueKey, dist : Key]
             /\ Cardinality(t[n]) <= K_BUCKET
             /\ \A c \in t[n] : ~HasChild(t, c.dist, n[1])
  <2>1. PICK d \in Key, l \in Level : n = At(d, l)
    BY Zenon, Nodes DEF Tree
  <2>2. Bucket(t[n], root, K, d, l)
    BY Zenon, <2>1 DEF Tree
  <2>3. \A c \in t[n] : IsLeaf(t, c.dist, n[1])
    BY Zenon, CellAt
  <2> QED BY Zenon, <2>2, <2>3 DEF Bucket, IsLeaf
<1>2. ASSUME NEW c \in Cells(t), NEW e \in Cells(t), c.key = e.key PROVE c = e
  <2>1. PICK m \in DOMAIN t : c \in t[m]
    BY Zenon DEF Cells
  <2>2. PICK n \in DOMAIN t : e \in t[n]
    BY Zenon DEF Cells
  <2> QED BY Zenon, <1>2, <2>1, <2>2, Unique
<1>3. DOMAIN t \subseteq Node
  BY Zenon DEF Tree
<1> QED BY Zenon, <1>1, <1>2, <1>3 DEF TreeType, BucketsSound

(* The tries and the map of values keep their types (kad.rs, DoubleKadTree). *)
THEOREM TablesTyped == Spec => []TypeOK
<1>1. IInv => TypeOK
  BY Zenon, TreeSound DEF IInv, Valued, TypeOK
<1> QED BY <1>1, Invariance, PTL

(* Buckets of any size: none is too full, a node that was split keeps no cell
   and no key has two cells, however the tries were split and filled
   (Node::insert, kad.rs). *)
THEOREM BucketsHold == Spec => []Buckets
<1>1. IInv => Buckets
  BY Zenon, TreeSound DEF IInv, Buckets
<1> QED BY <1>1, Invariance, PTL

(* The map holds the values of the cells of the trie of ids and no others
   (DoubleKadTree::add and remove_peer). *)
THEOREM ValuesAreExact == Spec => []ValuesExact
<1>1. IInv => ValuesExact
  BY Zenon DEF IInv, Valued
<1> QED BY <1>1, Invariance, PTL

(* Every peer that is listed is found, with its own value (KadTree::search
   against Node::insert). *)
THEOREM PeersFindable == Spec => []Findable
<1>1. IInv => Findable
  <2> SUFFICES ASSUME IInv, NEW id \in keys(peers)
               PROVE  LET r == search(peers, root_peer, id)
                      IN  /\ r.found /\ r.is_it
                          /\ r.cell.value \in DOMAIN values
                          /\ values[r.cell.value].id = id
    BY Zenon DEF Findable
  <2>1. PICK c \in Cells(peers) : c.key = id
    BY Zenon DEF keys
  <2>2. search(peers, root_peer, id).found /\ search(peers, root_peer, id).is_it
        /\ search(peers, root_peer, id).cell = c
    BY Zenon, <2>1, SearchFinds, KeysAssumption DEF IInv
  <2>3. c.value \in DOMAIN values /\ values[c.value].id = id
    BY Zenon, <2>1 DEF IInv, Valued, ValuesExact
  <2> QED BY Zenon, <2>2, <2>3
<1> QED BY <1>1, Invariance, PTL

(* Whoever is searched for, the peer that is answered is the closest of the
   whole table, though one bucket only is looked at (KadTree::search). *)
THEOREM ClosestIsAnswered == Spec => []ClosestAnswered
<1>1. IInv => ClosestAnswered
  <2> SUFFICES ASSUME IInv, NEW id \in Key, search(peers, root_peer, id).found, NEW other \in keys(peers)
               PROVE  ~Closer(xor(id, other), xor(id, search(peers, root_peer, id).cell.key))
    BY Zenon DEF ClosestAnswered
  <2>1. PICK e \in Cells(peers) : e.key = other
    BY Zenon DEF keys
  <2> QED BY Zenon, <2>1, SearchClosest, KeysAssumption DEF IInv
<1> QED BY <1>1, Invariance, PTL

(* The two tries and the values implement the map of peers that the sessions
   rely on: a known peer is replaced, and a peer is refused or given up only
   when the table holds K_BUCKET others (DoubleKadTree::add). *)
THEOREM TableIsMap == Spec => ImplementsMap
<1> DEFINE T == [id \in keys(peers) |-> values[(CHOOSE c \in Cells(peers) : c.key = id).value]]
<1>1. Init => Map!Init
  <2> SUFFICES ASSUME Init PROVE Map!Init
    BY Zenon
  <2>1. Cells(peers) = {}
    BY Zenon DEF Init, EmptyTree, Cells
  <2>2. keys(peers) = {}
    BY Zenon, <2>1 DEF keys
  <2> QED BY Zenon, <2>2 DEF Map!Init
<1>2. IInv /\ IInv' /\ [Next]_vars => [Map!Next]_T
  <2> SUFFICES ASSUME IInv, IInv', [Next]_vars PROVE Map!Changes(T, T') \/ T' = T
    BY Zenon DEF Map!Next
  <2>1. T = Table(peers, values) /\ T' = Table(peers', values')
    BY Zenon DEF Table
  <2> HIDE DEF T
  <2>2. CASE UNCHANGED vars
    BY Zenon, <2>1, <2>2 DEF vars
  <2>3. CASE \E v \in KadValue : add(v)
    BY Zenon, <2>1, <2>3, AddMaps
  <2>4. CASE \E id \in PeerId : remove_peer(id)
    BY Zenon, <2>1, <2>4, RemoveMaps
  <2> QED BY Zenon, <2>2, <2>3, <2>4 DEF Next
<1> QED BY <1>1, <1>2, Invariance, PTL DEF Spec, ImplementsMap, Map!Spec

============================================================================
