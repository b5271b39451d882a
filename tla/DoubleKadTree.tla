--------------------------- MODULE DoubleKadTree ---------------------------
(***************************************************************************)
(* The table of DHT peers, DoubleKadTree of src/kad.rs: a map of values    *)
(* and two tries that hold the keys of the values, one ordered by peer id  *)
(* and one by socket address.                                              *)
(*                                                                         *)
(* add draws the key of a new value at random from 32 bits.  Here it is    *)
(* some key that neither the map nor a trie holds: a collision is outside  *)
(* the model.  Which one it is makes no difference, so it is CHOOSEn, and  *)
(* a key is a pair of the peer it is drawn for and a number.               *)
(***************************************************************************)
EXTENDS KadTree, Functions

CONSTANTS
    root_peer,      \* this node's own id
    root_ip,        \* 0.0.0.0:0
    PeerId,         \* ids of the peers that may be added
    Socket,         \* their addresses
    KadValue,       \* values: of a KadValue, the fields of its Peer that are read
    Draw            \* numbers that tell the keys drawn for one peer apart

ASSUME KeysAssumption ==
    /\ root_peer \in Key /\ root_ip \in Key
    /\ PeerId \subseteq Key /\ Socket \subseteq Key
    /\ KadValue \subseteq [id : PeerId, socket : Socket]

VARIABLES
    values,         \* key of a value -> KadValue
    peers,          \* the trie of peer ids
    ips             \* the trie of addresses

vars == <<values, peers, ips>>

ValueKey == PeerId \X Draw

UsedKeys == DOMAIN values \cup {c.value : c \in Cells(peers) \cup Cells(ips)}

Init ==
    /\ values = [k \in {} |-> {}]
    /\ peers = EmptyTree
    /\ ips = EmptyTree

Without(f, S) == Restrict(f, DOMAIN f \ S)

With(f, k, v) == [x \in DOMAIN f \cup {k} |-> IF x = k THEN v ELSE f[x]]

(* Faulty: the values of replaced and evicted cells stay in the map. *)
AddKeepsReplacedValue(v) ==
    LET free == ({v.id} \X Draw) \ UsedKeys
        k    == CHOOSE k \in free : TRUE
    IN  /\ free # {}
        /\ \E r \in insert(peers, Cell(root_peer, v.id, k)) :
              /\ peers' = r.tree
              /\ values' = IF r.ok THEN With(values, k, v) ELSE values
        /\ UNCHANGED ips

add(v) ==
    LET free == ({v.id} \X Draw) \ UsedKeys
        k    == CHOOSE k \in free : TRUE
    IN  /\ free # {}
        /\ \E r \in insert(peers, Cell(root_peer, v.id, k)) :
              /\ peers' = r.tree
              /\ \/ /\ r.ok
                    /\ values' = With(Without(values, r.removed), k, v)
                    /\ \E q \in insert(ips, Cell(root_ip, v.socket, k)) : ips' = q.tree
                 \/ /\ ~r.ok
                    /\ values' = Without(values, r.removed)
                    /\ UNCHANGED ips

remove_peer(id) ==
    LET held  == {c.value : c \in Held(peers, root_peer, id)}
        known == held \cap DOMAIN values
    IN  /\ peers' = remove(peers, root_peer, id)
        /\ values' = Without(values, held)
        /\ \/ /\ known = {}
              /\ UNCHANGED ips
           \/ \E k \in known : ips' = remove(ips, root_ip, values[k].socket)

Next ==
    \/ \E v \in KadValue : add(v)
    \/ \E id \in PeerId : remove_peer(id)

Spec == Init /\ [][Next]_vars

----------------------------------------------------------------------------
(* Properties *)

TreeType(t, K) ==
    /\ DOMAIN t \subseteq Node
    /\ \A n \in DOMAIN t : t[n] \subseteq [key : K, value : ValueKey, dist : Key]

(* The tries have nodes of levels 1 to MAX_LEVEL, whose cells carry keys of
   their kind, and values maps keys to KadValues. *)
TypeOK ==
    /\ TreeType(peers, PeerId)
    /\ TreeType(ips, Socket)
    /\ DOMAIN values \subseteq ValueKey
    /\ \A k \in DOMAIN values : values[k] \in KadValue

(* However buckets were split, filled and emptied since a peer was added,
   the search for it walks to the bucket its cell is in (KadTree::search
   against Node::insert), and the value it finds there is the peer's. *)
Findable ==
    \A id \in keys(peers) :
        LET r == search(peers, root_peer, id)
        IN  /\ r.found /\ r.is_it
            /\ r.cell.value \in DOMAIN values
            /\ values[r.cell.value].id = id

(* Whatever id is searched for, a peer that is answered is the closest one of
   the whole table: the one bucket that KadTree::search looks into never hides
   a closer peer elsewhere. *)
ClosestAnswered ==
    \A id \in Key :
        LET r == search(peers, root_peer, id)
        IN  r.found => \A other \in keys(peers) : ~Closer(xor(id, other), xor(id, r.cell.key))

(* A bucket never exceeds K_BUCKET cells, a node that was split keeps none,
   and no key has two cells in a trie: Node::insert replaces a known key before
   it looks for room, and divides the whole bucket when it splits. *)
BucketsSound(t) ==
    /\ \A n \in DOMAIN t :
        /\ Cardinality(t[n]) <= K_BUCKET
        /\ t[n] # {} => \A c \in t[n] : ~HasChild(t, c.dist, n[1])
    /\ \A c, e \in Cells(t) : c.key = e.key => c = e

Buckets == BucketsSound(peers) /\ BucketsSound(ips)

(* The map holds a value for every cell of the trie of ids and no other: a
   replaced, evicted or removed peer takes its value (and the channels in it)
   along. *)
ValuesExact == DOMAIN values = {c.value : c \in Cells(peers)}

(* The table is the map it promises to be. *)
Map == INSTANCE Dht WITH
    Peer <- PeerId, Value <- KadValue,
    table <- [id \in keys(peers) |-> values[(CHOOSE c \in Cells(peers) : c.key = id).value]]

(* Every add and remove of the double trie is an add or a remove of the map
   that Dht specifies: a known peer is always replaced, and only a table with
   K_BUCKET other peers refuses a peer or gives one up. *)
ImplementsMap == Map!Spec

(* A search of a table that holds peers answers one of them: the caller gets
   "it or closest peer" (server.rs, StableConnect). *)
SearchAnswers ==
    ~is_empty(peers) => \A id \in PeerId : search(peers, root_peer, id).found
=============================================================================
