-------------------------- MODULE PeerStoreProofs --------------------------
(***************************************************************************)
(* Proofs about PeerStore, for any peers, addresses and configured list,   *)
(* and any number of crashes: the identity, the seeds and their file, and  *)
(* the dials that are under way.                                           *)
(***************************************************************************)
EXTENDS PeerStore, FiniteSetTheorems, TLAPS

(* What save writes. *)
Lines == {to_multiaddr_string(e) : e \in Entries}

Calls(n) ==
    [by : Peers \cup {"server"}, addr : Addrs, pc : {"look", "start", "insert"}, at : 0 .. n]

Shape ==
    /\ phase \in {"down", "write_key", "load", "boot", "up"}
    /\ keyfile \in Nat /\ key \in Nat /\ made \in Nat /\ shown \subseteq Nat
    /\ allows \in Seq(Entries) /\ todo \in Seq(Entries)
    /\ dhts \subseteq Peers /\ stables \subseteq Peers
    /\ saving \in [left : Seq(Lines), joins : Peers \cup {Nobody}, on : BOOLEAN]
    /\ file \in Seq(Lines)
    /\ inboxes \in Seq(Seq(Addrs)) /\ sends \subseteq Calls(Len(inboxes))
    /\ transports \in [Kinds -> 0 .. Len(inboxes)]

(* Before the list is loaded nothing of the node runs. *)
Asleep ==
    phase \in {"down", "write_key", "load"} =>
        /\ allows = <<>> /\ todo = <<>> /\ saving = NotSaving /\ dhts = {} /\ stables = {}
        /\ sends = {} /\ inboxes = <<>>

(* The key that is used is the one on disk, and the only one shown. *)
Identity ==
    /\ phase \in {"load", "boot", "up"} => key = keyfile /\ keyfile # 0
    /\ phase = "write_key" => keyfile = 0 /\ key # 0
    /\ shown \subseteq {keyfile} \ {0}

(* An address is once among the entries, ... *)
Once(list) ==
    \A i, j \in DOMAIN list :
        list[i].socket = list[j].socket /\ list[i].socket # Zero => i = j

(* ... and on disk, or about to be written. *)
Listed(e) == \E j \in DOMAIN Config : Config[j] = e
Written(line, q) == \E k \in DOMAIN q : q[k] = line

Safe(list, f, left) ==
    \A i \in DOMAIN list :
        \/ Listed(list[i]) \/ list[i].socket = Zero
        \/ Written(to_multiaddr_string(list[i]), f)
        \/ Written(to_multiaddr_string(list[i]), left)

Kept == (~saving.on => saving.left = <<>>) /\ Safe(allows, file, saving.left)

(* The dials that are owed are those which a call or a transport has. *)
QueuedIn(boxes, a) ==
    {x \in Nat \X Nat : /\ x[1] \in 1 .. Len(boxes) /\ x[2] \in 1 .. Len(boxes[x[1]])
                        /\ boxes[x[1]][x[2]] = a}

CalledIn(calls, a) == {c \in calls : c.addr = a /\ c.pc # "insert"}

Counted(boxes, calls, owe) ==
    /\ owe \in [Addrs -> Int]
    /\ IsFiniteSet(calls) /\ \A c, d \in calls : c.by = d.by => c = d
    /\ \A a \in Addrs :
        /\ IsFiniteSet(QueuedIn(boxes, a))
        /\ owe[a] = Cardinality(QueuedIn(boxes, a)) + Cardinality(CalledIn(calls, a))

Dials == Counted(inboxes, sends, owed)

IInv == Shape /\ Asleep /\ Identity /\ Once(allows) /\ Kept /\ Dials
----------------------------------------------------------------------------

(* Lists of peers *)

(* A set of numbers has a least one: induction over a list takes the least
   counterexample. *)
LEMMA LeastNat ==
    ASSUME NEW T, T \subseteq Nat, T # {}
    PROVE  \E x \in T : \A y \in T : x <= y
<1> DEFINE R == OpToRel(<, Nat)
<1>1. IsWellFoundedOn(R, Nat)
  BY ZenonT(40), NatLessThanWellFounded
<1>2. \A x, y \in Nat : <<y, x>> \in R <=> y < x
  BY DEF OpToRel
<1> HIDE DEF R
<1>3. PICK x \in T : \A y \in T : ~ (<<y, x>> \in R)
  BY ZenonT(40), <1>1, WFMin
<1>4. \A y \in T : ~ (y < x)
  BY ZenonT(40), <1>2, <1>3
<1>5. \A y \in T : x <= y
  BY <1>4
<1> QED BY <1>5

(* A list with an entry more, ... *)
LEMMA Added ==
    ASSUME NEW S, NEW list \in Seq(S), NEW e \in S
    PROVE  /\ Append(list, e) \in Seq(S) /\ DOMAIN Append(list, e) = 1 .. Len(list) + 1
           /\ \A i \in 1 .. Len(list) : Append(list, e)[i] = list[i]
           /\ Append(list, e)[Len(list) + 1] = e /\ Len(Append(list, e)) = Len(list) + 1
OBVIOUS

(* ... of an address that was not there, ... *)
LEMMA AddedOnce ==
    ASSUME NEW list \in Seq(Entries), NEW e \in Entries, Once(list),
           e.socket = Zero \/ e.socket \notin Sockets(list)
    PROVE  /\ Once(Append(list, e))
           /\ \A i \in DOMAIN Append(list, e) :
                 Append(list, e)[i] = e \/ \E j \in DOMAIN list : Append(list, e)[i] = list[j]
<1> DEFINE new == Append(list, e)
<1>1. DOMAIN list = 1 .. Len(list) /\ Len(list) \in Nat
  OBVIOUS
<1>2. /\ DOMAIN new = 1 .. Len(list) + 1 /\ new[Len(list) + 1] = e
      /\ \A i \in 1 .. Len(list) : new[i] = list[i]
  BY Added
<1> HIDE DEF new
<1>3. ASSUME NEW i \in DOMAIN new, NEW j \in DOMAIN new,
             new[i].socket = new[j].socket, new[i].socket # Zero
      PROVE  i = j
  <2>1. CASE i # Len(list) + 1 /\ j # Len(list) + 1
    BY <1>1, <1>2, <1>3, <2>1 DEF Once
  <2>2. CASE i = Len(list) + 1
    BY <1>1, <1>2, <1>3, <2>2 DEF Sockets
  <2>3. CASE j = Len(list) + 1
    BY <1>1, <1>2, <1>3, <2>3 DEF Sockets
  <2> QED BY <2>1, <2>2, <2>3
<1>4. Once(new)
  BY <1>3 DEF Once
<1>5. \A i \in DOMAIN new : new[i] = e \/ \E j \in DOMAIN list : new[i] = list[j]
  BY <1>1, <1>2
<1> QED BY <1>4, <1>5 DEF new

(* ... as add_bootstrap and add_allow_peer make it, ... *)
LEMMA BootstrapAdded ==
    ASSUME NEW list \in Seq(Entries), NEW e \in Entries, Once(list)
    PROVE  LET new == add_bootstrap(list, e)
           IN  /\ new \in Seq(Entries) /\ Once(new)
               /\ \A i \in DOMAIN new : new[i] = e \/ \E j \in DOMAIN list : new[i] = list[j]
BY Added, AddedOnce DEF add_bootstrap

(* (an entry without an address may always be added) *)
LEMMA AllowAdded ==
    ASSUME NEW list \in Seq(Entries), NEW p \in Peers, Once(list)
    PROVE  LET new == add_allow_peer(list, p)
           IN  /\ new \in Seq(Entries) /\ Once(new)
               /\ \A i \in DOMAIN new :
                     new[i].socket = Zero \/ \E j \in DOMAIN list : new[i] = list[j]
<1>1. Peer(p, Zero) \in Entries /\ Peer(p, Zero).socket = Zero
  BY DEF Peer, Entries, Addrs
<1> QED BY <1>1, Added, AddedOnce DEF add_allow_peer

(* ... and with one less. *)
LEMMA Joined ==
    ASSUME NEW S, NEW s \in Seq(S), NEW t \in Seq(S)
    PROVE  /\ s \o t \in Seq(S) /\ Len(s \o t) = Len(s) + Len(t)
           /\ \A k \in 1 .. Len(s) + Len(t) :
                 (s \o t)[k] = IF k <= Len(s) THEN s[k] ELSE t[k - Len(s)]
OBVIOUS

(* Without takes out one entry and keeps the others. *)
LEMMA Removed ==
    ASSUME NEW list \in Seq(Entries), NEW i \in DOMAIN list, Once(list)
    PROVE  LET new == Without(list, i)
           IN  /\ new \in Seq(Entries) /\ Once(new)
               /\ \A k \in DOMAIN new : \E j \in DOMAIN list : new[k] = list[j]
<1>1. i \in 1 .. Len(list) /\ Len(list) \in Nat /\ DOMAIN list = 1 .. Len(list)
  OBVIOUS
<1> DEFINE a == SubSeq(list, 1, i - 1)
           b == SubSeq(list, i + 1, Len(list))
           new == Without(list, i)
<1>2. /\ a \in Seq(Entries) /\ Len(a) = i - 1 /\ \A k \in 1 .. i - 1 : a[k] = list[k]
  BY <1>1
<1>3. /\ b \in Seq(Entries) /\ Len(b) = Len(list) - i
      /\ \A k \in 1 .. Len(list) - i : b[k] = list[k + i]
  BY <1>1
<1>4. new = a \o b
  BY DEF Without
<1> HIDE DEF a, b, new
<1>5. /\ new \in Seq(Entries) /\ Len(new) = Len(list) - 1
      /\ \A k \in 1 .. Len(list) - 1 : new[k] = IF k < i THEN list[k] ELSE list[k + 1]
  <2>1. new \in Seq(Entries) /\ Len(new) = Len(list) - 1
    <3>1. a \o b \in Seq(Entries) /\ Len(a \o b) = Len(a) + Len(b)
      BY <1>2, <1>3, Joined
    <3> QED BY <1>1, <1>2, <1>3, <1>4, <3>1
  <2>2. ASSUME NEW k \in 1 .. Len(list) - 1
        PROVE  new[k] = IF k < i THEN list[k] ELSE list[k + 1]
    <3>1. new[k] = IF k <= Len(a) THEN a[k] ELSE b[k - Len(a)]
      BY SMTT(40), <1>1, <1>2, <1>3, <1>4
    <3>2. CASE k < i
      BY <1>1, <1>2, <3>1, <3>2
    <3>3. CASE k >= i
      <4>1. k - (i - 1) \in 1 .. Len(list) - i /\ (k - (i - 1)) + i = k + 1
        BY <1>1, <3>3
      <4>2. b[k - (i - 1)] = list[k + 1]
        BY <1>3, <4>1
      <4> QED BY <1>1, <1>2, <3>1, <3>3, <4>2
    <3> QED BY <1>1, <3>2, <3>3
  <2> QED BY <2>1, <2>2
<1>6. DOMAIN new = 1 .. Len(list) - 1
  BY <1>5
<1>7. \A k \in DOMAIN new : \E j \in DOMAIN list : new[k] = list[j]
  BY <1>1, <1>5, <1>6
<1>8. ASSUME NEW k \in DOMAIN new, NEW l \in DOMAIN new,
             new[k].socket = new[l].socket, new[k].socket # Zero
      PROVE  k = l
  <2>1. PICK m \in DOMAIN list : new[k] = list[m] /\ m = IF k < i THEN k ELSE k + 1
    BY <1>1, <1>5, <1>6
  <2>2. PICK n \in DOMAIN list : new[l] = list[n] /\ n = IF l < i THEN l ELSE l + 1
    BY <1>1, <1>5, <1>6
  <2>3. m = n
    BY <1>8, <2>1, <2>2 DEF Once
  <2> QED BY <1>1, <1>6, <2>1, <2>2, <2>3
<1>9. Once(new)
  BY <1>8 DEF Once
<1> QED BY <1>5, <1>7, <1>9 DEF new

(* The seeds of a list, by the equation of bootstrap: it has a solution, ... *)
Filtered(list, f, i) ==
    IF i = 1 THEN <<>>
    ELSE IF effective_socket(list[i - 1]) THEN Append(f[i - 1], list[i - 1])
    ELSE f[i - 1]

(* ... found along the list, by the least length without one. *)
LEMMA FilterExists ==
    ASSUME NEW list
    PROVE  \A n \in Nat : \E f : f = [i \in 1 .. n |-> Filtered(list, f, i)]
<1> DEFINE P(n) == \E f : f = [i \in 1 .. n |-> Filtered(list, f, i)]
           T == {n \in Nat : ~P(n)}
<1>1. SUFFICES ASSUME T # {} PROVE FALSE
  OBVIOUS
<1>2. PICK n \in T : \A m \in T : n <= m
  <2>1. T \subseteq Nat
    OBVIOUS
  <2> HIDE DEF T
  <2> QED BY ZenonT(40), <1>1, <2>1, LeastNat
<1>3. n \in Nat /\ ~P(n)
  OBVIOUS
<1>4. n # 0
  <2>1. ASSUME n = 0 PROVE P(n)
    <3>1. 1 .. n = {}
      BY <2>1
    <3>2. <<>> = [i \in 1 .. n |-> Filtered(list, <<>>, i)]
      BY <3>1
    <3> QED BY ZenonT(40), <3>2
  <2> QED BY <1>3, <2>1
<1>5. PICK m \in Nat : n = m + 1 /\ P(m)
  <2>1. n - 1 \in Nat /\ n = (n - 1) + 1 /\ n - 1 \notin T
    BY <1>2, <1>3, <1>4
  <2> QED BY <2>1
<1>6. PICK f : f = [i \in 1 .. m |-> Filtered(list, f, i)]
  BY <1>5
<1> DEFINE g == [i \in 1 .. n |-> IF i = n THEN Filtered(list, f, n) ELSE f[i]]
<1>7. \A i \in 1 .. n : g[i] = Filtered(list, g, i)
  <2>1. TAKE i \in 1 .. n
  <2>2. i # 1 => g[i - 1] = f[i - 1]
    BY <1>5
  <2>3. Filtered(list, g, i) = Filtered(list, f, i)
    BY <2>2 DEF Filtered
  <2>4. i # n => i \in 1 .. m
    BY <1>5
  <2>5. i # n => f[i] = Filtered(list, f, i)
    BY <1>6, <2>4
  <2> QED BY <2>3, <2>5
<1>8. g = [i \in 1 .. n |-> Filtered(list, g, i)]
  BY <1>7
<1>9. P(n)
  <2> HIDE DEF g
  <2> QED BY <1>8
<1> QED BY <1>3, <1>9

(* ... which is a list of peers. *)
LEMMA SeedsTyped ==
    ASSUME NEW list \in Seq(Entries)
    PROVE  bootstrap(list) \in Seq(Entries)
<1>1. PICK n \in Nat : n = Len(list) + 1
  OBVIOUS
<1> DEFINE g == CHOOSE f : f = [i \in 1 .. n |-> Filtered(list, f, i)]
<1>2. bootstrap(list) = g[n]
  BY <1>1 DEF bootstrap, Filtered
<1>3. g = [i \in 1 .. n |-> Filtered(list, g, i)]
  BY Zenon, FilterExists
<1> HIDE DEF g
<1>4. \A i \in 1 .. n : g[i] = Filtered(list, g, i)
  BY <1>3
<1> DEFINE T == {i \in 1 .. n : g[i] \notin Seq(Entries)}
<1>5. T = {}
  <2>1. SUFFICES ASSUME T # {} PROVE FALSE
    OBVIOUS
  <2>2. PICK i \in T : \A j \in T : i <= j
    <3>1. T \subseteq Nat
      OBVIOUS
    <3> HIDE DEF T
    <3> QED BY ZenonT(40), <2>1, <3>1, LeastNat
  <2>3. i \in 1 .. n /\ g[i] \notin Seq(Entries)
    OBVIOUS
  <2>4. CASE i = 1
    <3>1. g[i] = Filtered(list, g, i) /\ <<>> \in Seq(Entries)
      BY <1>4, <2>3
    <3>2. Filtered(list, g, i) = <<>>
      BY <2>4 DEF Filtered
    <3> QED BY <2>3, <3>1, <3>2
  <2>5. CASE i # 1
    <3>1. i - 1 \in 1 .. n /\ i - 1 < i /\ i - 1 \in 1 .. Len(list)
      BY <1>1, <2>3, <2>5
    <3>2. g[i - 1] \in Seq(Entries) /\ list[i - 1] \in Entries
      BY <2>2, <3>1
    <3>3. Append(g[i - 1], list[i - 1]) \in Seq(Entries)
      BY <3>2
    <3>4. g[i] = Filtered(list, g, i)
      BY <1>4, <2>3
    <3> QED BY <2>3, <2>5, <3>2, <3>3, <3>4 DEF Filtered
  <2> QED BY <2>4, <2>5
<1> QED BY <1>1, <1>2, <1>5

(* What save wrote is not what load reads: the second field of a line is a
   label, not an address (peer.rs: to_multiaddr_string and
   from_multiaddr_string), so that only the configured list is there. *)
LEMMA LineRefused ==
    ASSUME NEW line \in Lines
    PROVE  from_multiaddr_string(line) = {} /\ Len(line) = 5
<1>1. PICK e \in Entries : line = <<"", "ip", e.socket[1], Kind[e.socket], e.socket[2]>>
  BY ZenonT(40) DEF Lines, to_multiaddr_string
<1>2. line[2] = "ip" /\ Len(line) = 5
  BY ZenonT(40), <1>1
<1> QED BY <1>2, StoreAssumption DEF from_multiaddr_string

LoadedTo(f, i) ==
    IF i = 1 THEN Config
    ELSE LET p == from_multiaddr_string(file[i - 1])
         IN  IF p = {} THEN f[i - 1]
             ELSE add_bootstrap(f[i - 1], CHOOSE q \in p : TRUE)

(* load returns the configured list. *)
LEMMA LoadedIs ==
    ASSUME file \in Seq(Lines)
    PROVE  Loaded = Config
<1>1. PICK n \in Nat : n = Len(file) + 1
  OBVIOUS
<1>2. ASSUME NEW f, NEW i \in 1 .. n
      PROVE  LoadedTo(f, i) = IF i = 1 THEN Config ELSE f[i - 1]
  <2>1. CASE i # 1
    <3>1. i - 1 \in 1 .. Len(file)
      BY <1>1, <2>1
    <3>2. file[i - 1] \in Lines
      BY <3>1
    <3> QED BY <2>1, <3>2, LineRefused DEF LoadedTo
  <2> QED BY <2>1 DEF LoadedTo
<1> DEFINE g == CHOOSE f : f = [i \in 1 .. n |-> LoadedTo(f, i)]
<1>3. Loaded = g[n]
  BY <1>1 DEF Loaded, LoadedTo
<1>4. \E f : f = [i \in 1 .. n |-> LoadedTo(f, i)]
  <2> DEFINE h == [i \in 1 .. n |-> Config]
  <2>1. \A i \in 1 .. n : h[i] = LoadedTo(h, i)
    <3>1. TAKE i \in 1 .. n
    <3>2. i # 1 => h[i - 1] = Config
      OBVIOUS
    <3> QED BY <1>2, <3>2
  <2>2. h = [i \in 1 .. n |-> LoadedTo(h, i)]
    BY <2>1
  <2> HIDE DEF h
  <2> QED BY <2>2
<1>5. g = [i \in 1 .. n |-> LoadedTo(g, i)]
  BY Zenon, <1>4
<1> HIDE DEF g
<1>6. \A i \in 1 .. n : g[i] = IF i = 1 THEN Config ELSE g[i - 1]
  BY <1>2, <1>5
<1> DEFINE T == {i \in 1 .. n : g[i] # Config}
<1>7. T = {}
  <2>1. SUFFICES ASSUME T # {} PROVE FALSE
    OBVIOUS
  <2>2. PICK i \in T : \A j \in T : i <= j
    <3>1. T \subseteq Nat
      OBVIOUS
    <3> HIDE DEF T
    <3> QED BY ZenonT(40), <2>1, <3>1, LeastNat
  <2>3. i # 1 /\ i - 1 \in 1 .. n /\ g[i - 1] = Config
    BY <1>6, <2>2
  <2> QED BY <1>6, <2>3
<1> QED BY <1>1, <1>3, <1>7

(* What save is going to write. *)
LEMMA SaveIs ==
    ASSUME NEW list \in Seq(Entries)
    PROVE  LET left == [i \in DOMAIN list |-> to_multiaddr_string(list[i])]
           IN  /\ left \in Seq(Lines)
               /\ \A i \in DOMAIN list : Written(to_multiaddr_string(list[i]), left)
<1> DEFINE left == [i \in 1 .. Len(list) |-> to_multiaddr_string(list[i])]
<1>1. \A i \in 1 .. Len(list) : to_multiaddr_string(list[i]) \in Lines
  BY DEF Lines
<1>2. left \in Seq(Lines) /\ DOMAIN left = 1 .. Len(list)
  BY <1>1
<1>3. \A i \in 1 .. Len(list) : Written(to_multiaddr_string(list[i]), left)
  BY DEF Written
<1>4. DOMAIN list = 1 .. Len(list)
  OBVIOUS
<1> QED BY <1>2, <1>3, <1>4

----------------------------------------------------------------------------
(* Transports and calls *)

(* What the transports have been asked to dial. *)
Inboxes == Seq(Seq(Addrs))

(* A transport's inbox is replaced. *)
Put(boxes, i, q, new) ==
    /\ new \in Inboxes /\ Len(new) = Len(boxes)
    /\ \A j \in 1 .. Len(boxes) : new[j] = IF j = i THEN q ELSE boxes[j]

(* EXCEPT is such a replacement. *)
LEMMA Replaced ==
    ASSUME NEW boxes \in Inboxes, NEW i \in 1 .. Len(boxes), NEW q \in Seq(Addrs)
    PROVE  Put(boxes, i, q, [boxes EXCEPT ![i] = q])
BY DEF Put, Inboxes

(* The transports have a message more, for a. *)
Held(boxes, a, new) ==
    /\ \E x : /\ x \notin QueuedIn(boxes, a)
              /\ QueuedIn(new, a) = QueuedIn(boxes, a) \cup {x}
    /\ \A b \in Addrs \ {a} : QueuedIn(new, b) = QueuedIn(boxes, b)

(* A message more for a transport, ... *)
LEMMA QueueAdded ==
    ASSUME NEW boxes \in Inboxes, NEW at \in 1 .. Len(boxes), NEW a \in Addrs,
           NEW new, Put(boxes, at, Append(boxes[at], a), new)
    PROVE  /\ new \in Inboxes /\ Len(new) = Len(boxes)
           /\ Held(boxes, a, new)
<1> USE DEF Inboxes
<1>1. PICK old \in Seq(Addrs) : old = boxes[at]
  OBVIOUS
<1>2. PICK n \in Nat : n = Len(old)
  BY <1>1
<1>3. PICK q \in Seq(Addrs) : /\ q = Append(old, a) /\ Len(q) = n + 1 /\ q[n + 1] = a
                              /\ \A k \in 1 .. n : q[k] = old[k]
  <2>1. Append(old, a) \in Seq(Addrs) /\ Append(old, a)[n + 1] = a
    BY <1>2, Added
  <2>2. Len(Append(old, a)) = n + 1 /\ \A k \in 1 .. n : Append(old, a)[k] = old[k]
    BY <1>2, Added
  <2> QED BY ZenonT(40), <2>1, <2>2
<1>4. /\ new \in Inboxes /\ Len(new) = Len(boxes)
      /\ \A i \in 1 .. Len(boxes) : new[i] = IF i = at THEN q ELSE boxes[i]
  <2>1. Put(boxes, at, q, new)
    BY ZenonT(40), <1>1, <1>3
  <2> QED BY ZenonT(40), <2>1 DEF Put
<1>5. <<at, n + 1>> \notin QueuedIn(boxes, a)
  BY <1>1, <1>2 DEF QueuedIn
<1>6. ASSUME NEW b \in Addrs, NEW x \in Nat \X Nat
      PROVE  x \in QueuedIn(new, b) <=> x \in QueuedIn(boxes, b) \/ (b = a /\ x = <<at, n + 1>>)
  <2>1. PICK i \in Nat, k \in Nat : x = <<i, k>>
    OBVIOUS
  <2>2. x \in QueuedIn(new, b) <=> i \in 1 .. Len(boxes) /\ k \in 1 .. Len(new[i]) /\ new[i][k] = b
    BY ZenonT(40), <1>4, <2>1 DEF QueuedIn
  <2>3. x \in QueuedIn(boxes, b) <=> i \in 1 .. Len(boxes) /\ k \in 1 .. Len(boxes[i]) /\ boxes[i][k] = b
    BY ZenonT(40), <2>1 DEF QueuedIn
  <2>4. CASE i = at
    <3>1. new[i] = q /\ boxes[i] = old /\ i \in 1 .. Len(boxes)
      BY <1>1, <1>4, <2>4
    <3>2. k \in 1 .. Len(q) /\ q[k] = b <=> (k \in 1 .. n /\ old[k] = b) \/ (k = n + 1 /\ b = a)
      BY SMTT(40), <1>3
    <3> QED BY <1>2, <2>1, <2>2, <2>3, <2>4, <3>1, <3>2
  <2>5. CASE i # at
    BY ZenonT(40), <1>4, <2>1, <2>2, <2>3, <2>5
  <2> QED BY <2>4, <2>5
<1>7. QueuedIn(new, a) = QueuedIn(boxes, a) \cup {<<at, n + 1>>}
  <2>1. \A b : QueuedIn(new, b) \subseteq Nat \X Nat /\ QueuedIn(boxes, b) \subseteq Nat \X Nat
    BY DEF QueuedIn
  <2>2. <<at, n + 1>> \in Nat \X Nat
    OBVIOUS
  <2> QED BY <1>6, <2>1, <2>2
<1>8. \A b \in Addrs \ {a} : QueuedIn(new, b) = QueuedIn(boxes, b)
  <2>1. \A b : QueuedIn(new, b) \subseteq Nat \X Nat /\ QueuedIn(boxes, b) \subseteq Nat \X Nat
    BY DEF QueuedIn
  <2> QED BY ZenonT(40), <1>6, <2>1
<1> QED BY ZenonT(40), <1>4, <1>5, <1>7, <1>8 DEF Held

(* ... a transport more, with a first message, ... *)
LEMMA QueueMade ==
    ASSUME NEW boxes \in Inboxes, NEW a \in Addrs,
           NEW new, new = Append(boxes, <<a>>)
    PROVE  /\ new \in Inboxes /\ Len(new) = Len(boxes) + 1
           /\ Held(boxes, a, new)
<1> USE DEF Inboxes
<1>1. PICK n \in Nat : n = Len(boxes)
  OBVIOUS
<1>2. PICK q \in Seq(Addrs) : q = <<a>> /\ Len(q) = 1 /\ q[1] = a
  <2>1. <<a>> \in Seq(Addrs) /\ Len(<<a>>) = 1 /\ <<a>>[1] = a
    OBVIOUS
  <2> QED BY ZenonT(40), <2>1
<1>3. /\ new \in Inboxes /\ Len(new) = n + 1 /\ new[n + 1] = q
      /\ \A i \in 1 .. n : new[i] = boxes[i]
  BY <1>1, <1>2, Added
<1>4. <<n + 1, 1>> \notin QueuedIn(boxes, a)
  BY <1>1 DEF QueuedIn
<1>5. ASSUME NEW b \in Addrs, NEW x \in Nat \X Nat
      PROVE  x \in QueuedIn(new, b) <=> x \in QueuedIn(boxes, b) \/ (b = a /\ x = <<n + 1, 1>>)
  <2>1. PICK i \in Nat, k \in Nat : x = <<i, k>>
    OBVIOUS
  <2>2. x \in QueuedIn(new, b) <=> i \in 1 .. n + 1 /\ k \in 1 .. Len(new[i]) /\ new[i][k] = b
    BY <1>3, <2>1 DEF QueuedIn
  <2>3. x \in QueuedIn(boxes, b) <=> i \in 1 .. n /\ k \in 1 .. Len(boxes[i]) /\ boxes[i][k] = b
    BY <1>1, <2>1 DEF QueuedIn
  <2>4. CASE i = n + 1
    <3>1. k \in 1 .. Len(q) /\ q[k] = b <=> k = 1 /\ b = a
      BY <1>2
    <3>2. /\ new[i] = q /\ i \in 1 .. n + 1 /\ i \notin 1 .. n
          /\ x = <<n + 1, 1>> <=> k = 1
      BY <1>3, <2>1, <2>4
    <3> QED BY ZenonT(40), <2>2, <2>3, <3>1, <3>2
  <2>5. CASE i # n + 1
    <3>1. i \in 1 .. n + 1 <=> i \in 1 .. n
      BY <2>5
    <3>2. i \in 1 .. n => new[i] = boxes[i]
      BY <1>3
    <3>3. x # <<n + 1, 1>>
      BY <2>1, <2>5
    <3> QED BY ZenonT(40), <2>2, <2>3, <3>1, <3>2, <3>3
  <2> QED BY <2>4, <2>5
<1>6. /\ \A b : QueuedIn(new, b) \subseteq Nat \X Nat /\ QueuedIn(boxes, b) \subseteq Nat \X Nat
      /\ <<n + 1, 1>> \in Nat \X Nat
  BY DEF QueuedIn
<1>7. QueuedIn(new, a) = QueuedIn(boxes, a) \cup {<<n + 1, 1>>}
  BY <1>5, <1>6
<1>8. \A b \in Addrs \ {a} : QueuedIn(new, b) = QueuedIn(boxes, b)
  BY ZenonT(40), <1>5, <1>6
<1> QED BY <1>1, <1>3, <1>4, <1>7, <1>8 DEF Held

(* ... and a message taken off one. *)
Taken(boxes, at, new) ==
    at \in 1 .. Len(boxes) /\ boxes[at] # <<>> /\ Put(boxes, at, Tail(boxes[at]), new)

Fewer(boxes, h, new, b) ==
    /\ h \in Addrs /\ IsFiniteSet(QueuedIn(new, b))
    /\ Cardinality(QueuedIn(new, b)) = Cardinality(QueuedIn(boxes, b)) - IF h = b THEN 1 ELSE 0

(* The messages behind it move up: one fewer for its address. *)
LEMMA QueueTaken ==
    ASSUME NEW boxes \in Inboxes, NEW at, NEW new, Taken(boxes, at, new),
           NEW b \in Addrs, IsFiniteSet(QueuedIn(boxes, b))
    PROVE  /\ new \in Inboxes /\ Len(new) = Len(boxes)
           /\ Fewer(boxes, Head(boxes[at]), new, b)
<1>0. at \in 1 .. Len(boxes) /\ boxes[at] # <<>> /\ Put(boxes, at, Tail(boxes[at]), new)
  BY DEF Taken
<1> USE DEF Inboxes
<1>1. PICK old \in Seq(Addrs) : old = boxes[at]
  BY <1>0
<1>2. PICK n \in Nat : n = Len(old) /\ n > 0
  BY <1>0, <1>1
<1>3. PICK q \in Seq(Addrs) : q = Tail(old) /\ Len(q) = n - 1 /\ \A k \in 1 .. n - 1 : q[k] = old[k + 1]
  <2>1. Tail(old) \in Seq(Addrs) /\ Len(Tail(old)) = n - 1
    BY <1>2
  <2>2. \A k \in 1 .. n - 1 : Tail(old)[k] = old[k + 1]
    BY <1>2
  <2> QED BY ZenonT(40), <2>1, <2>2
<1>4. /\ new \in Inboxes /\ Len(new) = Len(boxes)
      /\ \A i \in 1 .. Len(boxes) : new[i] = IF i = at THEN q ELSE boxes[i]
  <2>1. Put(boxes, at, q, new)
    BY ZenonT(40), <1>0, <1>1, <1>3
  <2> QED BY ZenonT(40), <2>1 DEF Put
<1>5. Head(boxes[at]) = old[1] /\ old[1] \in Addrs
  BY <1>0, <1>1, <1>2
<1> DEFINE F == QueuedIn(boxes, b)
           R == F \ {<<at, 1>>}
           N == QueuedIn(new, b)
           f == [x \in R |-> IF x[1] = at THEN <<at, x[2] - 1>> ELSE x]
<1>6. ASSUME NEW i \in Nat, NEW k \in Nat
      PROVE  <<i, k>> \in F <=> i \in 1 .. Len(boxes) /\ k \in 1 .. Len(boxes[i]) /\ boxes[i][k] = b
  BY DEF QueuedIn
<1>7. ASSUME NEW i \in Nat, NEW k \in Nat
      PROVE  <<i, k>> \in N <=> i \in 1 .. Len(boxes) /\ k \in 1 .. Len(new[i]) /\ new[i][k] = b
  BY ZenonT(40), <1>4 DEF QueuedIn
<1>8. F \subseteq Nat \X Nat /\ N \subseteq Nat \X Nat
  BY DEF QueuedIn
<1>9. ASSUME NEW k \in Nat
      PROVE  <<at, k>> \in N <=> k \in 1 .. n - 1 /\ old[k + 1] = b
  <2>1. new[at] = q
    BY <1>0, <1>4
  <2>2. at \in Nat /\ at \in 1 .. Len(boxes)
    BY <1>0
  <2> HIDE DEF F, N
  <2>3. <<at, k>> \in N <=> k \in 1 .. n - 1 /\ q[k] = b
    <3>1. <<at, k>> \in N <=> k \in 1 .. Len(q) /\ q[k] = b
      BY ZenonT(40), <1>7, <2>1, <2>2
    <3> QED BY ZenonT(40), <1>3, <3>1
  <2> QED BY ZenonT(40), <1>3, <2>3
<1>10. ASSUME NEW k \in Nat
       PROVE  <<at, k>> \in F <=> k \in 1 .. n /\ old[k] = b
  BY <1>0, <1>1, <1>2, <1>6
<1>11. ASSUME NEW i \in Nat, NEW k \in Nat, i # at
       PROVE  <<i, k>> \in N <=> <<i, k>> \in F
  <2>1. i \in 1 .. Len(boxes) => new[i] = boxes[i]
    BY ZenonT(40), <1>4, <1>11
  <2> HIDE DEF F, N
  <2> QED BY ZenonT(40), <1>6, <1>7, <2>1
<1>12. at \in Nat
  BY <1>0
<1> HIDE DEF F, N
<1>13. f \in Bijection(R, N)
  <2>1. ASSUME NEW x \in R
        PROVE  f[x] \in N
    <3>1. PICK i \in Nat, k \in Nat : x = <<i, k>>
      BY <1>8
    <3>2. CASE i = at
      <4>1. k \in 1 .. n /\ k # 1 /\ old[k] = b
        BY <1>10, <3>1, <3>2
      <4>2. k - 1 \in Nat /\ k - 1 \in 1 .. n - 1 /\ (k - 1) + 1 = k
        BY <4>1
      <4>3. <<at, k - 1>> \in N
        BY <1>9, <4>1, <4>2
      <4> QED BY ZenonT(40), <3>1, <3>2, <4>3
    <3>3. CASE i # at
      BY <1>11, <3>1, <3>3
    <3> QED BY <3>2, <3>3
  <2>2. ASSUME NEW x \in R, NEW y \in R, f[x] = f[y]
        PROVE  x = y
    <3>1. PICK i \in Nat, k \in Nat : x = <<i, k>>
      BY <1>8
    <3>2. PICK j \in Nat, l \in Nat : y = <<j, l>>
      BY <1>8
    <3>3. /\ f[x] = IF i = at THEN <<at, k - 1>> ELSE <<i, k>>
          /\ f[y] = IF j = at THEN <<at, l - 1>> ELSE <<j, l>>
      BY ZenonT(40), <3>1, <3>2
    <3> HIDE DEF f
    <3> QED BY <2>2, <3>1, <3>2, <3>3
  <2>3. ASSUME NEW y \in N
        PROVE  \E x \in R : f[x] = y
    <3>1. PICK j \in Nat, l \in Nat : y = <<j, l>>
      BY <1>8
    <3>2. CASE j = at
      <4>1. l \in 1 .. n - 1 /\ old[l + 1] = b
        BY <1>9, <3>1, <3>2
      <4>2. <<at, l + 1>> \in R
        BY <1>10, <4>1
      <4>3. f[<<at, l + 1>>] = y
        BY <3>1, <3>2, <4>1, <4>2
      <4> QED BY <4>2, <4>3
    <3>3. CASE j # at
      BY ZenonT(40), <1>11, <3>1, <3>3
    <3> QED BY <3>2, <3>3
  <2>4. f \in [R -> N]
    BY <2>1
  <2> HIDE DEF f
  <2> QED BY ZenonT(40), <2>2, <2>3, <2>4 DEF Bijection, Injection, Surjection, IsInjective
<1>14. IsFiniteSet(R) /\ Cardinality(R) = IF <<at, 1>> \in F THEN Cardinality(F) - 1 ELSE Cardinality(F)
  BY ZenonT(40), FS_RemoveElement DEF F
<1>15. ExistsBijection(R, N)
  BY ZenonT(40), <1>13 DEF ExistsBijection
<1>16. IsFiniteSet(N) /\ Cardinality(N) = Cardinality(R)
  BY ZenonT(40), <1>14, <1>15, FS_Bijection
<1>17. <<at, 1>> \in F <=> old[1] = b
  BY <1>2, <1>10
<1>18. Cardinality(F) \in Nat
  BY FS_CardinalityType DEF F
<1>19. Cardinality(N) = Cardinality(F) - IF Head(boxes[at]) = b THEN 1 ELSE 0
  BY SMTT(40), <1>5, <1>14, <1>16, <1>17, <1>18
<1> QED BY ZenonT(40), <1>4, <1>5, <1>16, <1>19 DEF F, N, Fewer

(* The calls for an address are finitely many. *)
LEMMA CalledFinite ==
    ASSUME NEW calls, IsFiniteSet(calls), NEW a
    PROVE  IsFiniteSet(CalledIn(calls, a)) /\ Cardinality(CalledIn(calls, a)) \in Nat
<1>1. CalledIn(calls, a) \subseteq calls
  BY DEF CalledIn
<1> QED BY <1>1, FS_Subset, FS_CardinalityType

(* The count is kept by a call that begins, ... *)
LEMMA CallAdded ==
    ASSUME NEW boxes, NEW calls, NEW owe, Counted(boxes, calls, owe), NEW c, c.addr \in Addrs,
           c.pc # "insert", \A d \in calls : d.by # c.by
    PROVE  Counted(boxes, calls \cup {c}, [owe EXCEPT ![c.addr] = @ + 1])
<1> DEFINE more == calls \cup {c}
<1>1. c \notin calls
  OBVIOUS
<1>2. IsFiniteSet(calls) /\ IsFiniteSet(more)
  BY FS_AddElement DEF Counted
<1>3. \A d, e \in more : d.by = e.by => d = e
  BY DEF Counted
<1>4. CalledIn(more, c.addr) = CalledIn(calls, c.addr) \cup {c} /\ c \notin CalledIn(calls, c.addr)
  BY <1>1 DEF CalledIn
<1>5. \A a \in Addrs \ {c.addr} : CalledIn(more, a) = CalledIn(calls, a)
  BY DEF CalledIn
<1>6. Cardinality(CalledIn(more, c.addr)) = Cardinality(CalledIn(calls, c.addr)) + 1
  BY ZenonT(40), <1>2, <1>4, CalledFinite, FS_AddElement
<1> HIDE DEF more
<1>7. \A a \in Addrs : /\ Cardinality(CalledIn(calls, a)) \in Nat /\ IsFiniteSet(QueuedIn(boxes, a))
                       /\ Cardinality(QueuedIn(boxes, a)) \in Nat
  BY <1>2, CalledFinite, FS_CardinalityType DEF Counted
<1>8. /\ owe \in [Addrs -> Int]
      /\ \A a \in Addrs :
            owe[a] = Cardinality(QueuedIn(boxes, a)) + Cardinality(CalledIn(calls, a))
  BY DEF Counted
<1>9. ASSUME NEW a \in Addrs
      PROVE  [owe EXCEPT ![c.addr] = @ + 1][a]
               = Cardinality(QueuedIn(boxes, a)) + Cardinality(CalledIn(more, a))
  <2>1. CASE a = c.addr
    BY <1>6, <1>7, <1>8, <2>1
  <2>2. CASE a # c.addr
    BY <1>5, <1>8, <2>2
  <2> QED BY <2>1, <2>2
<1>10. [owe EXCEPT ![c.addr] = @ + 1] \in [Addrs -> Int]
  BY <1>8
<1>11. Counted(boxes, more, [owe EXCEPT ![c.addr] = @ + 1])
  BY <1>2, <1>3, <1>7, <1>9, <1>10 DEF Counted
<1> QED BY <1>11 DEF more

(* ... that finds no transport, ... *)
LEMMA CallGoes ==
    ASSUME NEW boxes, NEW calls, NEW owe, Counted(boxes, calls, owe), NEW c \in calls,
           NEW d, d.by = c.by, d.addr = c.addr, c.pc # "insert", d.pc # "insert"
    PROVE  Counted(boxes, (calls \ {c}) \cup {d}, owe)
<1> DEFINE rest == calls \ {c}
           new == rest \cup {d}
<1>1. IsFiniteSet(calls) /\ \A e \in rest : e.by # c.by
  BY DEF Counted
<1>2. IsFiniteSet(rest) /\ IsFiniteSet(new)
  BY ZenonT(40), <1>1, FS_RemoveElement, FS_AddElement
<1>3. \A e, g \in new : e.by = g.by => e = g
  BY <1>1 DEF Counted
<1>4. ASSUME NEW a \in Addrs
      PROVE  Cardinality(CalledIn(new, a)) = Cardinality(CalledIn(calls, a))
  <2>1. CASE a = c.addr
    <3>1. CalledIn(rest, a) = CalledIn(calls, a) \ {c} /\ c \in CalledIn(calls, a)
      BY <2>1 DEF CalledIn
    <3>2. CalledIn(new, a) = CalledIn(rest, a) \cup {d} /\ d \notin CalledIn(rest, a)
      BY <1>1, <2>1 DEF CalledIn
    <3>3. /\ IsFiniteSet(CalledIn(calls, a)) /\ Cardinality(CalledIn(calls, a)) \in Nat
          /\ IsFiniteSet(CalledIn(rest, a))
      BY <1>1, <1>2, CalledFinite
    <3>4. Cardinality(CalledIn(rest, a)) = Cardinality(CalledIn(calls, a)) - 1
      BY ZenonT(60), <3>1, <3>3, FS_RemoveElement
    <3>5. Cardinality(CalledIn(new, a)) = Cardinality(CalledIn(rest, a)) + 1
      BY ZenonT(40), <3>2, <3>3, FS_AddElement
    <3> QED BY <3>3, <3>4, <3>5
  <2>2. CASE a # c.addr
    <3>1. CalledIn(new, a) = CalledIn(calls, a)
      BY <2>2 DEF CalledIn
    <3> QED BY <3>1
  <2> QED BY <2>1, <2>2
<1> HIDE DEF new
<1>5. Counted(boxes, new, owe)
  BY <1>2, <1>3, <1>4 DEF Counted
<1> QED BY <1>5 DEF new

(* ... that hands its message to a transport, and then ends or goes on to
   list the transport, ... *)
LEMMA CallQueued ==
    ASSUME NEW boxes, NEW calls, NEW owe, Counted(boxes, calls, owe), NEW c \in calls,
           c.pc # "insert", c.addr \in Addrs, NEW new, Held(boxes, c.addr, new),
           NEW rest, rest = {} \/ \E d : rest = {d} /\ d.by = c.by /\ d.pc = "insert"
    PROVE  Counted(new, (calls \ {c}) \cup rest, owe)
<1> DEFINE left == (calls \ {c}) \cup rest
<1>1. IsFiniteSet(calls) /\ \A e \in calls \ {c} : e.by # c.by
  BY DEF Counted
<1>2. IsFiniteSet(left)
  <2>1. IsFiniteSet(calls \ {c})
    BY <1>1, FS_RemoveElement
  <2>2. CASE rest = {}
    BY <2>1, <2>2
  <2>3. CASE \E d : rest = {d}
    BY <2>1, <2>3, FS_AddElement
  <2> QED BY <2>2, <2>3
<1>3. \A e, g \in left : e.by = g.by => e = g
  BY <1>1 DEF Counted
<1>4. \A a : CalledIn(left, a) = IF a = c.addr THEN CalledIn(calls, a) \ {c} ELSE CalledIn(calls, a)
  BY DEF CalledIn
<1>5. c \in CalledIn(calls, c.addr)
  BY DEF CalledIn
<1> HIDE DEF left
<1>6. \A a \in Addrs : /\ IsFiniteSet(CalledIn(calls, a)) /\ Cardinality(CalledIn(calls, a)) \in Nat
                       /\ IsFiniteSet(QueuedIn(boxes, a)) /\ Cardinality(QueuedIn(boxes, a)) \in Nat
  BY ZenonT(40), <1>1, CalledFinite, FS_CardinalityType DEF Counted
<1>7. Cardinality(CalledIn(left, c.addr)) = Cardinality(CalledIn(calls, c.addr)) - 1
  BY <1>4, <1>5, <1>6, FS_RemoveElement
<1>8. /\ IsFiniteSet(QueuedIn(new, c.addr))
      /\ Cardinality(QueuedIn(new, c.addr)) = Cardinality(QueuedIn(boxes, c.addr)) + 1
  <2>1. PICK x : x \notin QueuedIn(boxes, c.addr) /\ QueuedIn(new, c.addr) = QueuedIn(boxes, c.addr) \cup {x}
    BY DEF Held
  <2> QED BY <1>6, <2>1, FS_AddElement
<1>9. \A a \in Addrs \ {c.addr} : QueuedIn(new, a) = QueuedIn(boxes, a)
  BY ZenonT(40) DEF Held
<1>10. ASSUME NEW a \in Addrs
       PROVE  /\ IsFiniteSet(QueuedIn(new, a))
              /\ owe[a] = Cardinality(QueuedIn(new, a)) + Cardinality(CalledIn(left, a))
  <2>1. owe[a] = Cardinality(QueuedIn(boxes, a)) + Cardinality(CalledIn(calls, a))
    BY ZenonT(40) DEF Counted
  <2>2. CASE a = c.addr
    BY SMTT(40), <1>6, <1>7, <1>8, <2>1, <2>2
  <2>3. CASE a # c.addr
    BY ZenonT(40), <1>4, <1>6, <1>9, <2>1, <2>3
  <2> QED BY ZenonT(40), <2>2, <2>3
<1>11. Counted(new, left, owe)
  BY <1>2, <1>3, <1>10 DEF Counted
<1> QED BY <1>11 DEF left

(* ... or that has listed one, ... *)
LEMMA CallEnded ==
    ASSUME NEW boxes, NEW calls, NEW owe, Counted(boxes, calls, owe), NEW c \in calls, c.pc = "insert"
    PROVE  Counted(boxes, calls \ {c}, owe)
<1>1. IsFiniteSet(calls \ {c})
  BY FS_RemoveElement DEF Counted
<1>2. \A a : CalledIn(calls \ {c}, a) = CalledIn(calls, a)
  BY DEF CalledIn
<1> QED BY ZenonT(40), <1>1, <1>2 DEF Counted

(* ... and by a transport that dials. *)
LEMMA CallDialled ==
    ASSUME NEW boxes \in Inboxes, NEW calls, NEW owe, Counted(boxes, calls, owe),
           NEW at, NEW new, Taken(boxes, at, new)
    PROVE  /\ Head(boxes[at]) \in Addrs
           /\ Counted(new, calls, [owe EXCEPT ![Head(boxes[at])] = @ - 1])
<1>1. PICK h : h = Head(boxes[at])
  OBVIOUS
<1>2. \A b \in Addrs : IsFiniteSet(QueuedIn(boxes, b)) /\ Cardinality(QueuedIn(boxes, b)) \in Nat
  BY FS_CardinalityType DEF Counted
<1>3. ASSUME NEW b \in Addrs
      PROVE  /\ h \in Addrs /\ IsFiniteSet(QueuedIn(new, b))
             /\ Cardinality(QueuedIn(new, b)) = Cardinality(QueuedIn(boxes, b)) - IF h = b THEN 1 ELSE 0
  <2>1. IsFiniteSet(QueuedIn(boxes, b))
    BY <1>2
  <2>2. Fewer(boxes, h, new, b)
    BY ZenonT(40), <1>1, <2>1, QueueTaken
  <2> QED BY <2>2 DEF Fewer
<1>4. h \in Addrs
  BY <1>3 DEF Addrs
<1>5. /\ IsFiniteSet(calls) /\ \A c, d \in calls : c.by = d.by => c = d
      /\ owe \in [Addrs -> Int]
      /\ \A a \in Addrs :
            owe[a] = Cardinality(QueuedIn(boxes, a)) + Cardinality(CalledIn(calls, a))
  BY DEF Counted
<1>6. \A a \in Addrs : Cardinality(CalledIn(calls, a)) \in Nat
  BY <1>5, CalledFinite
<1>7. [owe EXCEPT ![h] = @ - 1] \in [Addrs -> Int]
  BY <1>4, <1>5
<1>8. ASSUME NEW a \in Addrs
      PROVE  [owe EXCEPT ![h] = @ - 1][a] = Cardinality(QueuedIn(new, a)) + Cardinality(CalledIn(calls, a))
  <2>1. owe[a] = Cardinality(QueuedIn(boxes, a)) + Cardinality(CalledIn(calls, a)) /\ owe[a] \in Int
    BY <1>5
  <2>2. Cardinality(QueuedIn(boxes, a)) \in Nat /\ Cardinality(CalledIn(calls, a)) \in Nat
    BY <1>2, <1>6
  <2>3. [owe EXCEPT ![h] = @ - 1][a] = IF a = h THEN owe[a] - 1 ELSE owe[a]
    BY <1>5
  <2>4. Cardinality(QueuedIn(new, a)) = Cardinality(QueuedIn(boxes, a)) - IF h = a THEN 1 ELSE 0
    BY <1>3
  <2> QED BY <2>1, <2>2, <2>3, <2>4
<1>9. Counted(new, calls, [owe EXCEPT ![h] = @ - 1])
  BY <1>3, <1>5, <1>7, <1>8 DEF Counted
<1> QED BY ZenonT(40), <1>1, <1>4, <1>9

----------------------------------------------------------------------------
(* The steps *)

(* A line that is written is no longer to be written. *)
LEMMA LineMoved ==
    ASSUME NEW f \in Seq(Lines), NEW left \in Seq(Lines), left # <<>>
    PROVE  /\ Append(f, Head(left)) \in Seq(Lines) /\ Tail(left) \in Seq(Lines)
           /\ \A line : Written(line, f) \/ Written(line, left) =>
                Written(line, Append(f, Head(left))) \/ Written(line, Tail(left))
<1>1. PICK n \in Nat : n = Len(left) /\ n > 0 /\ DOMAIN left = 1 .. n
  OBVIOUS
<1>2. PICK m \in Nat : m = Len(f) /\ DOMAIN f = 1 .. m
  OBVIOUS
<1>3. Head(left) = left[1] /\ left[1] \in Lines
  BY <1>1
<1>4. PICK g : /\ g = Append(f, Head(left)) /\ g \in Seq(Lines) /\ DOMAIN g = 1 .. m + 1
               /\ g[m + 1] = left[1] /\ \A k \in 1 .. m : g[k] = f[k]
  <2>1. PICK h \in Lines : h = Head(left) /\ h = left[1]
    BY <1>3
  <2>2. /\ Append(f, h) \in Seq(Lines) /\ DOMAIN Append(f, h) = 1 .. m + 1
        /\ Append(f, h)[m + 1] = h /\ \A k \in 1 .. m : Append(f, h)[k] = f[k]
    BY <1>2, Added
  <2> QED BY ZenonT(40), <2>1, <2>2
<1>5. PICK q : /\ q = Tail(left) /\ q \in Seq(Lines) /\ DOMAIN q = 1 .. n - 1
               /\ \A k \in 1 .. n - 1 : q[k] = left[k + 1]
  <2>1. /\ Tail(left) \in Seq(Lines) /\ DOMAIN Tail(left) = 1 .. n - 1
        /\ \A k \in 1 .. n - 1 : Tail(left)[k] = left[k + 1]
    BY <1>1
  <2> QED BY ZenonT(40), <2>1
<1>6. ASSUME NEW line, Written(line, f)
      PROVE  Written(line, g)
  BY <1>2, <1>4, <1>6 DEF Written
<1>7. ASSUME NEW line, Written(line, left)
      PROVE  Written(line, g) \/ Written(line, q)
  <2>1. PICK k \in 1 .. n : left[k] = line
    BY <1>1, <1>7 DEF Written
  <2>2. CASE k = 1
    BY <1>4, <2>1, <2>2 DEF Written
  <2>3. CASE k # 1
    <3>1. k - 1 \in 1 .. n - 1 /\ (k - 1) + 1 = k
      BY <2>3
    <3>2. q[k - 1] = line /\ k - 1 \in DOMAIN q
      BY <1>5, <2>1, <3>1
    <3> QED BY <3>2 DEF Written
  <2> QED BY <2>2, <2>3
<1> QED BY ZenonT(40), <1>4, <1>5, <1>6, <1>7

(* What a step that touches neither the dials nor the key keeps. *)
LEMMA SameDials ==
    ASSUME Dials, UNCHANGED dials
    PROVE  Dials'
BY DEF Dials, dials

(* (the key) *)
LEMMA SameIdent ==
    ASSUME Identity, UNCHANGED <<phase, keyfile, ident>>
    PROVE  Identity'
BY DEF Identity, ident

(* SaveLine *)
LEMMA SaveLineInv ==
    ASSUME IInv, SaveLine
    PROVE  IInv'
<1>1. saving.left \in Seq(Lines) /\ file \in Seq(Lines) /\ saving.left # <<>> /\ saving.on
  BY DEF IInv, Shape, SaveLine
<1>2. PICK q : q = Tail(saving.left)
  BY ZenonT(40)
<1>3. /\ saving' = [left |-> q, joins |-> saving.joins, on |-> saving.on]
      /\ file' = Append(file, Head(saving.left))
  BY ZenonT(40), <1>2 DEF IInv, Shape, SaveLine
<1>4. /\ file' \in Seq(Lines) /\ q \in Seq(Lines)
      /\ \A line : Written(line, file) \/ Written(line, saving.left) =>
            Written(line, file') \/ Written(line, q)
  BY ZenonT(40), <1>1, <1>2, <1>3, LineMoved
<1>5. Shape'
  <2>1. saving.joins \in Peers \cup {Nobody} /\ saving.on \in BOOLEAN
    BY DEF IInv, Shape
  <2>2. saving' \in [left : Seq(Lines), joins : Peers \cup {Nobody}, on : BOOLEAN]
    BY <1>3, <1>4, <2>1
  <2> QED BY ZenonT(40), <1>4, <2>2 DEF IInv, Shape, SaveLine, ident, lists, dials
<1>6. Asleep'
  BY <1>1 DEF IInv, Asleep, SaveLine, NotSaving
<1>7. Identity'
  BY SameIdent DEF IInv, SaveLine
<1>8. Once(allows)'
  BY DEF IInv, SaveLine, lists
<1>9. Kept'
  <2>1. saving'.left = q /\ saving'.on /\ allows' = allows
    BY SMTT(40), <1>1, <1>3 DEF SaveLine, lists
  <2>2. Safe(allows, file', q)
    BY <1>4 DEF IInv, Kept, Safe
  <2> QED BY <2>1, <2>2 DEF Kept
<1>10. Dials'
  BY SameDials DEF IInv, SaveLine
<1> QED BY <1>5, <1>6, <1>7, <1>8, <1>9, <1>10 DEF IInv

(* SaveDone *)
LEMMA SaveDoneInv ==
    ASSUME IInv, SaveDone
    PROVE  IInv'
<1>1. saving.on /\ saving.left = <<>> /\ saving' = NotSaving
  BY DEF SaveDone
<1>2. Shape'
  <2>1. NotSaving \in [left : Seq(Lines), joins : Peers \cup {Nobody}, on : BOOLEAN]
    BY DEF NotSaving
  <2>2. saving.joins \in Peers \cup {Nobody}
    BY DEF IInv, Shape
  <2> QED BY <1>1, <2>1, <2>2 DEF IInv, Shape, SaveDone, ident, disk, dials
<1>3. Asleep'
  BY <1>1 DEF IInv, Asleep, SaveDone, NotSaving
<1>4. Identity'
  BY SameIdent DEF IInv, SaveDone, disk
<1>5. Once(allows)'
  BY DEF IInv, SaveDone
<1>6. Kept'
  <2>1. saving'.left = <<>> /\ allows' = allows /\ file' = file
    BY <1>1 DEF SaveDone, disk, NotSaving
  <2> QED BY <1>1, <2>1 DEF IInv, Kept
<1>7. Dials'
  BY SameDials DEF IInv, SaveDone
<1> QED BY <1>2, <1>3, <1>4, <1>5, <1>6, <1>7 DEF IInv

(* ReadKey *)
LEMMA ReadKeyInv ==
    ASSUME IInv, ReadKey
    PROVE  IInv'
<1>1. Shape'
  BY DEF IInv, Shape, ReadKey, disk, lists, dials
<1>2. Asleep'
  BY DEF IInv, Asleep, ReadKey, lists, dials
<1>3. Identity'
  BY DEF IInv, Shape, Identity, ReadKey, disk
<1>4. Once(allows)' /\ Kept'
  BY DEF IInv, ReadKey, lists, disk, Kept
<1>5. Dials'
  BY ZenonT(40), SameDials DEF IInv, ReadKey
<1> QED BY ZenonT(40), <1>1, <1>2, <1>3, <1>4, <1>5 DEF IInv

(* WriteKey *)
LEMMA WriteKeyInv ==
    ASSUME IInv, WriteKey
    PROVE  IInv'
<1>1. Shape'
  BY DEF IInv, Shape, WriteKey, ident, lists, dials
<1>2. Asleep'
  BY DEF IInv, Asleep, WriteKey, lists, dials
<1>3. Identity'
  BY DEF IInv, Shape, Identity, WriteKey, ident
<1>4. Once(allows)' /\ Kept'
  BY DEF IInv, WriteKey, lists, Kept
<1>5. Dials'
  BY ZenonT(40), SameDials DEF IInv, WriteKey
<1> QED BY <1>1, <1>2, <1>3, <1>4, <1>5 DEF IInv

(* Booted *)
LEMMA BootedInv ==
    ASSUME IInv, Booted
    PROVE  IInv'
<1>1. Shape'
  BY DEF IInv, Shape, Booted, ident, disk, lists, dials
<1>2. Asleep'
  BY DEF Asleep, Booted
<1>3. Identity'
  BY DEF IInv, Identity, Booted, ident, disk
<1>4. Once(allows)' /\ Kept'
  BY DEF IInv, Booted, lists, disk, Kept
<1>5. Dials'
  BY SameDials DEF IInv, Booted
<1> QED BY <1>1, <1>2, <1>3, <1>4, <1>5 DEF IInv

(* No message, no call, no dial. *)
LEMMA NoneCounted ==
    /\ Counted(<<>>, {}, [a \in Addrs |-> 0])
    /\ \A owe : Counted(<<>>, {}, owe) => Counted(<< <<>> >>, {}, owe)
<1>1. \A a : QueuedIn(<<>>, a) = {} /\ CalledIn({}, a) = {}
  BY DEF QueuedIn, CalledIn
<1>2. ASSUME NEW a
      PROVE  QueuedIn(<< <<>> >>, a) = {}
  <2>1. PICK boxes : boxes = << <<>> >>
    BY ZenonT(40)
  <2>2. Len(boxes) = 1 /\ Len(boxes[1]) = 0
    BY <2>1
  <2>3. QueuedIn(boxes, a) = {}
    BY <2>2 DEF QueuedIn
  <2> QED BY <2>1, <2>3
<1>3. IsFiniteSet({}) /\ Cardinality({}) = 0
  BY FS_EmptySet
<1>4. Counted(<<>>, {}, [a \in Addrs |-> 0])
  <2>. DEFINE none == [a \in Addrs |-> 0]
  <2>1. none \in [Addrs -> Int] /\ \A a \in Addrs : none[a] = 0
    OBVIOUS
  <2>. HIDE DEF none
  <2>2. \A a \in Addrs : /\ IsFiniteSet(QueuedIn(<<>>, a))
                         /\ Cardinality(QueuedIn(<<>>, a)) = 0
                         /\ Cardinality(CalledIn({}, a)) = 0
    BY ZenonT(40), <1>1, <1>3
  <2>3. \A a \in Addrs : none[a] = Cardinality(QueuedIn(<<>>, a)) + Cardinality(CalledIn({}, a))
    BY SMTT(40), <2>1, <2>2
  <2>4. Counted(<<>>, {}, none)
    BY ZenonT(40), <1>3, <2>1, <2>2, <2>3 DEF Counted
  <2> QED BY <2>4 DEF none
<1>5. \A owe : Counted(<<>>, {}, owe) => Counted(<< <<>> >>, {}, owe)
  BY ZenonT(40), <1>1, <1>2 DEF Counted
<1> QED BY <1>4, <1>5

(* Load: the list is the configured one. *)
LEMMA LoadInv ==
    ASSUME IInv, Load
    PROVE  IInv'
<1>1. /\ todo = <<>> /\ saving = NotSaving /\ dhts = {} /\ stables = {}
      /\ sends = {} /\ inboxes = <<>>
  BY DEF IInv, Asleep, Load
<1>2. allows' = Config /\ todo' = bootstrap(Config)
  BY LoadedIs DEF IInv, Shape, Load
<1>3. Config \in Seq(Entries) /\ bootstrap(Config) \in Seq(Entries) /\ Once(Config)
  BY StoreAssumption, SeedsTyped DEF Once
<1>4. inboxes' \in Seq(Seq(Addrs)) /\ Len(inboxes') = 1 /\ Len(inboxes) = 0
  BY <1>1 DEF Load
<1>5. transports' \in [Kinds -> 0 .. Len(inboxes')]
  BY SMTT(40), <1>4, StoreAssumption DEF IInv, Shape, Load
<1>6. Shape'
  BY ZenonT(40), <1>1, <1>2, <1>3, <1>4, <1>5 DEF IInv, Shape, Load, disk, ident
<1>7. Asleep' /\ Identity'
  BY DEF IInv, Asleep, Identity, Load, disk, ident
<1>8. Once(allows)'
  BY <1>2, <1>3
<1>9. Kept'
  <2>1. saving' = NotSaving /\ saving'.left = <<>>
    BY <1>1 DEF Load, NotSaving
  <2>2. \A f, left : Safe(Config, f, left)
    BY DEF Safe, Listed
  <2> QED BY ZenonT(40), <1>2, <2>1, <2>2 DEF Kept
<1>10. Dials'
  <2>1. inboxes' = << <<>> >> /\ sends' = {} /\ owed' = owed
    BY <1>1 DEF Load
  <2>2. Counted(<<>>, {}, owed)
    BY <1>1 DEF IInv, Dials
  <2> QED BY ZenonT(40), <2>1, <2>2, NoneCounted DEF Dials
<1> QED BY <1>6, <1>7, <1>8, <1>9, <1>10 DEF IInv

(* Crash: only the disk is left. *)
LEMMA CrashInv ==
    ASSUME IInv, Crash
    PROVE  IInv'
<1>1. NotSaving \in [left : Seq(Lines), joins : Peers \cup {Nobody}, on : BOOLEAN]
  BY DEF NotSaving
<1>2. Shape'
  <2>1. /\ inboxes' = <<>> /\ inboxes' \in Seq(Seq(Addrs)) /\ allows' \in Seq(Entries)
        /\ todo' \in Seq(Entries) /\ Len(inboxes') = 0
    BY DEF Crash
  <2> QED BY <1>1, <2>1 DEF IInv, Shape, Crash, disk
<1>3. Asleep' /\ Identity'
  BY ZenonT(40) DEF IInv, Asleep, Identity, Crash, disk
<1>4. Once(allows)' /\ Kept'
  BY DEF Once, Kept, Safe, Crash, NotSaving
<1>5. Dials'
  BY ZenonT(40), NoneCounted DEF Dials, Crash
<1> QED BY ZenonT(40), <1>2, <1>3, <1>4, <1>5 DEF IInv

(* Init *)
LEMMA InitInv == Init => IInv
<1> SUFFICES ASSUME Init PROVE IInv
  OBVIOUS
<1>1. NotSaving \in [left : Seq(Lines), joins : Peers \cup {Nobody}, on : BOOLEAN]
  BY DEF NotSaving
<1>2. Shape
  BY <1>1 DEF Init, Shape
<1>3. Asleep /\ Identity
  BY DEF Init, Asleep, Identity
<1>4. Once(allows) /\ Kept
  BY DEF Once, Kept, Safe, Init, NotSaving
<1>5. Dials
  BY ZenonT(40), NoneCounted DEF Dials, Init
<1> QED BY <1>2, <1>3, <1>4, <1>5 DEF IInv

(* A step that only moves dials, of a node that runs. *)
LEMMA DialStep ==
    ASSUME IInv, UNCHANGED <<phase, disk, key, made, lists, saving>>, phase \in {"boot", "up"},
           shown' = shown \/ shown' = shown \cup {key}, todo' \in Seq(Entries),
           inboxes' \in Inboxes, sends' \subseteq Calls(Len(inboxes')),
           transports' \in [Kinds -> 0 .. Len(inboxes')], Dials'
    PROVE  IInv'
<1>1. shown' \subseteq Nat
  BY ZenonT(40) DEF IInv, Shape
<1>2. Shape'
  BY ZenonT(40), <1>1 DEF IInv, Shape, disk, lists, Inboxes
<1>3. Asleep' /\ Identity'
  BY DEF Asleep, IInv, Identity, disk
<1>4. Once(allows)' /\ Kept'
  BY DEF IInv, Kept, lists, disk
<1> QED BY <1>2, <1>3, <1>4 DEF IInv

(* A transport more does not disturb the calls. *)
LEMMA CallsGrow ==
    ASSUME NEW n \in Nat
    PROVE  Calls(n) \subseteq Calls(n + 1)
<1>1. 0 .. n \subseteq 0 .. n + 1
  OBVIOUS
<1> QED BY ZenonT(40), <1>1 DEF Calls

(* A call of trans_send begins. *)
LEMMA CallInv ==
    ASSUME IInv, NEW by \in Callers, NEW addr \in Addrs, ~Calling(by), Call(by, addr),
           UNCHANGED <<phase, disk, ident, lists, saving, todo>>, phase \in {"boot", "up"}
    PROVE  IInv'
<1> DEFINE c == [by |-> by, addr |-> addr, pc |-> "look", at |-> 0]
<1>1. /\ inboxes \in Inboxes /\ Len(inboxes) \in Nat /\ sends \subseteq Calls(Len(inboxes))
      /\ transports \in [Kinds -> 0 .. Len(inboxes)] /\ todo \in Seq(Entries)
  BY DEF IInv, Shape, Inboxes
<1>2. /\ sends' = sends \cup {c} /\ owed' = [owed EXCEPT ![addr] = @ + 1]
      /\ transports' = transports /\ inboxes' = inboxes
  BY DEF Call
<1>3. c \in Calls(Len(inboxes)) /\ c.addr = addr /\ c.pc = "look" /\ c.by = by
  BY <1>1 DEF Calls, Callers
<1> HIDE DEF c
<1>4. Counted(inboxes, sends \cup {c}, [owed EXCEPT ![c.addr] = @ + 1])
  <2>1. Counted(inboxes, sends, owed) /\ \A d \in sends : d.by # c.by
    BY <1>3 DEF IInv, Dials, Calling
  <2>2. c.pc # "insert" /\ c.addr \in Addrs
    BY <1>3
  <2> QED BY ZenonT(40), <2>1, <2>2, CallAdded
<1>5. Dials'
  BY ZenonT(40), <1>2, <1>3, <1>4 DEF Dials
<1>6. sends' \subseteq Calls(Len(inboxes'))
  BY <1>1, <1>2, <1>3
<1> QED BY ZenonT(40), <1>1, <1>2, <1>5, <1>6, DialStep DEF ident

(* A call is under way only while the node runs. *)
LEMMA Running ==
    ASSUME IInv, sends # {} \/ inboxes # <<>> \/ todo # <<>>
    PROVE  phase \in {"boot", "up"}
BY DEF IInv, Shape, Asleep

(* The loop over the seeds after a call. *)
LEMMA ReturnTyped ==
    ASSUME todo \in Seq(Entries), NEW c, Return(c)
    PROVE  todo' \in Seq(Entries) /\ sends' = sends \ {c}
<1>1. todo # <<>> => Tail(todo) \in Seq(Entries)
  OBVIOUS
<1> QED BY <1>1 DEF Return

(* trans_send: SendLook, ... *)
LEMMA SendLookInv ==
    ASSUME IInv, NEW c \in sends, SendLook(c)
    PROVE  IInv'
<1>1. /\ inboxes \in Inboxes /\ Len(inboxes) \in Nat /\ sends \subseteq Calls(Len(inboxes))
      /\ transports \in [Kinds -> 0 .. Len(inboxes)] /\ todo \in Seq(Entries)
      /\ Counted(inboxes, sends, owed)
  BY SMTT(40) DEF IInv, Shape, Inboxes, Dials
<1>2. /\ transports' = transports /\ owed' = owed /\ c.pc = "look"
      /\ UNCHANGED <<phase, disk, key, made, lists, saving>> /\ shown' = shown
  BY DEF SendLook, ident
<1>3. phase \in {"boot", "up"}
  BY ZenonT(40), Running
<1>4. c \in Calls(Len(inboxes)) /\ c.addr \in Addrs /\ c.pc # "insert"
  BY <1>1, <1>2 DEF Calls
<1>5. PICK at : at = transports[Kind[c.addr]]
  BY ZenonT(40)
<1>6. at \in 0 .. Len(inboxes)
  BY <1>1, <1>4, <1>5, StoreAssumption
<1>7. CASE at # 0
  <2>1. inboxes' = [inboxes EXCEPT ![at] = Append(@, c.addr)] /\ Return(c)
    BY <1>5, <1>7 DEF SendLook
  <2>2. at \in 1 .. Len(inboxes)
    BY <1>6, <1>7
  <2>3. PICK q : q = Append(inboxes[at], c.addr)
    BY ZenonT(40)
  <2>4. q \in Seq(Addrs)
    BY <1>1, <1>4, <2>2, <2>3 DEF Inboxes
  <2>5. inboxes' = [inboxes EXCEPT ![at] = q]
    BY ZenonT(40), <2>1, <2>3
  <2>6. Put(inboxes, at, q, inboxes')
    BY ZenonT(40), <1>1, <2>2, <2>4, <2>5, Replaced
  <2>7. inboxes' \in Inboxes /\ Len(inboxes') = Len(inboxes) /\ Held(inboxes, c.addr, inboxes')
    BY ZenonT(40), <1>1, <1>4, <2>2, <2>3, <2>6, QueueAdded
  <2>8. todo' \in Seq(Entries) /\ sends' = sends \ {c}
    BY ZenonT(40), <1>1, <2>1, ReturnTyped
  <2>9. Counted(inboxes', (sends \ {c}) \cup {}, owed)
    BY ZenonT(40), <1>1, <1>4, <2>7, CallQueued
  <2>10. Dials'
    <3>1. (sends \ {c}) \cup {} = sends'
      BY <2>8
    <3> QED BY ZenonT(40), <1>2, <2>9, <3>1 DEF Dials
  <2>11. sends' \subseteq Calls(Len(inboxes')) /\ transports' \in [Kinds -> 0 .. Len(inboxes')]
    BY <1>1, <1>2, <2>7, <2>8
  <2> QED BY ZenonT(40), <1>2, <1>3, <2>7, <2>8, <2>10, <2>11, DialStep
<1>8. CASE at = 0
  <2> DEFINE d == [by |-> c.by, addr |-> c.addr, pc |-> "start", at |-> 0]
  <2>1. inboxes' = inboxes /\ sends' = (sends \ {c}) \cup {d} /\ todo' = todo
    BY <1>5, <1>8 DEF SendLook, Goes
  <2>2. d \in Calls(Len(inboxes)) /\ d.by = c.by /\ d.addr = c.addr /\ d.pc = "start"
    <3>1. c.by \in Peers \cup {"server"} /\ 0 \in 0 .. Len(inboxes)
      BY <1>1, <1>4 DEF Calls
    <3> QED BY <1>4, <3>1 DEF Calls
  <2> HIDE DEF d
  <2>3. Counted(inboxes, (sends \ {c}) \cup {d}, owed)
    <3>1. d.pc # "insert"
      BY <2>2
    <3> QED BY ZenonT(40), <1>1, <1>4, <2>2, <3>1, CallGoes
  <2>4. Dials'
    BY ZenonT(40), <1>2, <2>1, <2>3 DEF Dials
  <2>5. sends' \subseteq Calls(Len(inboxes'))
    BY <1>1, <2>1, <2>2
  <2> QED BY ZenonT(40), <1>1, <1>2, <1>3, <2>1, <2>4, <2>5, DialStep
<1> QED BY <1>7, <1>8

(* ... SendStart ... *)
LEMMA SendStartInv ==
    ASSUME IInv, NEW c \in sends, SendStart(c)
    PROVE  IInv'
<1>1. /\ inboxes \in Inboxes /\ sends \subseteq Calls(Len(inboxes))
      /\ transports \in [Kinds -> 0 .. Len(inboxes)] /\ todo \in Seq(Entries)
      /\ Counted(inboxes, sends, owed)
  BY DEF IInv, Shape, Inboxes, Dials
<1>2. PICK n \in Nat : n = Len(inboxes)
  BY <1>1 DEF Inboxes
<1> DEFINE d == [by |-> c.by, addr |-> c.addr, pc |-> "insert", at |-> n + 1]
<1>3. /\ transports' = transports /\ owed' = owed /\ c.pc = "start" /\ todo' = todo
      /\ UNCHANGED <<phase, disk, key, made, lists, saving>> /\ shown' = shown
      /\ inboxes' = Append(inboxes, <<c.addr>>) /\ sends' = (sends \ {c}) \cup {d}
  BY <1>2 DEF SendStart, Goes, ident
<1>4. phase \in {"boot", "up"}
  BY ZenonT(40), Running
<1>5. c \in Calls(n) /\ c.addr \in Addrs /\ c.pc # "insert"
  BY <1>1, <1>2, <1>3 DEF Calls
<1>6. inboxes' \in Inboxes /\ Len(inboxes') = n + 1 /\ Held(inboxes, c.addr, inboxes')
  BY ZenonT(40), <1>1, <1>2, <1>3, <1>5, QueueMade
<1>7. d \in Calls(n + 1) /\ d.by = c.by /\ d.pc = "insert"
  <2>1. c.by \in Peers \cup {"server"} /\ n + 1 \in 0 .. n + 1
    BY <1>5 DEF Calls
  <2> QED BY <1>5, <2>1 DEF Calls
<1> HIDE DEF d
<1>8. Counted(inboxes', (sends \ {c}) \cup {d}, owed)
  BY ZenonT(40), <1>1, <1>5, <1>6, <1>7, CallQueued
<1>9. Dials'
  BY ZenonT(40), <1>3, <1>8 DEF Dials
<1>10. sends' \subseteq Calls(Len(inboxes'))
  <2>1. sends \subseteq Calls(n + 1)
    BY ZenonT(40), <1>1, <1>2, CallsGrow
  <2> QED BY <1>3, <1>6, <1>7, <2>1
<1>11. transports' \in [Kinds -> 0 .. Len(inboxes')]
  <2>1. 0 .. n \subseteq 0 .. n + 1
    OBVIOUS
  <2> QED BY <1>1, <1>2, <1>3, <1>6, <2>1
<1> QED BY ZenonT(40), <1>1, <1>3, <1>4, <1>6, <1>9, <1>10, <1>11, DialStep

(* ... and SendInsert. *)
LEMMA SendInsertInv ==
    ASSUME IInv, NEW c \in sends, SendInsert(c)
    PROVE  IInv'
<1>1. /\ inboxes \in Inboxes /\ sends \subseteq Calls(Len(inboxes))
      /\ transports \in [Kinds -> 0 .. Len(inboxes)] /\ todo \in Seq(Entries)
      /\ Counted(inboxes, sends, owed)
  BY DEF IInv, Shape, Inboxes, Dials
<1>2. /\ transports' = [transports EXCEPT ![Kind[c.addr]] = c.at] /\ owed' = owed
      /\ c.pc = "insert" /\ inboxes' = inboxes
      /\ UNCHANGED <<phase, disk, key, made, lists, saving>> /\ shown' = shown
  BY DEF SendInsert, ident
<1>3. phase \in {"boot", "up"}
  BY ZenonT(40), Running
<1>4. todo' \in Seq(Entries) /\ sends' = sends \ {c}
  BY ZenonT(40), <1>1, ReturnTyped DEF SendInsert
<1>5. Counted(inboxes, sends \ {c}, owed)
  BY ZenonT(40), <1>1, <1>2, CallEnded
<1>6. Dials'
  BY ZenonT(40), <1>2, <1>4, <1>5 DEF Dials
<1>7. c.at \in 0 .. Len(inboxes)
  BY ZenonT(40), <1>1 DEF Calls
<1>8. sends' \subseteq Calls(Len(inboxes')) /\ transports' \in [Kinds -> 0 .. Len(inboxes')]
  BY ZenonT(40), <1>1, <1>2, <1>4, <1>7
<1> QED BY ZenonT(40), <1>1, <1>2, <1>3, <1>4, <1>6, <1>8, DialStep

(* DialSeed *)
LEMMA DialSeedInv ==
    ASSUME IInv, DialSeed
    PROVE  IInv'
<1>1. todo \in Seq(Entries) /\ todo # <<>>
  BY DEF IInv, Shape, DialSeed
<1>2. Head(todo) \in Entries
  BY <1>1
<1>3. Head(todo).socket \in Addrs /\ "server" \in Callers
  BY <1>2 DEF Entries, Callers
<1>4. phase \in {"boot", "up"}
  BY ZenonT(40), <1>1, Running
<1> QED BY ZenonT(40), <1>3, <1>4, CallInv DEF DialSeed

(* Dial *)
LEMMA DialInv ==
    ASSUME IInv, NEW i, Dial(i)
    PROVE  IInv'
<1>1. /\ inboxes \in Inboxes /\ sends \subseteq Calls(Len(inboxes))
      /\ transports \in [Kinds -> 0 .. Len(inboxes)] /\ todo \in Seq(Entries)
      /\ Counted(inboxes, sends, owed)
  BY DEF IInv, Shape, Inboxes, Dials
<1>2. /\ inboxes' = [inboxes EXCEPT ![i] = Tail(@)] /\ inboxes[i] # <<>>
      /\ owed' = [owed EXCEPT ![Head(inboxes[i])] = @ - 1]
      /\ sends' = sends /\ transports' = transports /\ todo' = todo /\ shown' = shown \cup {key}
      /\ UNCHANGED <<phase, disk, key, made, lists, saving>>
  BY DEF Dial
<1>3. i \in 1 .. Len(inboxes)
  BY <1>1 DEF Dial, Inboxes
<1>4. phase \in {"boot", "up"}
  <2>1. inboxes # <<>>
    BY <1>3
  <2> QED BY ZenonT(40), <2>1, Running
<1>5. PICK q : q = Tail(inboxes[i])
  BY ZenonT(40)
<1>6. q \in Seq(Addrs)
  BY <1>1, <1>2, <1>3, <1>5 DEF Inboxes
<1>7. inboxes' = [inboxes EXCEPT ![i] = q]
  BY ZenonT(40), <1>2, <1>5
<1>8. Put(inboxes, i, q, inboxes')
  BY ZenonT(40), <1>1, <1>3, <1>6, <1>7, Replaced
<1>9. Taken(inboxes, i, inboxes')
  BY ZenonT(40), <1>2, <1>3, <1>5, <1>8 DEF Taken
<1>10. inboxes' \in Inboxes /\ Len(inboxes') = Len(inboxes)
  BY ZenonT(40), <1>8 DEF Put
<1>11. Counted(inboxes', sends, [owed EXCEPT ![Head(inboxes[i])] = @ - 1])
  BY ZenonT(40), <1>1, <1>9, CallDialled
<1>12. Dials'
  BY ZenonT(40), <1>2, <1>11 DEF Dials
<1>13. sends' \subseteq Calls(Len(inboxes')) /\ transports' \in [Kinds -> 0 .. Len(inboxes')]
  BY ZenonT(40), <1>1, <1>2, <1>10
<1> QED BY ZenonT(40), <1>1, <1>2, <1>4, <1>10, <1>12, <1>13, DialStep

(* Connect, Help and NetworkReboot *)
LEMMA ConnectInv ==
    ASSUME IInv, NEW addr \in Addrs, Connect(addr)
    PROVE  IInv'
<1>1. "server" \in Callers
  BY DEF Callers
<1>2. UNCHANGED phase /\ phase \in {"boot", "up"}
  BY DEF Connect, Event
<1> QED BY ZenonT(40), <1>1, <1>2, CallInv DEF Connect, ServerFree

(* A session dials a peer it was told of. *)
LEMMA HelpInv ==
    ASSUME IInv, NEW p \in Peers, NEW q \in Peers, Help(p, q)
    PROVE  IInv'
<1>1. p \in Callers /\ AddrOf[q] \in Addrs
  BY DEF Callers, Addrs
<1>2. UNCHANGED phase /\ phase \in {"boot", "up"}
  BY DEF Help, Event
<1> QED BY ZenonT(40), <1>1, <1>2, CallInv DEF Help

(* The seeds are dialled again. *)
LEMMA NetworkRebootInv ==
    ASSUME IInv, NetworkReboot
    PROVE  IInv'
<1>1. /\ inboxes \in Inboxes /\ sends \subseteq Calls(Len(inboxes))
      /\ transports \in [Kinds -> 0 .. Len(inboxes)] /\ allows \in Seq(Entries)
  BY DEF IInv, Shape, Inboxes
<1>2. UNCHANGED <<phase, disk, key, made, lists, saving>> /\ phase \in {"boot", "up"}
  BY DEF NetworkReboot, Event, ident
<1>3. /\ todo' = bootstrap(allows) /\ shown' = shown
      /\ sends' = sends /\ inboxes' = inboxes /\ transports' = transports
  BY DEF NetworkReboot, ident, dials
<1>4. todo' \in Seq(Entries)
  BY ZenonT(40), <1>1, <1>3, SeedsTyped
<1>5. Dials'
  BY SameDials DEF IInv, NetworkReboot
<1>6. sends' \subseteq Calls(Len(inboxes')) /\ transports' \in [Kinds -> 0 .. Len(inboxes')]
  BY ZenonT(40), <1>1, <1>3
<1> QED BY ZenonT(40), <1>1, <1>2, <1>3, <1>4, <1>5, <1>6, DialStep

(* A step that only changes the lists of peers, the saved one and what is
   shown, of a node that is up. *)
LEMMA ListStep ==
    ASSUME IInv, phase = "up", UNCHANGED <<phase, keyfile, key, made, todo, dials>>,
           shown' = shown \/ shown' = shown \cup {key},
           allows' \in Seq(Entries), dhts' \subseteq Peers, stables' \subseteq Peers,
           file' \in Seq(Lines),
           saving' \in [left : Seq(Lines), joins : Peers \cup {Nobody}, on : BOOLEAN],
           Once(allows'), Kept'
    PROVE  IInv'
<1>1. shown' \subseteq Nat
  BY ZenonT(40) DEF IInv, Shape
<1>2. Shape'
  BY ZenonT(40), <1>1 DEF IInv, Shape, dials
<1>3. Asleep' /\ Identity'
  BY DEF Asleep, IInv, Identity
<1>4. Dials'
  BY SameDials DEF IInv
<1> QED BY <1>2, <1>3, <1>4 DEF IInv

(* A list whose entries are safe, on disk, after a save was started. *)
LEMMA SavedList ==
    ASSUME NEW list \in Seq(Entries), NEW joins \in Peers \cup {Nobody},
           Save(list, joins), allows' = list
    PROVE  /\ file' \in Seq(Lines) /\ keyfile' = keyfile
           /\ saving' \in [left : Seq(Lines), joins : Peers \cup {Nobody}, on : BOOLEAN]
           /\ Kept'
<1>1. PICK left : left = [i \in DOMAIN list |-> to_multiaddr_string(list[i])]
  BY ZenonT(40)
<1>2. saving' = [left |-> left, joins |-> joins, on |-> TRUE] /\ file' = <<>> /\ keyfile' = keyfile
  BY <1>1 DEF Save
<1>3. left \in Seq(Lines) /\ \A i \in DOMAIN list : Written(to_multiaddr_string(list[i]), left)
  BY <1>1, SaveIs
<1>4. Safe(list, file', left)
  BY ZenonT(40), <1>3 DEF Safe
<1>5. saving'.left = left /\ saving'.on
  BY <1>2
<1> QED BY <1>2, <1>3, <1>4, <1>5 DEF Kept

(* Incoming: add_dht *)
LEMMA IncomingInv ==
    ASSUME IInv, NEW p \in Peers, Incoming(p)
    PROVE  IInv'
<1>1. phase = "up" /\ UNCHANGED <<phase, key, made, todo, dials>> /\ shown' = shown \cup {key}
  BY ZenonT(40) DEF Incoming, Event
<1>2. /\ allows \in Seq(Entries) /\ dhts \subseteq Peers /\ stables \subseteq Peers
      /\ file \in Seq(Lines) /\ Once(allows) /\ Kept
      /\ saving \in [left : Seq(Lines), joins : Peers \cup {Nobody}, on : BOOLEAN]
  BY DEF IInv, Shape
<1> DEFINE e == Peer(p, AddrOf[p])
           new == add_bootstrap(allows, e)
<1>3. CASE p \in Public /\ \A i \in DOMAIN allows : allows[i] # e
  <2>1. allows' = new /\ Save(new, p) /\ dhts' = dhts /\ stables' = stables
    BY ZenonT(40), <1>3 DEF Incoming, add_dht
  <2>2. e \in Entries
    BY DEF Entries, Peer, Addrs
  <2> HIDE DEF e
  <2>3. new \in Seq(Entries) /\ Once(new)
    BY <1>2, <2>2, BootstrapAdded
  <2> HIDE DEF new
  <2>4. /\ file' \in Seq(Lines) /\ keyfile' = keyfile /\ Kept'
        /\ saving' \in [left : Seq(Lines), joins : Peers \cup {Nobody}, on : BOOLEAN]
    BY ZenonT(40), <2>1, <2>3, SavedList
  <2> QED BY ZenonT(40), <1>1, <1>2, <2>1, <2>3, <2>4, ListStep
<1>4. CASE ~(p \in Public /\ \A i \in DOMAIN allows : allows[i] # e)
  <2>1. /\ dhts' = dhts \cup {p} /\ allows' = allows /\ stables' = stables
        /\ saving' = saving /\ keyfile' = keyfile /\ file' = file
    BY ZenonT(40), <1>4 DEF Incoming, add_dht, disk
  <2>2. Kept'
    BY <1>2, <2>1 DEF Kept
  <2>3. dhts' \subseteq Peers
    BY <1>2, <2>1
  <2> QED BY ZenonT(40), <1>1, <1>2, <2>1, <2>2, <2>3, ListStep
<1> QED BY <1>3, <1>4

(* Entries that stay are as safe as they were, and those without an address
   need not be. *)
LEMMA StaySafe ==
    ASSUME NEW list, NEW f, NEW left, Safe(list, f, left),
           NEW new, \A i \in DOMAIN new : new[i].socket = Zero \/ \E j \in DOMAIN list : new[i] = list[j]
    PROVE  Safe(new, f, left)
BY ZenonT(40) DEF Safe

(* remove_allow_peer finds the first entry. *)
LEMMA AllowRemoved ==
    ASSUME NEW list \in Seq(Entries), NEW id, Once(list)
    PROVE  LET new == remove_allow_peer(list, id)
           IN  /\ new \in Seq(Entries) /\ Once(new)
               /\ \A k \in DOMAIN new : \E j \in DOMAIN list : new[k] = list[j]
<1>1. CASE id \notin Ids(list)
  BY <1>1 DEF remove_allow_peer
<1>2. CASE id \in Ids(list)
  <2> DEFINE T == {i \in DOMAIN list : list[i].id = id}
             P(i) == list[i].id = id /\ \A j \in 1 .. i - 1 : list[j].id # id
  <2>1. T \subseteq Nat /\ T # {} /\ DOMAIN list = 1 .. Len(list) /\ Len(list) \in Nat
    BY <1>2 DEF Ids
  <2>2. \A i \in T : i \in DOMAIN list /\ list[i].id = id
    OBVIOUS
  <2>3. PICK i \in T : \A j \in T : i <= j
    <3> HIDE DEF T
    <3> QED BY ZenonT(40), <2>1, LeastNat
  <2>4. ASSUME NEW j \in 1 .. i - 1
        PROVE  list[j].id # id
    <3>1. j \in DOMAIN list /\ ~(i <= j)
      BY <2>1, <2>2
    <3> QED BY <2>3, <3>1
  <2>5. \E k \in DOMAIN list : P(k)
    BY <2>2, <2>4
  <2>6. PICK k \in DOMAIN list : k = CHOOSE l \in DOMAIN list : P(l)
    <3> HIDE DEF P
    <3> QED BY ZenonT(40), <2>5
  <2>7. remove_allow_peer(list, id) = Without(list, k)
    BY ZenonT(40), <1>2, <2>6 DEF remove_allow_peer
  <2> HIDE DEF P, T
  <2> QED BY SMTT(40), <2>7, Removed
<1> QED BY ZenonT(40), <1>1, <1>2

(* Stable, ... *)
LEMMA StableInv ==
    ASSUME IInv, NEW p \in Peers, Stable(p)
    PROVE  IInv'
<1>1. /\ phase = "up" /\ UNCHANGED <<phase, keyfile, key, made, todo, dials>> /\ shown' = shown
      /\ file' = file /\ saving' = saving
  BY DEF Stable, Event, disk, ident
<1>2. /\ allows \in Seq(Entries) /\ dhts \subseteq Peers /\ stables \subseteq Peers
      /\ file \in Seq(Lines) /\ Once(allows) /\ Kept
      /\ saving \in [left : Seq(Lines), joins : Peers \cup {Nobody}, on : BOOLEAN]
  BY DEF IInv, Shape
<1>3. PICK new : new = add_allow_peer(allows, p)
  OBVIOUS
<1>4. /\ new \in Seq(Entries) /\ Once(new)
      /\ \A i \in DOMAIN new : new[i].socket = Zero \/ \E j \in DOMAIN allows : new[i] = allows[j]
  BY ZenonT(40), <1>2, <1>3, AllowAdded
<1>5. allows' = new /\ dhts' \subseteq Peers /\ stables' \subseteq Peers
  BY <1>2, <1>3 DEF Stable
<1>6. Safe(new, file, saving.left)
  BY ZenonT(40), <1>2, <1>4, StaySafe DEF Kept
<1>7. Kept'
  BY <1>1, <1>2, <1>5, <1>6 DEF Kept
<1> QED BY ZenonT(40), <1>1, <1>2, <1>4, <1>5, <1>7, ListStep

(* ... Unstable, ... *)
LEMMA UnstableInv ==
    ASSUME IInv, NEW p \in Peers, Unstable(p)
    PROVE  IInv'
<1>1. /\ phase = "up" /\ UNCHANGED <<phase, keyfile, key, made, todo, dials>> /\ shown' = shown
      /\ file' = file /\ saving' = saving
  BY DEF Unstable, Event, disk, ident
<1>2. /\ allows \in Seq(Entries) /\ dhts \subseteq Peers /\ stables \subseteq Peers
      /\ file \in Seq(Lines) /\ Once(allows) /\ Kept
      /\ saving \in [left : Seq(Lines), joins : Peers \cup {Nobody}, on : BOOLEAN]
  BY DEF IInv, Shape
<1>3. PICK new : new = remove_allow_peer(allows, p)
  OBVIOUS
<1>4. /\ new \in Seq(Entries) /\ Once(new)
      /\ \A i \in DOMAIN new : \E j \in DOMAIN allows : new[i] = allows[j]
  BY <1>2, <1>3, AllowRemoved
<1>5. allows' = new /\ dhts' \subseteq Peers /\ stables' \subseteq Peers
  BY <1>2, <1>3 DEF Unstable
<1>6. Safe(new, file, saving.left)
  BY ZenonT(40), <1>2, <1>4, StaySafe DEF Kept
<1>7. Kept'
  BY <1>1, <1>2, <1>5, <1>6 DEF Kept
<1> QED BY ZenonT(40), <1>1, <1>2, <1>4, <1>5, <1>7, ListStep

(* ... Gone ... *)
LEMMA GoneInv ==
    ASSUME IInv, NEW p \in Peers, Gone(p)
    PROVE  IInv'
<1>1. /\ phase = "up" /\ UNCHANGED <<phase, keyfile, key, made, todo, dials>> /\ shown' = shown
      /\ file' = file /\ saving' = saving /\ allows' = allows
  BY DEF Gone, Event, disk, ident
<1>2. /\ allows \in Seq(Entries) /\ dhts \subseteq Peers /\ stables \subseteq Peers
      /\ file \in Seq(Lines) /\ Once(allows) /\ Kept
      /\ saving \in [left : Seq(Lines), joins : Peers \cup {Nobody}, on : BOOLEAN]
  BY DEF IInv, Shape
<1>3. dhts' \subseteq Peers /\ stables' \subseteq Peers
  BY <1>2 DEF Gone
<1>4. Kept'
  BY <1>1, <1>2 DEF Kept
<1> QED BY ZenonT(40), <1>1, <1>2, <1>3, <1>4, ListStep

(* ... and DisConnect: an address is once in the list, so that its last entry
   is its only one. *)
LEMMA DisConnectInv ==
    ASSUME IInv, NEW addr \in Addrs \ {Zero}, DisConnect(addr)
    PROVE  IInv'
<1>1. /\ phase = "up" /\ UNCHANGED <<phase, key, made, todo, dials>> /\ shown' = shown
      /\ dhts' = dhts /\ stables' = stables
  BY DEF DisConnect, Event, ident
<1>2. allows \in Seq(Entries) /\ Once(allows) /\ dhts \subseteq Peers /\ stables \subseteq Peers
  BY DEF IInv, Shape
<1> DEFINE P(i) == /\ allows[i].socket = addr
                   /\ \A j \in i + 1 .. Len(allows) : allows[j].socket # addr
<1>3. PICK i \in DOMAIN allows : P(i)
  <2>1. PICK i \in DOMAIN allows : allows[i].socket = addr
    BY DEF DisConnect, Sockets
  <2>2. \A j \in i + 1 .. Len(allows) : allows[j].socket # addr
    <3>1. TAKE j \in i + 1 .. Len(allows)
    <3>2. i \in 1 .. Len(allows) /\ Len(allows) \in Nat /\ DOMAIN allows = 1 .. Len(allows)
      BY <1>2
    <3>3. j \in DOMAIN allows /\ j # i
      BY <3>1, <3>2
    <3> QED BY <1>2, <2>1, <3>3 DEF Once
  <2> QED BY ZenonT(40), <2>1, <2>2
<1>4. PICK last \in DOMAIN allows : last = CHOOSE k \in DOMAIN allows : P(k)
  <2> HIDE DEF P
  <2> QED BY ZenonT(40), <1>3
<1>5. allows' = Without(allows, last) /\ Save(Without(allows, last), Nobody)
  BY ZenonT(40), <1>4 DEF DisConnect
<1>6. PICK new : new = Without(allows, last)
  OBVIOUS
<1>7. new \in Seq(Entries) /\ Once(new)
  BY <1>2, <1>6, Removed
<1>8. Nobody \in Peers \cup {Nobody} /\ allows' = new /\ Save(new, Nobody)
  BY ZenonT(40), <1>5, <1>6
<1>9. /\ file' \in Seq(Lines) /\ keyfile' = keyfile /\ Kept'
      /\ saving' \in [left : Seq(Lines), joins : Peers \cup {Nobody}, on : BOOLEAN]
  BY ZenonT(40), <1>7, <1>8, SavedList
<1> QED BY ZenonT(40), <1>1, <1>2, <1>7, <1>8, <1>9, ListStep

----------------------------------------------------------------------------
(* The invariant, and what follows *)

(* Every step keeps the invariant. *)
LEMMA NextInv == IInv /\ [Next]_vars => IInv'
<1> SUFFICES ASSUME IInv, [Next]_vars PROVE IInv'
  OBVIOUS
<1>1. CASE Start
  BY ZenonT(40), <1>1, ReadKeyInv, WriteKeyInv, LoadInv, BootedInv DEF Start
<1>2. CASE Saving
  BY ZenonT(40), <1>2, SaveLineInv, SaveDoneInv DEF Saving
<1>3. CASE DialSeed
  BY ZenonT(40), <1>3, DialSeedInv
<1>4. CASE Outside
  <2>1. CASE \E p \in Peers : Incoming(p) \/ Stable(p) \/ Unstable(p) \/ Gone(p)
    BY ZenonT(40), <2>1, IncomingInv, StableInv, UnstableInv, GoneInv
  <2>2. CASE \E p, q \in Peers : Help(p, q)
    BY ZenonT(40), <2>2, HelpInv
  <2>3. CASE \E addr \in Addrs \ {Zero} : Connect(addr) \/ DisConnect(addr)
    BY ZenonT(40), <2>3, ConnectInv, DisConnectInv
  <2>4. CASE NetworkReboot
    BY ZenonT(40), <2>4, NetworkRebootInv
  <2> QED BY ZenonT(40), <1>4, <2>1, <2>2, <2>3, <2>4 DEF Outside
<1>5. CASE Crash
  BY ZenonT(40), <1>5, CrashInv
<1>6. CASE \E by \in Callers : Send(by)
  BY ZenonT(40), <1>6, SendLookInv, SendStartInv, SendInsertInv DEF Send
<1>7. CASE \E i \in DOMAIN inboxes : Dial(i)
  BY ZenonT(40), <1>7, DialInv
<1>8. CASE UNCHANGED vars
  <2>1. Shape' /\ Asleep' /\ Identity'
    BY ZenonT(40), <1>8 DEF IInv, Shape, Asleep, Identity, vars, disk, ident, lists, dials
  <2>2. Once(allows)' /\ Kept'
    BY ZenonT(40), <1>8 DEF IInv, Kept, vars, disk, lists
  <2>3. Dials'
    BY <1>8, SameDials DEF IInv, vars
  <2> QED BY ZenonT(40), <2>1, <2>2, <2>3 DEF IInv
<1> QED BY ZenonT(40), <1>1, <1>2, <1>3, <1>4, <1>5, <1>6, <1>7, <1>8 DEF Next

(* The lists, the identity, the saved list and the calls of trans_send are
   always as IInv has them, through any crashes (server.rs, peer_list.rs,
   global.rs). *)
THEOREM Invariance == Spec => []IInv
BY InitInv, NextInv, PTL DEF Spec

(* An address has no fewer dials owed than made. *)
LEMMA OwedNat ==
    ASSUME IInv
    PROVE  /\ owed \in [Addrs -> Nat]
           /\ \A a \in Addrs : owed[a] > 0 => QueuedIn(inboxes, a) # {} \/ CalledIn(sends, a) # {}
<1>1. Counted(inboxes, sends, owed)
  BY DEF IInv, Dials
<1>2. owed \in [Addrs -> Int] /\ IsFiniteSet(sends)
  BY <1>1 DEF Counted
<1>3. ASSUME NEW a \in Addrs
      PROVE  owed[a] \in Nat /\ (owed[a] > 0 => QueuedIn(inboxes, a) # {} \/ CalledIn(sends, a) # {})
  <2>1. /\ owed[a] = Cardinality(QueuedIn(inboxes, a)) + Cardinality(CalledIn(sends, a))
        /\ IsFiniteSet(QueuedIn(inboxes, a))
    BY <1>1 DEF Counted
  <2>2. Cardinality(QueuedIn(inboxes, a)) \in Nat
    BY <2>1, FS_CardinalityType
  <2>3. Cardinality(CalledIn(sends, a)) \in Nat
    BY <1>2, CalledFinite
  <2>4. Cardinality({}) = 0
    BY FS_EmptySet
  <2> QED BY SMTT(40), <2>1, <2>2, <2>3, <2>4
<1> QED BY <1>2, <1>3

(* The state is of its type: in particular, a call lists a transport that was
   started (global.rs 72-103), and no more dials are made than were asked
   for. *)
THEOREM Typed == Spec => []TypeOK
<1>1. IInv => TypeOK
  <2> SUFFICES ASSUME IInv PROVE TypeOK
    OBVIOUS
  <2>1. \A i \in DOMAIN file : Len(file[i]) = 5
    <3>1. TAKE i \in DOMAIN file
    <3>2. file[i] \in Lines
      BY <3>1 DEF IInv, Shape
    <3> QED BY <3>2, LineRefused
  <2>2. \A c \in sends : c.pc \in {"look", "start", "insert"} /\ c.at \in 0 .. Len(inboxes)
    BY DEF IInv, Shape, Calls
  <2>3. saving.on \in BOOLEAN /\ saving.joins \in Peers \cup {Nobody}
    BY DEF IInv, Shape
  <2>4. owed \in [Addrs -> Nat]
    BY ZenonT(40), OwedNat
  <2> QED BY ZenonT(40), <2>1, <2>2, <2>3, <2>4 DEF IInv, Shape, TypeOK
<1> QED BY Invariance, <1>1, PTL

(* Other nodes see one identity at most, wherever start() is when the node
   crashes (server.rs 58-70, keys.rs: to_db_bytes and from_db_bytes). *)
THEOREM OneIdentity == Spec => []SameIdentity
<1>1. IInv => SameIdentity
  <2> SUFFICES ASSUME IInv PROVE SameIdentity
    OBVIOUS
  <2>1. shown \subseteq {keyfile}
    BY DEF IInv, Identity
  <2>2. IsFiniteSet({keyfile}) /\ Cardinality({keyfile}) = 1
    BY ZenonT(40), FS_Singleton
  <2>3. Cardinality(shown) <= Cardinality({keyfile})
    BY ZenonT(40), <2>1, <2>2, FS_Subset
  <2> QED BY <2>2, <2>3 DEF SameIdentity
<1> QED BY Invariance, <1>1, PTL

(* The list never has an address twice, from any configured list that has
   none twice (peer_list.rs 36-77, 233-330). *)
THEOREM OneSeed == Spec => []SeedsOnce
<1>1. IInv => SeedsOnce
  BY DEF IInv, Once, SeedsOnce, effective_socket
<1> QED BY Invariance, <1>1, PTL

(* When no save is under way, every seed that was learnt is on disk
   (peer_list.rs 233-246). *)
THEOREM SeedOnDisk == Spec => []SeedsSaved
<1>1. IInv => SeedsSaved
  <2> SUFFICES ASSUME IInv, ~saving.on, NEW p \in Peers, NEW i \in DOMAIN allows,
                      allows[i] = Peer(p, AddrOf[p]), \A j \in DOMAIN Config : Config[j] # allows[i]
               PROVE  \E k \in DOMAIN file : file[k] = to_multiaddr_string(allows[i])
    BY ZenonT(40) DEF SeedsSaved
  <2>1. allows[i].socket # Zero
    BY SMTT(40), StoreAssumption DEF Peer
  <2>2. ~Listed(allows[i])
    BY ZenonT(40) DEF Listed
  <2>3. saving.left = <<>> /\ Safe(allows, file, saving.left)
    BY ZenonT(40) DEF IInv, Kept
  <2>4. ~Written(to_multiaddr_string(allows[i]), saving.left)
    BY <2>3 DEF Written
  <2>5. Written(to_multiaddr_string(allows[i]), file)
    BY ZenonT(40), <2>1, <2>2, <2>3, <2>4 DEF Safe
  <2> QED BY <2>5 DEF Written
<1> QED BY Invariance, <1>1, PTL

(* A dial that is owed is in the hands of a call or of a transport. *)
DialHeld ==
    \A a \in Addrs : owed[a] > 0 =>
        \/ \E i \in DOMAIN inboxes : \E k \in DOMAIN inboxes[i] : inboxes[i][k] = a
        \/ \E c \in sends : c.addr = a /\ c.pc # "insert"

(* No dial is dropped on the way: also when two callers find no transport, each
   starts one and the second takes the place of the first (global.rs 72-103),
   what was asked for and not made is still with a call or a transport. *)
THEOREM NoDialDropped == Spec => []DialHeld
<1>1. IInv => DialHeld
  <2> SUFFICES ASSUME IInv, NEW a \in Addrs, owed[a] > 0
               PROVE  \/ \E i \in DOMAIN inboxes : \E k \in DOMAIN inboxes[i] : inboxes[i][k] = a
                      \/ \E c \in sends : c.addr = a /\ c.pc # "insert"
    BY DEF DialHeld
  <2>1. QueuedIn(inboxes, a) # {} \/ CalledIn(sends, a) # {}
    BY ZenonT(40), OwedNat
  <2>2. CASE CalledIn(sends, a) # {}
    BY <2>2 DEF CalledIn
  <2>3. CASE QueuedIn(inboxes, a) # {}
    <3>1. PICK x \in Nat \X Nat : /\ x[1] \in 1 .. Len(inboxes) /\ x[2] \in 1 .. Len(inboxes[x[1]])
                                  /\ inboxes[x[1]][x[2]] = a
      BY ZenonT(40), <2>3 DEF QueuedIn
    <3>2. inboxes \in Seq(Seq(Addrs))
      BY DEF IInv, Shape
    <3>3. x[1] \in DOMAIN inboxes /\ x[2] \in DOMAIN inboxes[x[1]]
      BY <3>1, <3>2
    <3> QED BY ZenonT(40), <3>1, <3>3
  <2> QED BY ZenonT(40), <2>1, <2>2, <2>3
<1> QED BY Invariance, <1>1, PTL
=============================================================================
