----------------------------- MODULE PeerStore -----------------------------
(***************************************************************************)
(* The life of one node: what it keeps on disk and finds there when it     *)
(* starts again (server.rs: start; peer_list.rs: load, save; keys.rs:      *)
(* to_db_bytes, from_db_bytes; peer.rs: to_multiaddr_string,               *)
(* from_multiaddr_string), the lists of peers it allows and blocks, and    *)
(* how it dials (global.rs: trans_send).                                   *)
(*                                                                         *)
(* peer_list is a lock: a save holds it for writing until the file is      *)
(* written, and the loops over the seeds hold it for reading until all     *)
(* have been dialled.  The node may crash at any step.  A file is written  *)
(* by tokio's fs::write, which empties it first; a crash leaves some part. *)
(***************************************************************************)
EXTENDS Naturals, Sequences, FiniteSets

CONSTANTS
    Peers,          \* ids of other nodes
    NoId,           \* PeerId::default()
    Nobody,         \* no session
    AddrOf,         \* the address nat() computes for a peer: <<ip, port>>
    Public,         \* the peers for which nat() sets is_pub
    Zero,           \* the address 0.0.0.0:0
    Kind,           \* the transport of an address, "tcp" or "quic"
    MAIN,           \* the transport the node is configured with
    Config,         \* the configured allow list
    BlockedIds,     \* Config.block_peer_list
    BlockedIps,     \* Config.blocklist
    CRASHES,        \* bound: crashes
    EVENTS          \* bound: events from outside

Addrs == {Zero} \cup {AddrOf[p] : p \in Peers} \cup {Config[i].socket : i \in DOMAIN Config}
Ips == {a[1] : a \in Addrs}
Ports == {a[2] : a \in Addrs}
Kinds == {"tcp", "quic"}
Entries == [id : Peers \cup {NoId}, socket : Addrs]

ASSUME StoreAssumption ==
    /\ NoId \notin Peers /\ Nobody \notin Peers
    /\ Public \subseteq Peers /\ BlockedIds \subseteq Peers
    /\ Kind \in [Addrs -> Kinds] /\ MAIN \in Kinds
    /\ "ip" \notin Ips /\ \A p \in Peers : AddrOf[p] # Zero
    /\ Config \in Seq(Entries)
    /\ \A i, j \in DOMAIN Config :
        Config[i].socket = Config[j].socket => i = j \/ Config[i].socket = Zero
    /\ CRASHES \in Nat /\ EVENTS \in Nat

VARIABLES
    phase,      \* how far start() has come
    keyfile,    \* the key on disk, 0 if there is none that can be read
    key,        \* the key in memory
    made,       \* keys made so far
    shown,      \* keys other nodes have seen
    file,       \* the lines of the saved peer list
    allows,     \* PeerList.allows
    dhts,       \* peers in the DHT
    stables,    \* peers with a stable session
    saving,     \* a save in progress
    todo,       \* seeds the server has still to dial
    sends,      \* calls of trans_send in progress
    transports, \* Global.transports: the running instance of a transport
    inboxes,    \* what each instance has been asked to dial
    owed,       \* history: dials asked for and not made, per address
    crashes,    \* crashes so far
    events      \* events so far

disk == <<keyfile, file>>
ident == <<key, made, shown>>
lists == <<allows, dhts, stables>>
dials == <<sends, transports, inboxes, owed>>
vars == <<phase, disk, ident, lists, saving, todo, dials, crashes, events>>
----------------------------------------------------------------------------
(* Peers and their text *)

Peer(id, socket) == [id |-> id, socket |-> socket]
effective_socket(p) == p.socket # Zero

(* Peer::to_multiaddr_string, as the fields between the slashes: the text
   begins with one, so the first field is empty. *)
to_multiaddr_string(p) == <<"", "ip", p.socket[1], Kind[p.socket], p.socket[2]>>

(* Peer::from_multiaddr_string: the peers a text stands for, none when it is
   refused.  The first field is skipped, the second is the address, the
   fourth the port. *)
from_multiaddr_string(line) ==
    IF line[2] \in Ips /\ line[4] \in Ports THEN {Peer(NoId, <<line[2], line[4]>>)} ELSE {}

Sockets(list) == {list[i].socket : i \in DOMAIN list}
Ids(list) == {list[i].id : i \in DOMAIN list}

(* PeerList::bootstrap *)
bootstrap(list) ==
    LET keep[i \in 1 .. Len(list) + 1] ==
            IF i = 1 THEN <<>>
            ELSE IF effective_socket(list[i - 1]) THEN Append(keep[i - 1], list[i - 1])
            ELSE keep[i - 1]
    IN  keep[Len(list) + 1]

(* Faulty: another entry with the address does not count. *)
ExactAddBootstrap(list, p) ==
    IF \E i \in DOMAIN list : list[i] = p THEN list ELSE Append(list, p)

(* PeerList::add_bootstrap *)
add_bootstrap(list, p) ==
    IF p.socket \in Sockets(list) THEN list ELSE Append(list, p)

(* PeerList::add_allow_peer *)
add_allow_peer(list, id) ==
    IF id \in Ids(list) THEN list ELSE Append(list, Peer(id, Zero))

Without(list, i) == SubSeq(list, 1, i - 1) \o SubSeq(list, i + 1, Len(list))

(* PeerList::remove_allow_peer: the first entry with the id. *)
remove_allow_peer(list, id) ==
    IF id \notin Ids(list) THEN list
    ELSE Without(list, CHOOSE i \in DOMAIN list :
            list[i].id = id /\ \A j \in 1 .. i - 1 : list[j].id # id)
----------------------------------------------------------------------------
(* Locks *)

NotSaving == [left |-> <<>>, joins |-> Nobody, on |-> FALSE]

(* peer_list can be read, and written. *)
CanRead == ~saving.on
CanWrite == ~saving.on /\ todo = <<>>

(* PeerList::save: the file is emptied and written line by line. *)
Save(list, joins) ==
    /\ saving' = [left |-> [i \in DOMAIN list |-> to_multiaddr_string(list[i])],
                  joins |-> joins, on |-> TRUE]
    /\ file' = <<>>
    /\ UNCHANGED keyfile

SaveLine ==
    /\ saving.on /\ saving.left # <<>>
    /\ file' = Append(file, Head(saving.left))
    /\ saving' = [saving EXCEPT !.left = Tail(@)]
    /\ UNCHANGED <<phase, keyfile, ident, lists, todo, dials, crashes, events>>

(* Faulty: also a save nobody joins after adds to the DHT. *)
RawSaveDone ==
    /\ saving.on /\ saving.left = <<>>
    /\ saving' = NotSaving
    /\ dhts' = dhts \cup {saving.joins}
    /\ UNCHANGED <<phase, disk, ident, allows, stables, todo, dials, crashes, events>>

(* add_dht goes on to the DHT after the save. *)
SaveDone ==
    /\ saving.on /\ saving.left = <<>>
    /\ saving' = NotSaving
    /\ dhts' = dhts \cup ({saving.joins} \ {Nobody})
    /\ UNCHANGED <<phase, disk, ident, allows, stables, todo, dials, crashes, events>>
----------------------------------------------------------------------------
(* start() *)

(* Faulty: a new key is not written. *)
ForgetfulReadKey ==
    /\ phase = "down"
    /\ made' = IF keyfile # 0 THEN made ELSE made + 1
    /\ key' = IF keyfile # 0 THEN keyfile ELSE made + 1
    /\ phase' = "load"
    /\ UNCHANGED <<disk, shown, lists, saving, todo, dials, crashes, events>>

(* The key on disk, or a new one. *)
ReadKey ==
    /\ phase = "down"
    /\ IF keyfile # 0
       THEN /\ key' = keyfile /\ phase' = "load"
            /\ UNCHANGED made
       ELSE /\ made' = made + 1 /\ key' = made + 1 /\ phase' = "write_key"
    /\ UNCHANGED <<disk, shown, lists, saving, todo, dials, crashes, events>>

WriteKey ==
    /\ phase = "write_key"
    /\ phase' = "load"
    /\ keyfile' = key
    /\ UNCHANGED <<file, ident, lists, saving, todo, dials, crashes, events>>

(* PeerList::load, line by line, after the configured list. *)
Loaded ==
    LET add[i \in 1 .. Len(file) + 1] ==
            IF i = 1 THEN Config
            ELSE LET p == from_multiaddr_string(file[i - 1])
                 IN  IF p = {} THEN add[i - 1]
                     ELSE add_bootstrap(add[i - 1], CHOOSE q \in p : TRUE)
    IN  add[Len(file) + 1]

(* The transport is started and the seeds are dialled one by one. *)
Load ==
    /\ phase = "load"
    /\ phase' = "boot"
    /\ allows' = Loaded
    /\ todo' = bootstrap(Loaded)
    /\ inboxes' = <<<<>>>>
    /\ transports' = [transports EXCEPT ![MAIN] = 1]
    /\ UNCHANGED <<disk, ident, dhts, stables, saving, sends, owed, crashes, events>>

Booted ==
    /\ phase = "boot" /\ todo = <<>>
    /\ phase' = "up"
    /\ UNCHANGED <<disk, ident, lists, saving, todo, dials, crashes, events>>
----------------------------------------------------------------------------
(* Global::trans_send: the caller looks for a transport of the kind; if none
   runs it starts one, hands the message to that and lists it. *)

Calling(by) == \E c \in sends : c.by = by

Call(by, addr) ==
    /\ sends' = sends \cup {[by |-> by, addr |-> addr, pc |-> "look", at |-> 0]}
    /\ owed' = [owed EXCEPT ![addr] = @ + 1]
    /\ UNCHANGED <<transports, inboxes>>

(* The call returns; the loop over the seeds, if it made the call, goes on. *)
Return(c) ==
    /\ sends' = sends \ {c}
    /\ todo' = IF c.by = "server" /\ todo # <<>> THEN Tail(todo) ELSE todo

Goes(c, pc, at) ==
    /\ sends' = (sends \ {c}) \cup {[by |-> c.by, addr |-> c.addr, pc |-> pc, at |-> at]}
    /\ UNCHANGED todo

SendLook(c) ==
    LET at == transports[Kind[c.addr]]
    IN  /\ c.pc = "look"
        /\ IF at # 0
           THEN /\ inboxes' = [inboxes EXCEPT ![at] = Append(@, c.addr)]
                /\ Return(c)
           ELSE /\ Goes(c, "start", 0)
                /\ UNCHANGED inboxes
        /\ UNCHANGED <<phase, disk, ident, lists, saving, transports, owed, crashes, events>>

SendStart(c) ==
    /\ c.pc = "start"
    /\ inboxes' = Append(inboxes, <<c.addr>>)
    /\ Goes(c, "insert", Len(inboxes) + 1)
    /\ UNCHANGED <<phase, disk, ident, lists, saving, transports, owed, crashes, events>>

(* Faulty: the instance that is replaced ends with what it was sent. *)
DroppingSendInsert(c) ==
    /\ c.pc = "insert"
    /\ inboxes' = [i \in DOMAIN inboxes |->
                    IF i = transports[Kind[c.addr]] THEN <<>> ELSE inboxes[i]]
    /\ transports' = [transports EXCEPT ![Kind[c.addr]] = c.at]
    /\ Return(c)
    /\ UNCHANGED <<phase, disk, ident, lists, saving, owed, crashes, events>>

(* What the map held is dropped; its instance still takes what it was sent. *)
SendInsert(c) ==
    /\ c.pc = "insert"
    /\ transports' = [transports EXCEPT ![Kind[c.addr]] = c.at]
    /\ Return(c)
    /\ UNCHANGED <<phase, disk, ident, lists, saving, inboxes, owed, crashes, events>>

(* The loop over the seeds takes the next one. *)
DialSeed ==
    /\ todo # <<>> /\ ~Calling("server")
    /\ Call("server", Head(todo).socket)
    /\ UNCHANGED <<phase, disk, ident, lists, saving, todo, crashes, events>>

(* A transport, listed or not, takes a message and dials. *)
Dial(i) ==
    /\ i \in DOMAIN inboxes /\ inboxes[i] # <<>>
    /\ inboxes' = [inboxes EXCEPT ![i] = Tail(@)]
    /\ owed' = [owed EXCEPT ![Head(inboxes[i])] = @ - 1]
    /\ shown' = shown \cup {key}
    /\ UNCHANGED <<phase, disk, key, made, lists, saving, todo, sends, transports, crashes, events>>
----------------------------------------------------------------------------
(* What comes from outside *)

Event ==
    /\ phase = "up" /\ events < EVENTS
    /\ events' = events + 1
    /\ UNCHANGED <<phase, crashes>>

Blocked(p) == p \in BlockedIds \/ AddrOf[p][1] \in BlockedIps

(* Faulty: the save comes before the change. *)
EarlySaveAddDht(p) ==
    LET e == Peer(p, AddrOf[p])
    IN  IF p \in Public /\ \A i \in DOMAIN allows : allows[i] # e
        THEN /\ allows' = add_bootstrap(allows, e)
             /\ Save(allows, p)
             /\ UNCHANGED <<dhts, stables>>
        ELSE /\ dhts' = dhts \cup {p}
             /\ UNCHANGED <<allows, stables, saving, disk>>

(* PeerList::add_dht *)
add_dht(p) ==
    LET e == Peer(p, AddrOf[p])
    IN  IF p \in Public /\ \A i \in DOMAIN allows : allows[i] # e
        THEN /\ allows' = add_bootstrap(allows, e)
             /\ Save(add_bootstrap(allows, e), p)
             /\ UNCHANGED <<dhts, stables>>
        ELSE /\ dhts' = dhts \cup {p}
             /\ UNCHANGED <<allows, stables, saving, disk>>

(* A connection with p is there, whichever side made it. *)
Incoming(p) ==
    /\ Event
    /\ ~Blocked(p) /\ CanWrite
    /\ shown' = shown \cup {key}
    /\ add_dht(p)
    /\ UNCHANGED <<key, made, todo, dials>>

(* The session with p is told of other peers; one that is unknown is dialled. *)
Help(p, q) ==
    /\ Event
    /\ p \in dhts \cup stables /\ ~Calling(p)
    /\ q # p /\ q \notin dhts \cup stables /\ CanRead
    /\ Call(p, AddrOf[q])
    /\ UNCHANGED <<disk, ident, lists, saving, todo>>

(* PeerList::dht_to_stable *)
Stable(p) ==
    /\ Event
    /\ p \in dhts /\ ~Calling(p) /\ CanWrite
    /\ dhts' = dhts \ {p}
    /\ stables' = stables \cup {p}
    /\ allows' = add_allow_peer(allows, p)
    /\ UNCHANGED <<disk, ident, saving, todo, dials>>

(* PeerList::stable_to_dht of a direct session *)
Unstable(p) ==
    /\ Event
    /\ p \in stables /\ ~Calling(p) /\ CanWrite
    /\ stables' = stables \ {p}
    /\ dhts' = dhts \cup {p}
    /\ allows' = remove_allow_peer(allows, p)
    /\ UNCHANGED <<disk, ident, saving, todo, dials>>

(* PeerList::stable_leave, PeerList::remove_peer *)
Gone(p) ==
    /\ Event
    /\ p \in dhts \cup stables /\ ~Calling(p) /\ CanWrite
    /\ stables' = stables \ {p}
    /\ dhts' = IF p \in stables THEN dhts ELSE dhts \ {p}
    /\ UNCHANGED <<disk, ident, allows, saving, todo, dials>>

ServerFree == todo = <<>> /\ ~Calling("server")

(* SendMessage::Connect *)
Connect(addr) ==
    /\ Event
    /\ ServerFree
    /\ Call("server", addr)
    /\ UNCHANGED <<disk, ident, lists, saving, todo>>

(* SendMessage::DisConnect, PeerList::peer_disconnect: the last entry. *)
DisConnect(addr) ==
    /\ Event
    /\ ServerFree /\ CanWrite
    /\ addr \in Sockets(allows)
    /\ LET last == CHOOSE i \in DOMAIN allows :
                /\ allows[i].socket = addr
                /\ \A j \in i + 1 .. Len(allows) : allows[j].socket # addr
       IN  allows' = Without(allows, last) /\ Save(Without(allows, last), Nobody)
    /\ UNCHANGED <<ident, dhts, stables, todo, dials>>

(* SendMessage::NetworkReboot *)
NetworkReboot ==
    /\ Event
    /\ ServerFree /\ CanRead
    /\ todo' = bootstrap(allows)
    /\ UNCHANGED <<disk, ident, lists, saving, dials>>

(* The process ends at any step: what is on disk stays. *)
Crash ==
    /\ crashes < CRASHES /\ phase # "down"
    /\ crashes' = crashes + 1
    /\ phase' = "down"
    /\ key' = 0
    /\ allows' = <<>> /\ dhts' = {} /\ stables' = {}
    /\ saving' = NotSaving /\ todo' = <<>>
    /\ sends' = {} /\ transports' = [k \in Kinds |-> 0] /\ inboxes' = <<>>
    /\ owed' = [a \in Addrs |-> 0]
    /\ UNCHANGED <<disk, made, shown, events>>
----------------------------------------------------------------------------
Init ==
    /\ phase = "down"
    /\ keyfile = 0 /\ file = <<>> /\ made = 0 /\ shown = {}
    /\ key = 0
    /\ allows = <<>> /\ dhts = {} /\ stables = {}
    /\ saving = NotSaving /\ todo = <<>>
    /\ sends = {} /\ transports = [k \in Kinds |-> 0] /\ inboxes = <<>>
    /\ owed = [a \in Addrs |-> 0]
    /\ crashes = 0 /\ events = 0

Start == ReadKey \/ WriteKey \/ Load \/ Booted
Saving == SaveLine \/ SaveDone
Send(by) == \E c \in sends : c.by = by /\ (SendLook(c) \/ SendStart(c) \/ SendInsert(c))
Callers == Peers \cup {"server"}
Outside ==
    \/ \E p \in Peers : Incoming(p) \/ Stable(p) \/ Unstable(p) \/ Gone(p)
    \/ \E p, q \in Peers : Help(p, q)
    \/ \E addr \in Addrs \ {Zero} : Connect(addr) \/ DisConnect(addr)
    \/ NetworkReboot

Next ==
    \/ Start \/ Saving \/ DialSeed \/ Outside \/ Crash
    \/ \E by \in Callers : Send(by)
    \/ \E i \in DOMAIN inboxes : Dial(i)

(* Every task of the node runs on; nothing is assumed of what is outside.
   An event starts at most one transport. *)
Fairness ==
    /\ WF_vars(Start) /\ WF_vars(Saving) /\ WF_vars(DialSeed)
    /\ \A by \in Callers : WF_vars(Send(by))
    /\ \A i \in 1 .. EVENTS + 2 : WF_vars(Dial(i))

Spec == Init /\ [][Next]_vars /\ Fairness
----------------------------------------------------------------------------
(* Properties *)

(* Types of the state. *)
TypeOK ==
    /\ phase \in {"down", "write_key", "load", "boot", "up"}
    /\ keyfile \in Nat /\ key \in Nat /\ made \in Nat /\ shown \subseteq Nat
    /\ allows \in Seq(Entries) /\ todo \in Seq(Entries)
    /\ dhts \subseteq Peers /\ stables \subseteq Peers
    /\ saving.on \in BOOLEAN /\ saving.joins \in Peers \cup {Nobody}
    /\ \A i \in DOMAIN file : Len(file[i]) = 5
    /\ \A c \in sends : c.pc \in {"look", "start", "insert"} /\ c.at \in 0 .. Len(inboxes)
    /\ transports \in [Kinds -> 0 .. Len(inboxes)]
    /\ inboxes \in Seq(Seq(Addrs)) /\ owed \in [Addrs -> Nat]

(* Other nodes never see two identities of this one: a key is on disk before
   it is used, so that a crash at any step of start() or later brings the
   same one back (server.rs 58-70). *)
SameIdentity == Cardinality(shown) <= 1

(* No address is twice among the seeds, however the entries of peers with
   and without an address come and go (peer_list.rs 36-77, 233-330): a
   disconnect, which removes one entry, really removes the address. *)
SeedsOnce ==
    \A i, j \in DOMAIN allows :
        allows[i].socket = allows[j].socket /\ effective_socket(allows[i]) => i = j

(* The address of a peer that became a seed, and is not configured as one, is
   on disk as soon as the peer can be found in the DHT (peer_list.rs 233-246),
   so that a crash after that does not lose it. *)
SeedsSaved ==
    ~saving.on =>
        \A p \in Peers, i \in DOMAIN allows :
            allows[i] = Peer(p, AddrOf[p]) /\ (\A j \in DOMAIN Config : Config[j] # allows[i]) =>
                \E k \in DOMAIN file : file[k] = to_multiaddr_string(allows[i])

(* Every dial asked of trans_send is made: also when two callers find no
   transport of the kind, each starts one and the second replaces the first
   (global.rs 72-103).  Only a crash forgets one. *)
DialsMade == \A a \in Addrs : owed[a] > 0 ~> owed[a] = 0

(* What save writes, load reads: "Multiaddr, you can import/export it."
   (peer.rs 203, 178). *)
SavedIsLoaded ==
    phase = "boot" => \A i \in DOMAIN file :
        \E a \in Sockets(allows) : file[i] = to_multiaddr_string(Peer(NoId, a))
=============================================================================
