----------------------------- MODULE Handshake -----------------------------
(***************************************************************************)
(* The session key of src/keys.rs, and the handshakes that make one: over  *)
(* a connection (direct_stable, the server's incoming connections) and     *)
(* through relays (relay_stable, RelayHandshake of handle_endpoint), with  *)
(* the heartbeat that finds out whether the two ends can read each other.  *)
(*                                                                         *)
(* A session is named by the number of the secret of its key, drawn at     *)
(* random and so never drawn twice.  What is sent through relays may be    *)
(* lost, or arrive late and in any order; a connection keeps its answer    *)
(* apart from everything else.                                             *)
(*                                                                         *)
(* Left out: signatures (every node signs with its own key), what the      *)
(* application sends, and the steps of PeerSessions within one action: the *)
(* two locks of an upgrade, and channels between tasks of one node.        *)
(***************************************************************************)
EXTENDS Integers, FiniteSets

CONSTANTS
    Node,           \* nodes, all of which run this code
    KEYS,           \* session keys that are ever generated (bound)
    MISSED          \* heartbeats that may stay unanswered (3 in the code)

ASSUME HandshakeAssumption == Node # {} /\ KEYS \in Nat \ {0} /\ MISSED \in Nat

VARIABLES
    ses,            \* session -> its state
    tmps,           \* <<node, peer>> -> session, or 0           (Buffer.tmps)
    dhts,           \* <<node, peer>> -> session, or 0           (PeerList.dhts)
    stables,        \* <<node, peer>> -> session, or 0           (PeerList.stables)
    shakes,         \* handshakes on their way
    data            \* encrypted pings and pongs on their way

tables == <<tmps, dhts, stables>>
vars   == <<ses, tables, shakes, data>>

Session == 1 .. KEYS

(* Of a SessionKey: the secret, whose public half has the same number, the
   key of the cipher (none yet: {}), and the session that drew the nonce. *)
SessionKey ==
    [sk : 0 .. KEYS, cipher : SUBSET Session, nonce : 0 .. KEYS, is_ok : BOOLEAN]

(* pc: before a session runs it waits for the answer through relays, or dials
   (server, direct_stable); stream: the session that dialled the connection, 0
   when relayed; asked: it sent the first handshake; direct: the flag its
   entry was filed with. *)
SessionState ==
    [pc : {"none", "begin", "waiting", "connect", "stable_connect", "run", "dead"},
     owner : Node, peer : Node, stream : 0 .. KEYS, asked : BOOLEAN, stable : BOOLEAN,
     direct : BOOLEAN, key : SessionKey, heartbeat : 0 .. MISSED + 1]

session_key(k) == [sk |-> k, cipher |-> {}, nonce |-> k, is_ok |-> FALSE]

(* The shared secret is the same from either side. *)
dh(sk, pk) == {sk, pk}

(* Faulty: the nonce stays one's own. *)
CompleteKeepsNonce(key, remote) ==
    [key EXCEPT !.cipher = dh(key.sk, remote.pk), !.is_ok = TRUE]

complete(key, remote) ==
    [key EXCEPT !.cipher = dh(key.sk, remote.pk), !.nonce = remote.nonce, !.is_ok = TRUE]

out_bytes(key) == [pk |-> key.sk, nonce |-> key.nonce]

(* A handshake is the out_bytes of a key, with who sent it and where to. *)
Shake(from, to, stream, key) ==
    [from |-> from, to |-> to, stream |-> stream, dh |-> out_bytes(key)]

(* What was encrypted is read with the same cipher and the same nonce. *)
encrypt(body, s) ==
    [from |-> s.owner, to |-> s.peer, stream |-> s.stream, body |-> body,
     cipher |-> s.key.cipher, nonce |-> s.key.nonce]

decrypts(s, d) == s.key.cipher = d.cipher /\ s.key.nonce = d.nonce

Nowhere == [at \in Node \X Node |-> 0]

Unborn ==
    [pc |-> "none", owner |-> CHOOSE n \in Node : TRUE, peer |-> CHOOSE n \in Node : TRUE,
     stream |-> 0, asked |-> FALSE, stable |-> FALSE, direct |-> FALSE,
     key |-> [sk |-> 0, cipher |-> {}, nonce |-> 0, is_ok |-> FALSE], heartbeat |-> 0]

Init ==
    /\ ses = [k \in Session |-> Unborn]
    /\ tmps = Nowhere /\ dhts = Nowhere /\ stables = Nowhere
    /\ shakes = {}
    /\ data = {}

Place(k) == <<ses[k].owner, ses[k].peer>>

(* The next secret that is drawn. *)
Fresh(k) == ses[k].pc = "none" /\ \A j \in 1 .. k - 1 : ses[j].pc # "none"

Over(k) ==
    [Unborn EXCEPT !.pc = "dead", !.owner = ses[k].owner, !.peer = ses[k].peer,
                   !.direct = ses[k].direct]

----------------------------------------------------------------------------
(* Through relays *)

(* The application wants a stable connection to a peer with no session. *)
StartRelay(k, n, m) ==
    /\ Fresh(k) /\ n # m
    /\ tmps[<<n, m>>] = 0 /\ dhts[<<n, m>>] = 0 /\ stables[<<n, m>>] = 0
    /\ ses' = [ses EXCEPT ![k] = [Unborn EXCEPT !.pc = "begin", !.owner = n, !.peer = m,
                                                !.asked = TRUE, !.key = session_key(k)]]
    /\ UNCHANGED <<tables, shakes, data>>

(* relay_stable files itself in tmps, whatever was there, and asks. *)
RelayConnect(k) ==
    /\ ses[k].pc = "begin"
    /\ ses' = [ses EXCEPT ![k].pc = "waiting"]
    /\ tmps' = [tmps EXCEPT ![Place(k)] = k]
    /\ shakes' = shakes \cup {Shake(ses[k].owner, ses[k].peer, 0, ses[k].key)}
    /\ UNCHANGED <<dhts, stables, data>>

(* A peer in tmps: the handshake is taken for the answer.  The session that
   waits in relay_stable completes its key and becomes stable; one that runs
   does not handshake twice. *)
RelayResult(h) ==
    LET k == tmps[<<h.to, h.from>>]
    IN  /\ h.stream = 0 /\ k # 0
        /\ shakes' = shakes \ {h}
        /\ \/ /\ ses[k].pc = "waiting"
              /\ ses' = [ses EXCEPT ![k].pc = "run", ![k].stable = TRUE,
                                    ![k].key = complete(@, h.dh)]
              /\ tmps' = [tmps EXCEPT ![Place(k)] = 0]
              /\ stables' = [stables EXCEPT ![Place(k)] = k]
           \/ /\ ses[k].pc # "waiting"
              /\ UNCHANGED <<ses, tmps, stables>>
        /\ UNCHANGED <<dhts, data>>

(* Faulty: the answer is made before the key is completed. *)
AnswerEarly(h, k) ==
    LET key == session_key(k)
    IN  /\ h.stream = 0 /\ tmps[<<h.to, h.from>>] = 0
        /\ Fresh(k)
        /\ ses' = [ses EXCEPT ![k] = [Unborn EXCEPT !.pc = "run", !.owner = h.to,
                                         !.peer = h.from, !.key = complete(key, h.dh)]]
        /\ tmps' = [tmps EXCEPT ![<<h.to, h.from>>] = k]
        /\ shakes' = (shakes \ {h}) \cup {Shake(h.to, h.from, 0, key)}
        /\ UNCHANGED <<dhts, stables, data>>

(* No peer in tmps: a session is started with a key completed at once, and
   answers with it. *)
RelayAnswer(h, k) ==
    LET key == complete(session_key(k), h.dh)
    IN  /\ h.stream = 0 /\ tmps[<<h.to, h.from>>] = 0
        /\ Fresh(k)
        /\ ses' = [ses EXCEPT ![k] = [Unborn EXCEPT !.pc = "run", !.owner = h.to,
                                                    !.peer = h.from, !.key = key]]
        /\ tmps' = [tmps EXCEPT ![<<h.to, h.from>>] = k]
        /\ shakes' = (shakes \ {h}) \cup {Shake(h.to, h.from, 0, key)}
        /\ UNCHANGED <<dhts, stables, data>>

(* Ten seconds without an answer: what is in tmps under the id goes. *)
RelayTimeout(k) ==
    /\ ses[k].pc = "waiting"
    /\ ses' = [ses EXCEPT ![k] = Over(k)]
    /\ tmps' = [tmps EXCEPT ![Place(k)] = 0]
    /\ UNCHANGED <<dhts, stables, shakes, data>>

(* The application accepts, or wants a peer that is connected: the entry in
   tmps, or else the one in dhts, moves to stables.  With neither the session
   ends, marked stable by then, and takes what is in stables with it. *)
Upgrade(k) ==
    LET at    == Place(k)
        found == IF tmps[at] # 0 THEN tmps[at] ELSE dhts[at]
    IN  /\ ses[k].pc = "run" /\ ~ses[k].stable
        /\ ses' = [ses EXCEPT ![k] = IF found = 0 THEN Over(k) ELSE [@ EXCEPT !.stable = TRUE]]
        /\ stables' = [stables EXCEPT ![at] = found]
        /\ tmps' = [tmps EXCEPT ![at] = 0]
        /\ dhts' = [dhts EXCEPT ![at] = IF tmps[at] # 0 THEN @ ELSE 0]
        /\ UNCHANGED <<shakes, data>>

----------------------------------------------------------------------------
(* Over a connection of one's own *)

(* The server connects to a socket, or direct_stable does. *)
Dial(k, n, m, how) ==
    LET key == session_key(k)
    IN  /\ Fresh(k) /\ n # m
        /\ ses' = [ses EXCEPT ![k] = [Unborn EXCEPT !.pc = how, !.owner = n, !.peer = m,
                         !.stream = k, !.asked = TRUE, !.direct = TRUE, !.key = key]]
        /\ shakes' = shakes \cup {Shake(n, m, k, key)}
        /\ UNCHANGED <<tables, data>>

is_relay(at) == stables[at] # 0 /\ ~ses[stables[at]].direct

(* The server's part for a connection whose key is complete.  A peer with a
   stable session through relays: that session changes over to the connection
   and keeps its own key (DirectIncoming).  Any other: a session of the DHT. *)
Joins(k, s) ==
    LET at    == <<s.owner, s.peer>>
        other == stables[at]
    IN  \/ /\ is_relay(at)
           /\ ses' = [j \in Session |->
                IF j = k THEN [Unborn EXCEPT !.pc = "dead", !.owner = s.owner, !.peer = s.peer,
                                             !.direct = TRUE]
                ELSE IF j = other /\ ses[j].pc = "run" THEN [ses[j] EXCEPT !.stream = s.stream]
                ELSE ses[j]]
           /\ UNCHANGED tables
        \/ /\ ~is_relay(at)
           /\ ses' = [ses EXCEPT ![k] = s]
           /\ dhts' = [dhts EXCEPT ![at] = k]
           /\ UNCHANGED <<tmps, stables>>

Incoming(h, k) ==
    LET key == complete(session_key(k), h.dh)
    IN  /\ h.stream # 0 /\ ses[h.stream].owner = h.from
        /\ Fresh(k)
        /\ Joins(k, [Unborn EXCEPT !.pc = "run", !.owner = h.to, !.peer = h.from,
                                   !.stream = h.stream, !.direct = TRUE, !.key = key])
        /\ shakes' = (shakes \ {h}) \cup {Shake(h.to, h.from, h.stream, key)}
        /\ UNCHANGED data

(* The answer on the connection: to the server, or to direct_stable, which
   files the session in tmps and upgrades it. *)
DialAnswered(h) ==
    LET k == h.stream
        s == [ses[k] EXCEPT !.pc = "run", !.key = complete(@, h.dh)]
    IN  /\ k # 0 /\ ses[k].owner = h.to
        /\ shakes' = shakes \ {h}
        /\ \/ ses[k].pc = "connect" /\ Joins(k, s)
           \/ /\ ses[k].pc = "stable_connect"
              /\ ses' = [ses EXCEPT ![k] = [s EXCEPT !.stable = TRUE]]
              /\ tmps' = [tmps EXCEPT ![Place(k)] = 0]
              /\ stables' = [stables EXCEPT ![Place(k)] = k]
              /\ UNCHANGED dhts
           \/ ses[k].pc \in {"run", "dead"} /\ UNCHANGED <<ses, tables>>
        /\ UNCHANGED data

DialTimeout(k) ==
    /\ ses[k].pc \in {"connect", "stable_connect"}
    /\ ses' = [ses EXCEPT ![k] = Over(k)]
    /\ UNCHANGED <<tables, shakes, data>>

----------------------------------------------------------------------------
(* A session that runs *)

(* Who gets what arrives: the other end of the connection; of what was
   relayed, the session in stables before the one in tmps, unless that has
   changed over to a connection and let its first stream go. *)
Receiver(d) ==
    IF d.stream # 0 THEN {k \in Session : ses[k].stream = d.stream /\ ses[k].owner = d.to}
    ELSE {IF stables[<<d.to, d.from>>] # 0 THEN stables[<<d.to, d.from>>] ELSE tmps[<<d.to, d.from>>]}
         \ {k \in {0} \cup Session : k = 0 \/ (~ses[k].direct /\ ses[k].stream # 0)}

(* Faulty: whatever arrives is taken for a sign of life. *)
AnyDataIsPong(d, k) ==
    /\ k \in Receiver(d) /\ ses[k].pc = "run"
    /\ data' = data \ {d}
    /\ ses' = [ses EXCEPT ![k].heartbeat = 0]
    /\ UNCHANGED <<tables, shakes>>

(* A ping is answered, a pong is the proof that the remote can be read, and
   what cannot be read is ignored. *)
handle_core_data(d, k) ==
    /\ k \in Receiver(d) /\ ses[k].pc = "run"
    /\ \/ /\ decrypts(ses[k], d) /\ d.body = "ping"
          /\ data' = (data \ {d}) \cup {encrypt("pong", ses[k])}
          /\ UNCHANGED ses
       \/ /\ decrypts(ses[k], d) /\ d.body = "pong"
          /\ data' = data \ {d}
          /\ ses' = [ses EXCEPT ![k].heartbeat = 0]
       \/ /\ ~decrypts(ses[k], d)
          /\ data' = data \ {d}
          /\ UNCHANGED ses
    /\ UNCHANGED <<tables, shakes>>

(* close(true): the entry of the peer goes, whosever it is. *)
Closed(k) ==
    /\ ses' = [ses EXCEPT ![k] = Over(k)]
    /\ stables' = [stables EXCEPT ![Place(k)] = IF ses[k].stable THEN 0 ELSE @]
    /\ tmps' = [tmps EXCEPT ![Place(k)] = IF ses[k].stable THEN @ ELSE 0]
    /\ dhts' = [dhts EXCEPT ![Place(k)] = IF ses[k].stable \/ ses[k].stream = 0 THEN @ ELSE 0]
    /\ UNCHANGED <<shakes, data>>

(* Faulty: unanswered heartbeats are counted and never looked at. *)
HeartbeatUnchecked(k) ==
    /\ ses[k].pc = "run"
    /\ ses' = [ses EXCEPT ![k].heartbeat = @ + 1]
    /\ data' = data \cup {encrypt("ping", ses[k])}
    /\ UNCHANGED <<tables, shakes>>

handle_heartbeat(k) ==
    /\ ses[k].pc = "run"
    /\ \/ ses[k].heartbeat > MISSED /\ Closed(k)
       \/ /\ ses[k].heartbeat <= MISSED
          /\ ses' = [ses EXCEPT ![k].heartbeat = @ + 1]
          /\ data' = data \cup {encrypt("ping", ses[k])}
          /\ UNCHANGED <<tables, shakes>>

(* The application, a timer or the end of its connection or carrier closes it;
   so does the loss of the entry that holds the sender of its stream. *)
Close(k) == ses[k].pc = "run" /\ Closed(k)

(* A relay drops what it cannot pass on; a connection that ends loses what is
   under way. *)
Lose ==
    \/ \E h \in shakes : shakes' = shakes \ {h} /\ UNCHANGED <<ses, tables, data>>
    \/ \E d \in data : data' = data \ {d} /\ UNCHANGED <<ses, tables, shakes>>

Next ==
    \/ \E k \in Session :
          \/ \E n, m \in Node : \/ StartRelay(k, n, m)
                                \/ Dial(k, n, m, "connect") \/ Dial(k, n, m, "stable_connect")
          \/ RelayConnect(k) \/ RelayTimeout(k) \/ Upgrade(k) \/ DialTimeout(k)
          \/ \E h \in shakes : RelayAnswer(h, k) \/ Incoming(h, k)
          \/ \E d \in data : handle_core_data(d, k)
          \/ handle_heartbeat(k) \/ Close(k)
    \/ \E h \in shakes : RelayResult(h) \/ DialAnswered(h)
    \/ Lose

Spec == Init /\ [][Next]_vars

(* The runtime lets the timer of a session's heartbeat expire now and then. *)
Beats == \A k \in Session : WF_vars(handle_heartbeat(k))

FairSpec == Spec /\ Beats

----------------------------------------------------------------------------
(* Properties *)

ShakeType == [from : Node, to : Node, stream : 0 .. KEYS, dh : [pk : Session, nonce : Session]]

DataType ==
    [from : Node, to : Node, stream : 0 .. KEYS, body : {"ping", "pong"},
     cipher : SUBSET Session, nonce : Session]

(* Sessions, tables and messages have their shape, and a session that runs
   has a completed key. *)
TypeOK ==
    /\ ses \in [Session -> SessionState]
    /\ {tmps, dhts, stables} \subseteq [Node \X Node -> 0 .. KEYS]
    /\ shakes \subseteq ShakeType
    /\ data \subseteq DataType
    /\ \A k \in Session : ses[k].pc = "run" <=> ses[k].key.is_ok

Running(k) == ses[k].pc = "run"

SameCipher(j, k) == Running(j) /\ Running(k) /\ ses[j].key.cipher = ses[k].key.cipher

SameNonce(j, k) == ses[j].key.nonce = ses[k].key.nonce

(* A session that asked and one that answered, if they completed their keys
   with each other's half, read each other: both use the nonce of the one that
   asked, which the answer carries back, however many handshakes of the two
   nodes cross, get lost or come late. *)
AnswerAgrees ==
    \A j, k \in Session :
        SameCipher(j, k) /\ ses[j].asked /\ ~ses[k].asked => SameNonce(j, k)

SameStream(j, k) ==
    Running(j) /\ Running(k) /\ ses[j].stream = ses[k].stream /\ ses[j].stream # 0

(* The two ends of one connection read each other as soon as both run, if both
   were started by that connection: the handshakes of other connections, and
   relayed ones, never get mixed in. *)
StreamAgrees ==
    \A j, k \in Session :
        SameStream(j, k) /\ ses[j].direct /\ ses[k].direct => SameCipher(j, k) /\ SameNonce(j, k)

Heard(k) ==
    \E j \in Session \ {k} :
        ses[j].owner = ses[k].peer /\ SameCipher(j, k) /\ SameNonce(j, k)

(* A session that no session of its peer can read, after handshakes that
   crossed, an answer to an earlier handshake, a change-over at one end only or
   the end of the other side, is closed by its heartbeat: what it cannot read does not keep it alive. *)
UnreadableEnds == \A k \in Session : <>[](~Heard(k)) => []<>(~Running(k))

(* src/keys.rs:292 says of a session key: "3. use remote public_key and self
   tmp private key to compute. 4. get session key, and encrypt / decrypt
   message."  When both sides ask at the same time each takes the nonce of the
   other. *)
KeysMeet == \A j, k \in Session : SameCipher(j, k) => SameNonce(j, k)

(* src/session.rs:714, where a session changes over to a connection, says "need
   use new session_key? no !."  The other end has a key that was made with this
   connection, unless it too has the relayed session and changes over. *)
ChangeOverReadable ==
    \A j, k \in Session : SameStream(j, k) => SameCipher(j, k) /\ SameNonce(j, k)
=============================================================================
