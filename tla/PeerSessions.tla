---------------------------- MODULE PeerSessions ----------------------------
(***************************************************************************)
(* The connections of one node: the sessions (src/session.rs), the tables  *)
(* that lead to them (PeerList of src/peer_list.rs, Buffer of              *)
(* src/buffer.rs, moved between by src/global.rs) and the two tasks of the *)
(* server (src/server.rs) that start and address them.                     *)
(*                                                                         *)
(* Every task is a sequential program; a step ends where the code releases *)
(* one of the two locks (peer_list, buffer) or waits for a message.  An    *)
(* entry of a table is the KadValue of a session: the only way to its      *)
(* inbox, and, for a relayed session, the only sender of its stream.       *)
(*                                                                         *)
(* Left out here: payloads, keys and delivery feedback; the allow and      *)
(* block lists; messages that pass through a session without changing a    *)
(* table.  The table of DHT peers is the map of module Dht.                *)
(***************************************************************************)
EXTENDS Integers, Sequences, FiniteSets, Functions

CONSTANTS
    Peer,           \* remote peers
    Session,        \* names for the sessions this node may ever start
    Nobody,         \* no session, no peer
    K_BUCKET,       \* the DHT never refuses a peer while it holds fewer others
    CHANNEL,        \* messages an inbox holds (bound: 128 in the code)
    REQUESTS        \* requests the application makes (bound: none in the code)

ASSUME NamesAssumption == Nobody \notin Session /\ Nobody \notin Peer

ASSUME BoundsAssumption == K_BUCKET \in Nat \ {0} /\ CHANNEL \in Nat \ {0} /\ REQUESTS \in Nat

VARIABLES
    dhts,           \* peer -> session                        (PeerList.dhts)
    stables,        \* peer -> [s, direct]                    (PeerList.stables)
    tmps,           \* peer -> [s, direct, marked]            (Buffer.tmps)
    connects,       \* peer -> marked                         (Buffer.connects)
    results,        \* peer -> marked                         (Buffer.results)
    ses,            \* session -> its state
    inbox,          \* session -> messages not yet read       (session_receiver)
    hold,           \* session -> entry taken from a table, or Nobody
    outside,        \* the request of the application being served
    requests        \* how many the application has made

tables == <<dhts, stables, tmps, connects, results>>
tasks  == <<ses, inbox, hold>>
vars   == <<tables, tasks, outside, requests>>

D == INSTANCE Dht WITH Value <- Session, table <- dhts

Put(f, k, v) == D!Put(f, k, v)

Drop(f, k) == D!Drop(f, k)

PC == {"none", "in_add", "ds_wait", "ds_hung", "ds_fall", "ds_add", "rs_add", "rs_send",
       "rs_wait", "rs_fail", "up_tmp", "up_list", "run", "rh_add", "rh_new",
       "cf_stable1", "cf_stable2", "cf_tmp1", "cf_tmp2", "cf_relay", "ct", "ct_list", "dead"}

(* peer: remote_peer; direct: the endpoint is ConnectType::Direct; via: the
   session a relayed one sends through; stable: is_stable; listening: listen()
   was called; force: leave after the upgrade; told: how often StableLeave was
   sent for it. *)
SessionState ==
    [pc : PC, peer : Peer \cup {Nobody}, direct : BOOLEAN,
     via : Session \cup {Nobody}, stable : BOOLEAN, listening : BOOLEAN,
     force : BOOLEAN, told : Nat]

Unborn ==
    [pc |-> "none", peer |-> Nobody, direct |-> FALSE, via |-> Nobody,
     stable |-> FALSE, listening |-> FALSE, force |-> FALSE, told |-> 0]

Message ==
    [type : {"StableConnect", "StableResult", "RelayResult", "DirectIncoming", "Close"},
     ok : BOOLEAN, force : BOOLEAN, via : Session \cup {Nobody}]

Msg(type) == [type |-> type, ok |-> FALSE, force |-> FALSE, via |-> Nobody]

Result(ok, force) == [Msg("StableResult") EXCEPT !.ok = ok, !.force = force]

Idle == [op |-> "idle", p |-> Nobody, via |-> Nobody, ok |-> FALSE, force |-> FALSE]

Init ==
    /\ dhts = [p \in {} |-> Nobody]
    /\ stables = [p \in {} |-> Nobody]
    /\ tmps = [p \in {} |-> Nobody]
    /\ connects = [p \in {} |-> FALSE]
    /\ results = [p \in {} |-> FALSE]
    /\ ses = [s \in Session |-> Unborn]
    /\ inbox = [s \in Session |-> <<>>]
    /\ hold = [s \in Session |-> Nobody]
    /\ outside = Idle
    /\ requests = 0

----------------------------------------------------------------------------
(* Channels and table lookups *)

(* The receiver of the inbox exists from the creation of the channel until
   forever() returns, which drops it. *)
Open(s) ==
    ses[s].pc \notin {"none", "in_add", "ds_wait", "ds_hung", "ds_fall", "ct", "ct_list", "dead"}

(* Faulty: the channel has no bound. *)
Unbounded(s) == TRUE

(* Sending waits for room; to a dropped receiver it fails at once. *)
CanSend(s) == Open(s) => Len(inbox[s]) < CHANNEL

Send(s, m) ==
    /\ CanSend(s)
    /\ inbox' = IF Open(s) THEN [inbox EXCEPT ![s] = Append(@, m)] ELSE inbox

(* What PeerList.get may answer: the stable session, else the session of the
   DHT, else the one of the closest peer, which the search may miss. *)
Get(p) ==
    IF p \in DOMAIN stables THEN {[s |-> stables[p].s, is_it |-> TRUE]}
    ELSE IF p \in DOMAIN dhts THEN {[s |-> dhts[p], is_it |-> TRUE]}
    ELSE {[s |-> dhts[q], is_it |-> FALSE] : q \in DOMAIN dhts}
         \cup {[s |-> Nobody, is_it |-> FALSE]}

Becomes(s, state) == ses' = [ses EXCEPT ![s] = state]

Goto(s, pc) == Becomes(s, [ses[s] EXCEPT !.pc = pc])

(* The task returns; of its state only what it was is remembered. *)
Over(s) == [Unborn EXCEPT !.pc = "dead", !.peer = ses[s].peer,
                          !.direct = ses[s].direct, !.stable = ses[s].stable,
                          !.told = ses[s].told]

Ends(s) == Becomes(s, Over(s))

(* A session that holds its own stream sender nowhere has none. *)
HasEntry(s) ==
    \/ \E p \in DOMAIN dhts : dhts[p] = s
    \/ \E p \in DOMAIN stables : stables[p].s = s
    \/ \E p \in DOMAIN tmps : tmps[p].s = s
    \/ \E t \in Session : hold[t] # Nobody /\ hold[t].s = s

----------------------------------------------------------------------------
(* The task of the transports: incoming connections and timers *)

(* This task serves one connection at a time, between two timers. *)
Busy == \E s \in Session : ses[s].pc = "in_add"

(* A connection of a stable peer that is relayed is handed to its session. *)
IncomingRelay(p) ==
    /\ ~Busy
    /\ p \in DOMAIN stables /\ ~stables[p].direct
    /\ Send(stables[p].s, Msg("DirectIncoming"))
    /\ UNCHANGED <<tables, ses, hold, outside, requests>>

IncomingDht(p, s) ==
    /\ ~Busy
    /\ ~(p \in DOMAIN stables /\ ~stables[p].direct)
    /\ ses[s].pc = "none"
    /\ Becomes(s, [ses[s] EXCEPT !.pc = "in_add", !.peer = p])
    /\ UNCHANGED <<tables, inbox, hold, outside, requests>>

(* add_dht and, unless it refused, the start of the session. *)
AddDht(s) ==
    /\ ses[s].pc = "in_add"
    /\ \E o \in D!AddOutcome(dhts, ses[s].peer, s) :
          /\ dhts' = o.table
          /\ \/ o.ok /\ Becomes(s, [ses[s] EXCEPT !.pc = "run", !.direct = TRUE, !.listening = TRUE])
             \/ ~o.ok /\ Becomes(s, Unborn)
    /\ UNCHANGED <<stables, tmps, connects, results, inbox, hold, outside, requests>>

Sweep(f) == [p \in {q \in DOMAIN f : ~f[q]} |-> TRUE]

(* Faulty: sessions in tmps are not aged. *)
TimerForgetsTmps ==
    /\ ~Busy
    /\ connects' = Sweep(connects)
    /\ results' = Sweep(results)
    /\ UNCHANGED <<dhts, stables, tmps, tasks, outside, requests>>

(* Entries that were marked by the last pass go, the others are marked. *)
TimerClear ==
    LET old == {p \in DOMAIN tmps : tmps[p].marked}
        told == {tmps[p].s : p \in old}
    IN  /\ ~Busy
        /\ \A s \in told : CanSend(s)
        /\ inbox' = [s \in Session |->
                        IF s \in told /\ Open(s) THEN Append(inbox[s], Msg("Close"))
                        ELSE inbox[s]]
        /\ tmps' = [p \in DOMAIN tmps \ old |-> [tmps[p] EXCEPT !.marked = TRUE]]
        /\ connects' = Sweep(connects)
        /\ results' = Sweep(results)
        /\ UNCHANGED <<dhts, stables, ses, hold, outside, requests>>

----------------------------------------------------------------------------
(* The task of the application's requests *)

Forward(s, m) ==
    /\ Send(s, m)
    /\ outside' = Idle
    /\ UNCHANGED <<tables, ses, hold>>

Proceed(o) ==
    /\ outside' = o
    /\ UNCHANGED <<tables, tasks>>

(* The application makes a request when the last one has been dealt with. *)
Ask ==
    /\ outside = Idle
    /\ requests < REQUESTS
    /\ requests' = requests + 1

Request(op, p) == [Idle EXCEPT !.op = op, !.p = p]

StableConnect(p) ==
    /\ Ask
    /\ \E g \in Get(p) :
          \/ g.is_it /\ Forward(g.s, Msg("StableConnect"))
          \/ ~g.is_it /\ g.s # Nobody
             /\ Proceed([Request("connect_tmp", p) EXCEPT !.via = g.s])

StableResult(p, ok, force) ==
    /\ Ask
    /\ \/ p \in DOMAIN tmps /\ Forward(tmps[p].s, Result(ok, force))
       \/ p \notin DOMAIN tmps
          /\ Proceed([Request("result_get", p) EXCEPT !.ok = ok, !.force = force])

(* The second lookup of StableResult; nothing is started for a refusal. *)
ResultGet ==
    /\ outside.op = "result_get"
    /\ \E g \in Get(outside.p) :
          \/ g.is_it /\ Forward(g.s, Result(outside.ok, outside.force))
          \/ ~g.is_it /\ (g.s = Nobody \/ ~outside.ok) /\ Proceed(Idle)
          \/ ~g.is_it /\ g.s # Nobody /\ outside.ok
             /\ Proceed([outside EXCEPT !.op = "result_tmp", !.via = g.s])

(* A session to the peer may have appeared in tmps since the lookup. *)
CheckTmp ==
    LET p == outside.p
        m == IF outside.op = "connect_tmp" THEN Msg("StableConnect")
             ELSE Result(outside.ok, outside.force)
    IN  /\ outside.op \in {"connect_tmp", "result_tmp"}
        /\ \/ p \in DOMAIN tmps /\ Forward(tmps[p].s, m)
           \/ p \notin DOMAIN tmps
              /\ Proceed([outside EXCEPT !.op =
                            IF @ = "connect_tmp" THEN "connect_add" ELSE "result_add"])

(* The request joins those that wait for a connection in progress. *)
Buffered ==
    /\ \/ outside.op = "connect_add" /\ outside.p \in DOMAIN connects
       \/ outside.op = "result_add" /\ outside.p \in DOMAIN results
    /\ Proceed(Idle)

(* The first request of its kind starts direct_stable, if the address of the
   peer is known, or relay_stable. *)
StartStable(s) ==
    /\ ses[s].pc = "none"
    /\ \/ /\ outside.op = "connect_add" /\ outside.p \notin DOMAIN connects
          /\ connects' = Put(connects, outside.p, FALSE)
          /\ UNCHANGED results
       \/ /\ outside.op = "result_add" /\ outside.p \notin DOMAIN results
          /\ results' = Put(results, outside.p, FALSE)
          /\ UNCHANGED connects
    /\ \/ Becomes(s, [ses[s] EXCEPT !.pc = "ds_wait", !.peer = outside.p])
       \/ Becomes(s, [ses[s] EXCEPT !.pc = "rs_add", !.peer = outside.p, !.via = outside.via])
    /\ outside' = Idle
    /\ UNCHANGED <<dhts, stables, tmps, inbox, hold>>

StableDisconnect(p) ==
    /\ Ask
    /\ \E g \in Get(p) : g.is_it /\ Forward(g.s, Msg("Close"))

----------------------------------------------------------------------------
(* A session is started: direct_stable *)

Entry(s, direct) == [s |-> s, direct |-> direct, marked |-> FALSE]

(* Whoever answers at the address is taken for the remote peer. *)
DialAnswered(s, q) ==
    /\ ses[s].pc = "ds_wait"
    /\ Becomes(s, [ses[s] EXCEPT !.pc = "ds_add", !.peer = q])
    /\ UNCHANGED <<tables, inbox, hold, outside, requests>>

DialRefused(s) ==
    /\ ses[s].pc = "ds_wait"
    /\ Goto(s, "ds_fall")
    /\ UNCHANGED <<tables, inbox, hold, outside, requests>>

(* The transport gives up after its timeout without a word, and direct_stable
   keeps a sender of the channel it waits on. *)
DialSilent(s) ==
    /\ ses[s].pc = "ds_wait"
    /\ Goto(s, "ds_hung")
    /\ UNCHANGED <<tables, inbox, hold, outside, requests>>

(* No transport takes the request, or the key of the answer is unusable. *)
DialFails(s) ==
    /\ ses[s].pc = "ds_wait"
    /\ Ends(s)
    /\ connects' \in {connects, Drop(connects, ses[s].peer)}
    /\ UNCHANGED <<dhts, stables, tmps, results, inbox, hold, outside, requests>>

(* add_tmp, then what was buffered is sent, then upgrade() begins. *)
DirectAddTmp(s) ==
    LET p == ses[s].peer
    IN  /\ ses[s].pc = "ds_add"
        /\ connects' = Drop(connects, p)
        /\ tmps' = Put(tmps, p, Entry(s, TRUE))
        /\ \/ Becomes(s, [ses[s] EXCEPT !.pc = "up_tmp", !.direct = TRUE, !.stable = TRUE])
           \/ p \in DOMAIN connects /\ Becomes(s, [Over(s) EXCEPT !.direct = TRUE])
        /\ UNCHANGED <<dhts, stables, results, inbox, hold, outside, requests>>

(* The address did not answer: relay, if any peer can. *)
FallBack(s) ==
    LET p == ses[s].peer
    IN  /\ ses[s].pc = "ds_fall"
        /\ \E g \in Get(p) :
              \/ /\ g.s # Nobody
                 /\ Becomes(s, [ses[s] EXCEPT !.pc = "rs_add", !.via = g.s])
                 /\ UNCHANGED connects
              \/ /\ g.s = Nobody
                 /\ Ends(s)
                 /\ connects' = Drop(connects, p)
        /\ UNCHANGED <<dhts, stables, tmps, results, inbox, hold, outside, requests>>

----------------------------------------------------------------------------
(* A session is started: relay_stable *)

RelayAddTmp(s) ==
    LET p == ses[s].peer
    IN  /\ ses[s].pc = "rs_add"
        /\ connects' = Drop(connects, p)
        /\ results' = Drop(results, p)
        /\ tmps' = Put(tmps, p, Entry(s, FALSE))
        /\ Goto(s, "rs_send")
        /\ UNCHANGED <<dhts, stables, inbox, hold, outside, requests>>

(* The handshake leaves through another session, which may be gone. *)
RelayConnect(s) ==
    /\ ses[s].pc = "rs_send"
    /\ IF Open(ses[s].via)
       THEN Goto(s, "rs_wait") /\ UNCHANGED inbox
       ELSE Ends(s) /\ inbox' = [inbox EXCEPT ![s] = <<>>]
    /\ UNCHANGED <<tables, hold, outside, requests>>

(* The first message is the answer or the end of it. *)
RelayAnswer(s) ==
    LET m == Head(inbox[s])
    IN  /\ ses[s].pc = "rs_wait" /\ inbox[s] # <<>>
        /\ \/ /\ m.type = "RelayResult"
              /\ Becomes(s, [ses[s] EXCEPT !.pc = "up_tmp", !.via = m.via, !.stable = TRUE])
              /\ inbox' = [inbox EXCEPT ![s] = Tail(@)]
           \/ /\ m.type = "RelayResult" /\ ~Open(m.via)
              /\ Ends(s)
              /\ inbox' = [inbox EXCEPT ![s] = <<>>]
           \/ /\ m.type # "RelayResult"
              /\ Goto(s, "rs_fail")
              /\ inbox' = [inbox EXCEPT ![s] = Tail(@)]
        /\ UNCHANGED <<tables, hold, outside, requests>>

(* Ten seconds passed, or the answer came from another peer or with an
   unusable key. *)
RelayTimeout(s) ==
    /\ ses[s].pc = "rs_wait"
    /\ Goto(s, "rs_fail")
    /\ UNCHANGED <<tables, inbox, hold, outside, requests>>

(* Faulty: the handshake is tried again, for ever. *)
RelayRetries(s) ==
    /\ ses[s].pc = "rs_fail"
    /\ Goto(s, "rs_send")
    /\ UNCHANGED <<tables, inbox, hold, outside, requests>>

RelayFails(s) ==
    /\ ses[s].pc = "rs_fail"
    /\ tmps' = Drop(tmps, ses[s].peer)
    /\ Ends(s)
    /\ inbox' = [inbox EXCEPT ![s] = <<>>]
    /\ UNCHANGED <<dhts, stables, connects, results, hold, outside, requests>>

----------------------------------------------------------------------------
(* upgrade: the entry moves, in two locks, from tmps or the DHT to stables *)

(* forever() returns and listen() goes on with close(true). *)
Exit(s) ==
    /\ Goto(s, "ct")
    /\ inbox' = [inbox EXCEPT ![s] = <<>>]

Value(e) == [s |-> e.s, direct |-> e.direct]

UpgradeTake(s) ==
    LET p == ses[s].peer
    IN  /\ ses[s].pc = "up_tmp"
        /\ hold' = [hold EXCEPT ![s] = IF p \in DOMAIN tmps THEN Value(tmps[p]) ELSE Nobody]
        /\ tmps' = Drop(tmps, p)
        /\ Goto(s, "up_list")
        /\ UNCHANGED <<dhts, stables, connects, results, inbox, outside, requests>>

(* What follows upgrade(): its caller, whose inbox holds q by now. *)
Upgraded(s, q) ==
    IF ses[s].force
    THEN Goto(s, "ct") /\ inbox' = [q EXCEPT ![s] = <<>>]
    ELSE /\ Becomes(s, [ses[s] EXCEPT !.pc = "run", !.listening = TRUE])
         /\ inbox' = q

(* add_stable asks the session it replaces to close, if it has room. *)
UpgradeAdd(s) ==
    LET p == ses[s].peer
        old == stables[p].s
    IN  /\ ses[s].pc = "up_list" /\ hold[s] # Nobody
        /\ stables' = Put(stables, p, hold[s])
        /\ hold' = [hold EXCEPT ![s] = Nobody]
        /\ Upgraded(s, IF p \in DOMAIN stables /\ Open(old) /\ Len(inbox[old]) < CHANNEL
                       THEN [inbox EXCEPT ![old] = Append(@, Msg("Close"))]
                       ELSE inbox)
        /\ UNCHANGED <<dhts, tmps, connects, results, outside, requests>>

(* Faulty: the entry is copied from the DHT. *)
UpgradeCopiesDht(s) ==
    LET p == ses[s].peer
    IN  /\ ses[s].pc = "up_list" /\ hold[s] = Nobody
        /\ p \in DOMAIN dhts
        /\ stables' = Put(stables, p, [s |-> dhts[p], direct |-> TRUE])
        /\ Upgraded(s, inbox)
        /\ UNCHANGED <<dhts, tmps, connects, results, hold, outside, requests>>

UpgradeDht(s) ==
    LET p == ses[s].peer
    IN  /\ ses[s].pc = "up_list" /\ hold[s] = Nobody
        /\ p \in DOMAIN dhts
        /\ dhts' = Drop(dhts, p)
        /\ stables' = Put(stables, p, [s |-> dhts[p], direct |-> TRUE])
        /\ Upgraded(s, inbox)
        /\ UNCHANGED <<tmps, connects, results, hold, outside, requests>>

(* Faulty: the error of an upgrade is ignored. *)
UpgradeErrorIgnored(s) ==
    /\ ses[s].pc = "up_list" /\ hold[s] = Nobody
    /\ ses[s].peer \notin DOMAIN dhts
    /\ Upgraded(s, inbox)
    /\ UNCHANGED <<tables, hold, outside, requests>>

(* Neither table has the peer: forever() fails, or direct_stable and
   relay_stable return without close(). *)
UpgradeFails(s) ==
    /\ ses[s].pc = "up_list" /\ hold[s] = Nobody
    /\ ses[s].peer \notin DOMAIN dhts
    /\ IF ses[s].listening THEN Exit(s)
       ELSE Ends(s) /\ inbox' = [inbox EXCEPT ![s] = <<>>]
    /\ UNCHANGED <<tables, hold, outside, requests>>

----------------------------------------------------------------------------
(* forever: messages of the inbox *)

Take(s, type) ==
    /\ ses[s].pc = "run"
    /\ inbox[s] # <<>> /\ Head(inbox[s]).type = type

Rest(s) == inbox' = [inbox EXCEPT ![s] = Tail(@)]

(* close(false), up to its first lock. *)
CloseFalse(s) ==
    /\ \/ ses[s].stable /\ ses[s].direct
          /\ Becomes(s, [ses[s] EXCEPT !.pc = "cf_stable1", !.told = @ + 1])
       \/ ses[s].stable /\ ~ses[s].direct
          /\ Becomes(s, [ses[s] EXCEPT !.pc = "ct", !.told = @ + 1])
       \/ ~ses[s].stable /\ ses[s].direct /\ Goto(s, "cf_tmp1")
       \/ ~ses[s].stable /\ ~ses[s].direct /\ Goto(s, "cf_relay")
    /\ inbox' = [inbox EXCEPT ![s] = IF ses[s].stable /\ ~ses[s].direct THEN <<>> ELSE Tail(@)]
    /\ UNCHANGED <<tables, hold, outside, requests>>

HandleStableConnect(s) ==
    /\ Take(s, "StableConnect")
    /\ Rest(s)
    /\ IF ses[s].stable THEN UNCHANGED ses
       ELSE Becomes(s, [ses[s] EXCEPT !.pc = "up_tmp", !.stable = TRUE])
    /\ UNCHANGED <<tables, hold, outside, requests>>

HandleStableResult(s) ==
    LET m == Head(inbox[s])
    IN  /\ Take(s, "StableResult")
        /\ \/ /\ ~ses[s].stable /\ m.ok
              /\ Rest(s)
              /\ Becomes(s, [ses[s] EXCEPT !.pc = "up_tmp", !.stable = TRUE, !.force = m.force])
              /\ UNCHANGED <<tables, hold, outside, requests>>
           \/ ~ses[s].stable /\ ~m.ok /\ CloseFalse(s)
           \/ /\ ses[s].stable
              /\ IF m.force THEN Exit(s) ELSE Rest(s) /\ UNCHANGED ses
              /\ UNCHANGED <<tables, hold, outside, requests>>

HandleRelayResult(s) ==
    /\ Take(s, "RelayResult")
    /\ Rest(s)
    /\ UNCHANGED <<tables, ses, hold, outside, requests>>

(* Faulty: a session that is not stable does not close. *)
CloseOnlyStable(s) ==
    /\ Take(s, "Close")
    /\ \/ ses[s].stable /\ CloseFalse(s)
       \/ ~ses[s].stable /\ Rest(s) /\ UNCHANGED <<tables, ses, hold, outside, requests>>

HandleClose(s) == Take(s, "Close") /\ CloseFalse(s)

(* The relayed session goes on over the new connection, with its old key; its
   entry still says relayed. *)
HandleDirectIncoming(s) ==
    /\ Take(s, "DirectIncoming")
    /\ Rest(s)
    /\ Becomes(s, [ses[s] EXCEPT !.direct = TRUE, !.via = Nobody])
    /\ UNCHANGED <<tables, hold, outside, requests>>

----------------------------------------------------------------------------
(* forever: the endpoint and the heartbeat *)

(* The remote closed, or has not answered four heartbeats, or a direct send
   failed. *)
EndpointClose(s) ==
    /\ ses[s].pc = "run"
    /\ Exit(s)
    /\ UNCHANGED <<tables, hold, outside, requests>>

(* Faulty: the failure of a relayed heartbeat goes unnoticed. *)
Unnoticed(s) == FALSE

(* The heartbeat of a relayed session finds its carrier gone. *)
CarrierGone(s) ==
    /\ ses[s].pc = "run" /\ ~ses[s].direct /\ ~Open(ses[s].via)
    /\ Exit(s)
    /\ UNCHANGED <<tables, hold, outside, requests>>

(* The last sender of the stream of a relayed session was dropped. *)
StreamGone(s) ==
    /\ ses[s].pc = "run" /\ ~ses[s].direct /\ ~HasEntry(s)
    /\ Exit(s)
    /\ UNCHANGED <<tables, hold, outside, requests>>

(* A handshake of q arrives through r: the answer a session in tmps waits for. *)
RelayHandshakeAnswer(r, q) ==
    /\ ses[r].pc = "run" /\ ses[r].direct /\ ses[r].peer # q
    /\ q \in DOMAIN tmps
    /\ Send(tmps[q].s, [Msg("RelayResult") EXCEPT !.via = r])
    /\ UNCHANGED <<tables, ses, hold, outside, requests>>

(* Faulty: a handshake is taken from a relayed session as well. *)
HandshakeAnywhere(r, q, s) ==
    /\ ses[r].pc = "run"
    /\ q \notin DOMAIN tmps
    /\ ses[s].pc = "none"
    /\ ses' = [ses EXCEPT ![r] = [@ EXCEPT !.pc = "rh_add"],
                          ![s] = [@ EXCEPT !.pc = "rh_new", !.peer = q, !.via = r]]
    /\ UNCHANGED <<tables, inbox, hold, outside, requests>>

(* Or the request for a new session, named s, which is put in tmps later. *)
RelayHandshakeNew(r, q, s) ==
    /\ ses[r].pc = "run" /\ ses[r].direct /\ ses[r].peer # q
    /\ q \notin DOMAIN tmps
    /\ ses[s].pc = "none"
    /\ ses' = [ses EXCEPT ![r] = [@ EXCEPT !.pc = "rh_add"],
                          ![s] = [@ EXCEPT !.pc = "rh_new", !.peer = q, !.via = r]]
    /\ UNCHANGED <<tables, inbox, hold, outside, requests>>

(* Faulty: the new session is filed under the peer that relays. *)
SpawnUnderRelay(s) ==
    /\ ses[s].pc = "rh_new"
    /\ tmps' = Put(tmps, ses[ses[s].via].peer, Entry(s, FALSE))
    /\ ses' = [ses EXCEPT ![ses[s].via] = [@ EXCEPT !.pc = "run"],
                          ![s] = [@ EXCEPT !.pc = "run", !.listening = TRUE]]
    /\ UNCHANGED <<dhts, stables, connects, results, inbox, hold, outside, requests>>

RelaySpawn(s) ==
    /\ ses[s].pc = "rh_new"
    /\ tmps' = Put(tmps, ses[s].peer, Entry(s, FALSE))
    /\ ses' = [ses EXCEPT ![ses[s].via] = [@ EXCEPT !.pc = "run"],
                          ![s] = [@ EXCEPT !.pc = "run", !.listening = TRUE]]
    /\ UNCHANGED <<dhts, stables, connects, results, inbox, hold, outside, requests>>

----------------------------------------------------------------------------
(* close(false): the entry moves back to the DHT, and the session ends *)

CloseStableBuffer(s) ==
    LET p == ses[s].peer
    IN  /\ ses[s].pc = "cf_stable1"
        /\ tmps' = Drop(tmps, p)
        /\ connects' = Drop(connects, p)
        /\ results' = Drop(results, p)
        /\ Goto(s, "cf_stable2")
        /\ UNCHANGED <<dhts, stables, inbox, hold, outside, requests>>

(* Faulty: a relayed entry goes to the DHT as well. *)
AnyStableToDht(s) ==
    LET p == ses[s].peer
    IN  /\ ses[s].pc = "cf_stable2"
        /\ stables' = Drop(stables, p)
        /\ IF p \in DOMAIN stables
           THEN \E o \in D!AddOutcome(dhts, p, stables[p].s) : dhts' = o.table
           ELSE dhts' = dhts
        /\ Exit(s)
        /\ UNCHANGED <<tmps, connects, results, hold, outside, requests>>

CloseStableList(s) ==
    LET p == ses[s].peer
    IN  /\ ses[s].pc = "cf_stable2"
        /\ stables' = Drop(stables, p)
        /\ IF p \in DOMAIN stables /\ stables[p].direct
           THEN \E o \in D!AddOutcome(dhts, p, stables[p].s) : dhts' = o.table
           ELSE dhts' = dhts
        /\ Exit(s)
        /\ UNCHANGED <<tmps, connects, results, hold, outside, requests>>

CloseTmpBuffer(s) ==
    LET p == ses[s].peer
    IN  /\ ses[s].pc = "cf_tmp1"
        /\ hold' = [hold EXCEPT ![s] = IF p \in DOMAIN tmps THEN Value(tmps[p]) ELSE Nobody]
        /\ tmps' = Drop(tmps, p)
        /\ Goto(s, "cf_tmp2")
        /\ UNCHANGED <<dhts, stables, connects, results, inbox, outside, requests>>

CloseTmpList(s) ==
    /\ ses[s].pc = "cf_tmp2"
    /\ IF hold[s] # Nobody /\ hold[s].direct
       THEN \E o \in D!AddOutcome(dhts, ses[s].peer, hold[s].s) : dhts' = o.table
       ELSE dhts' = dhts
    /\ hold' = [hold EXCEPT ![s] = Nobody]
    /\ Exit(s)
    /\ UNCHANGED <<stables, tmps, connects, results, outside, requests>>

CloseRelay(s) ==
    /\ ses[s].pc = "cf_relay"
    /\ tmps' = Drop(tmps, ses[s].peer)
    /\ Exit(s)
    /\ UNCHANGED <<dhts, stables, connects, results, hold, outside, requests>>

----------------------------------------------------------------------------
(* close(true): the entries of the peer are removed, and the task ends *)

(* Faulty: the peer stays listed. *)
LeaveListed(s) ==
    /\ ses[s].pc = "ct" /\ ses[s].stable
    /\ Becomes(s, [Over(s) EXCEPT !.told = @ + 1])
    /\ UNCHANGED <<tables, inbox, hold, outside, requests>>

LeaveStable(s) ==
    /\ ses[s].pc = "ct" /\ ses[s].stable
    /\ stables' = Drop(stables, ses[s].peer)
    /\ Becomes(s, [Over(s) EXCEPT !.told = @ + 1])
    /\ UNCHANGED <<dhts, tmps, connects, results, inbox, hold, outside, requests>>

(* Faulty: a direct session is not removed from the DHT. *)
LeaveOnlyTmp(s) ==
    /\ ses[s].pc = "ct" /\ ~ses[s].stable
    /\ tmps' = Drop(tmps, ses[s].peer)
    /\ Ends(s)
    /\ UNCHANGED <<dhts, stables, connects, results, inbox, hold, outside, requests>>

LeaveTmp(s) ==
    /\ ses[s].pc = "ct" /\ ~ses[s].stable
    /\ tmps' = Drop(tmps, ses[s].peer)
    /\ IF ses[s].direct THEN Goto(s, "ct_list") ELSE Ends(s)
    /\ UNCHANGED <<dhts, stables, connects, results, inbox, hold, outside, requests>>

LeaveDht(s) ==
    /\ ses[s].pc = "ct_list"
    /\ dhts' = Drop(dhts, ses[s].peer)
    /\ Ends(s)
    /\ UNCHANGED <<stables, tmps, connects, results, inbox, hold, outside, requests>>

----------------------------------------------------------------------------
(* What the environment of the node does *)
Environment ==
    \/ \E p \in Peer :
          \/ IncomingRelay(p)
          \/ StableConnect(p)
          \/ StableDisconnect(p)
          \/ \E ok, force \in BOOLEAN : StableResult(p, ok, force)
          \/ \E s \in Session :
                \/ IncomingDht(p, s)
                \/ DialAnswered(s, p)
                \/ RelayHandshakeAnswer(s, p)
                \/ \E new \in Session : RelayHandshakeNew(s, p, new)
    \/ \E s \in Session :
          DialRefused(s) \/ DialSilent(s) \/ DialFails(s) \/ EndpointClose(s)

(* What the tasks of the node do by themselves. *)
Serve ==
    /\ ResultGet \/ CheckTmp \/ Buffered \/ \E s \in Session : StartStable(s)
    /\ UNCHANGED requests

Run(s) ==
    \/ AddDht(s) \/ DirectAddTmp(s) \/ FallBack(s)
    \/ RelayAddTmp(s) \/ RelayConnect(s) \/ RelayAnswer(s) \/ RelayTimeout(s) \/ RelayFails(s)
    \/ UpgradeTake(s) \/ UpgradeAdd(s) \/ UpgradeDht(s) \/ UpgradeFails(s)
    \/ HandleStableConnect(s) \/ HandleStableResult(s) \/ HandleRelayResult(s)
    \/ HandleClose(s) \/ HandleDirectIncoming(s)
    \/ RelaySpawn(s)
    \/ CloseStableBuffer(s) \/ CloseStableList(s)
    \/ CloseTmpBuffer(s) \/ CloseTmpList(s) \/ CloseRelay(s)
    \/ LeaveStable(s) \/ LeaveTmp(s) \/ LeaveDht(s)

(* The other branches of the select! of a relayed session. *)
Lost(s) == CarrierGone(s) \/ StreamGone(s)

Next ==
    \/ Environment
    \/ TimerClear
    \/ Serve
    \/ \E s \in Session : Run(s) \/ Lost(s)

Spec == Init /\ [][Next]_vars

(* The runtime runs every task that can run, select! takes every branch that
   stays ready, timeouts expire, and the timers of both loops, which start
   anew with every message, see a pause long enough now and then. *)
Fairness ==
    /\ \A s \in Session : WF_vars(Run(s)) /\ WF_vars(Lost(s))
    /\ WF_vars(Serve)
    /\ SF_vars(TimerClear)

FairSpec == Spec /\ Fairness

----------------------------------------------------------------------------
(* Safety *)

Partial(f, S, T) == DOMAIN f \subseteq S /\ f \in [DOMAIN f -> T]

(* Tables are keyed by peers and hold entries of sessions, no inbox exceeds its
   channel's capacity, and every task is at one of the points of PC. *)
TypeOK ==
    /\ Partial(dhts, Peer, Session)
    /\ Partial(stables, Peer, [s : Session, direct : BOOLEAN])
    /\ Partial(tmps, Peer, [s : Session, direct : BOOLEAN, marked : BOOLEAN])
    /\ Partial(connects, Peer, BOOLEAN)
    /\ Partial(results, Peer, BOOLEAN)
    /\ ses \in [Session -> SessionState]
    /\ inbox \in [Session -> Seq(Message)]
    /\ \A s \in Session : Len(inbox[s]) <= CHANNEL
    /\ hold \in [Session -> [s : Session, direct : BOOLEAN] \cup {Nobody}]
    /\ outside \in [op : {"idle", "connect_tmp", "connect_add", "result_get", "result_tmp",
                          "result_add"},
                    p : Peer \cup {Nobody}, via : Session \cup {Nobody},
                    ok : BOOLEAN, force : BOOLEAN]
    /\ requests \in 0..REQUESTS

(* An entry found under the id of a peer leads to a session with that peer, in
   every table and for an entry on its way between two tables: dht_to_stable,
   Global::upgrade and tmp_to_dht move whatever they find under the id. *)
KeyMatch ==
    /\ \A p \in DOMAIN dhts : ses[dhts[p]].peer = p
    /\ \A p \in DOMAIN stables : ses[stables[p].s].peer = p
    /\ \A p \in DOMAIN tmps : ses[tmps[p].s].peer = p
    /\ \A s \in Session : hold[s] # Nobody => ses[hold[s].s].peer = ses[s].peer

(* The KadValue of a session is moved, never copied: it is in at most one of
   the DHT, stables, tmps and the hands of a task between two locks, so a
   broadcast or a lookup reaches a session once, and dropping the entry of a
   relayed session closes its stream. *)
SingleOwner ==
    /\ \A p \in DOMAIN dhts : \A q \in DOMAIN stables : dhts[p] # stables[q].s
    /\ \A p \in DOMAIN dhts : \A q \in DOMAIN tmps : dhts[p] # tmps[q].s
    /\ \A p \in DOMAIN stables : \A q \in DOMAIN tmps : stables[p].s # tmps[q].s
    /\ \A s \in Session : hold[s] # Nobody =>
          /\ \A p \in DOMAIN dhts : dhts[p] # hold[s].s
          /\ \A p \in DOMAIN stables : stables[p].s # hold[s].s
          /\ \A p \in DOMAIN tmps : tmps[p].s # hold[s].s
          /\ \A t \in Session \ {s} : hold[t] # Nobody => hold[t].s # hold[s].s

(* Only directly connected sessions are in the DHT, whatever entry tmp_to_dht,
   stable_to_dht and dht_to_stable moved there and back: the flag kept in an
   entry says direct only of a direct session. *)
DhtIsDirect ==
    /\ \A p \in DOMAIN dhts : ses[dhts[p]].direct
    /\ \A p \in DOMAIN stables : stables[p].direct => ses[stables[p].s].direct
    /\ \A p \in DOMAIN tmps : tmps[p].direct => ses[tmps[p].s].direct
    /\ \A s \in Session : hold[s] # Nobody /\ hold[s].direct => ses[hold[s].s].direct

(* A relayed session that completed its handshake sends through a session
   with a direct connection to another peer, never through itself. *)
CarrierIsDirect ==
    \A s \in Session : ses[s].pc = "run" /\ ~ses[s].direct =>
        /\ ses[s].via \in Session /\ ses[ses[s].via].direct
        /\ ses[ses[s].via].peer # ses[s].peer

Responsible(t) ==
    ses[t].stable /\ ses[t].pc \in {"run", "rh_add", "cf_stable1", "cf_stable2", "ct"}

(* Every peer listed as stable has a session that is not over and will remove
   it when it closes: upgrade() lists a peer only for a session that listens,
   and a session that listens ends with close(true).  No peer stays listed
   as stable once its sessions are over. *)
StablesGuarded ==
    \A p \in DOMAIN stables : \E t \in Session : ses[t].peer = p /\ Responsible(t)

Alone(s) == \A t \in Session \ {s} : ses[t].peer # ses[s].peer

(* While it is the only session with its peer, a stable session that listens
   is the one the peer list answers with: no timer, no eviction from the DHT
   and no other peer's session takes its entry away. *)
StableListed ==
    \A s \in Session : ses[s].pc = "run" /\ ses[s].stable /\ Alone(s) =>
        ses[s].peer \in DOMAIN stables /\ stables[ses[s].peer].s = s

(* A peer that no stable session has closed on leaves nothing in the DHT: an
   entry of a session that is over is about to be removed by a session of the
   same peer (tmp_to_dht is always followed by close(true)). *)
UnstableGone ==
    \A p \in DOMAIN dhts : ses[dhts[p]].pc = "dead" =>
        \E t \in Session : ses[t].peer = p /\
            (ses[t].told > 0 \/ (~ses[t].stable /\ ses[t].pc \in {"ct", "ct_list"}))

----------------------------------------------------------------------------
(* Liveness *)

Between == PC \ {"none", "ds_wait", "ds_hung", "run", "dead"}

(* A session between two locks, in a relayed handshake, in an upgrade or in
   close() gets to its loop or to its end: no lock order, missing entry or
   lost answer leaves it halfway. *)
SessionProgress ==
    \A s \in Session : ses[s].pc \in Between ~> ses[s].pc \in {"run", "none", "dead"}

(* A Close in the inbox of a running session (StableDisconnect, timer_clear,
   add_stable) is the end of that session, whatever else is queued. *)
CloseServed ==
    \A s \in Session :
        ses[s].pc = "run" /\ (\E i \in DOMAIN inbox[s] : inbox[s][i].type = "Close")
            ~> ses[s].pc = "dead"

(* A relayed session does not outlive the session it sends through, unless it
   becomes direct. *)
CarrierLossEnds ==
    \A s \in Session :
        ses[s].pc = "run" /\ ~ses[s].direct /\ ~Open(ses[s].via)
            ~> ses[s].pc = "dead" \/ ses[s].direct

InTmps(s) == \E p \in DOMAIN tmps : tmps[p].s = s

(* tmps is a waiting room: every session put there leaves it, by an upgrade, a
   close or the second pass of timer_clear, even if its task died without
   removing it. *)
TmpsTransient == \A s \in Session : InTmps(s) ~> ~InTmps(s)

----------------------------------------------------------------------------
(* What the documentation says and the code does not do *)

(* src/types/src/message.rs:38 describes StableLeave as what the application
   gets "when a stable connection's peer leave"; close(false) and the
   close(true) that follows it both send it. *)
LeaveOnce == \A s \in Session : ses[s].told <= 1

is_empty == DOMAIN stables = {} /\ DOMAIN dhts = {}

(* src/types/src/message.rs:51 promises NetworkLost "when network lost all DHT
   network and direct stables"; it is sent when is_empty() holds.  Here: when
   every session is over, is_empty() holds. *)
LostIsSeen == (\A s \in Session : ses[s].pc \in {"none", "dead"}) => is_empty
=============================================================================
