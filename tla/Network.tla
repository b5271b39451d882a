------------------------------ MODULE Network ------------------------------
(***************************************************************************)
(* Several nodes: how requests of the applications travel over direct and  *)
(* relayed sessions (session.rs: send_core_data, handle_core_data,         *)
(* handle_outside, handle_endpoint, relay_stable; server.rs: the loop of   *)
(* SendMessage; peer_list.rs: get, next_closest) and what the applications *)
(* are told (ReceiveMessage).                                              *)
(*                                                                         *)
(* A node keeps its direct sessions (open), the tables dhts, stables and   *)
(* tmps, and a queue link[n][m] of what its session with m has accepted,   *)
(* the inbox of the session and the connection taken together: both are    *)
(* first in first out, and both are lost with the session.  What a relayed *)
(* session receives waits in its `stream`.  Steps that PeerSessions        *)
(* divides at locks are single steps here.                                 *)
(*                                                                         *)
(* A lookup in the DHT answers the peer itself or, if anything, the        *)
(* closest one (DoubleKadTree, ClosestAnswered).  Keys are pairs of halves *)
(* of the asking and the answering end, as in Handshake, so that crossing  *)
(* handshakes give keys that differ.  Heartbeats are left out but for      *)
(* their effect, that a session may end at any time.                       *)
(***************************************************************************)
EXTENDS Naturals, Sequences

CONSTANTS
    Nodes,          \* peer ids
    Nobody,         \* no peer
    Dist,           \* Dist[t][p]: the distance of p from t
    Pairs,          \* bound: whose application makes requests for whom
    Topologies,     \* sets of connections the network may start with
    ONLY_STABLE,    \* Config.only_stable_data
    REQUESTS,       \* bound: requests of the applications
    BREAKS          \* bound: sessions that end by themselves

ASSUME NetworkAssumption ==
    /\ Nobody \notin Nodes /\ Pairs \subseteq Nodes \X Nodes
    /\ Dist \in [Nodes -> [Nodes -> Nat]]
    /\ \A t, p, q \in Nodes :
        /\ Dist[t][p] = 0 <=> p = t
        /\ Dist[t][p] = Dist[t][q] => p = q
    /\ \A T \in Topologies : \A e \in T : \E a, b \in Nodes : a # b /\ e = {a, b}
    /\ ONLY_STABLE \in BOOLEAN
    /\ REQUESTS \in Nat /\ BREAKS \in Nat

VARIABLES
    open,       \* the peers a node has a running direct session with
    up,         \* those of them whose session is_stable
    dhts,       \* the peers listed in its DHT
    stables,    \* its stable sessions, by peer
    tmps,       \* its sessions in the buffer, by peer
    starting,   \* tasks of relay_stable that have not begun
    orphans,    \* those that wait for an answer but lost their entry in tmps
    connects,   \* requests to connect queued in the buffer
    results,    \* results queued in the buffer
    link,       \* what is on its way from a node to a peer
    casting,    \* what of a broadcast has still to be sent
    app,        \* what the application of a node has been told
    asked,      \* all requests of the applications
    breaks,     \* sessions that ended by themselves
    keys        \* halves of keys that were made

direct == <<open, up, dhts>>
tasks == <<starting, orphans, connects, results>>
server == <<casting, asked>>
vars == <<direct, stables, tmps, tasks, link, server, app, breaks, keys>>
----------------------------------------------------------------------------
(* Sessions and messages *)

None == [st |-> "none"]

(* relay_stable while it waits for an answer: its half of the key, the
   delivery id it reports and the queues it took over. *)
Asking(half, tid, cq, rq) ==
    [st |-> "asking", half |-> half, tid |-> tid, cq |-> cq, rq |-> rq,
     stream |-> <<>>]

(* A session that was asked for and waits for the application. *)
Waiting(via, key) == [st |-> "waiting", via |-> via, key |-> key, stream |-> <<>>]

(* The entry of a task that ended without removing it. *)
Dead == [st |-> "dead"]

Direct == [st |-> "direct"]

(* A stable session over a relay; `old` is the one it replaced, which was
   told to close. *)
Relayed(via, key, stream, old) ==
    [st |-> "relayed", via |-> via, key |-> key, stream |-> stream, old |-> old]

(* CoreData: what, the request, whether its sender wants feedback. *)
CoreData(what, req, tid) == [what |-> what, req |-> req, tid |-> tid]

(* EndpointMessage.  Two fields are not part of it and only kept for NoRing:
   the nodes that sent a message on, and whether one of them did so for a
   stable session or without the node before it in its DHT. *)
Data(core) == [t |-> "Data", core |-> core]
RelayData(from, to, data) ==
    [t |-> "RelayData", from |-> from, to |-> to, data |-> data,
     path |-> <<from>>, odd |-> FALSE]
RelayHandshake(from, half, to) ==
    [t |-> "RelayHandshake", from |-> from, half |-> half, to |-> to,
     path |-> <<from>>, odd |-> FALSE]
Close == [t |-> "Close"]

(* The bytes a RelayData carries: encrypted, or as the application gave them. *)
Encrypted(key, core) == [key |-> key, core |-> core]
Plain(req) == [key |-> <<>>, core |-> CoreData("Data", req, FALSE)]

(* ReceiveMessage: the data of an event is the request it was given in, or
   Unread when what the application gets is not what another one sent. *)
Unread == 0
Event(ev, peer, data) == [ev |-> ev, peer |-> peer, data |-> data]
Leave(peer) == Event("StableLeave", peer, Unread)
Delivery(kind, req, ok) == [ev |-> "Delivery", kind |-> kind, req |-> req, ok |-> ok]
----------------------------------------------------------------------------
(* Lookups *)

Closest(S, to) == CHOOSE c \in S : \A e \in S : Dist[to][c] <= Dist[to][e]

(* PeerList::dht_get: the possible answers. *)
dht_get(n, to) ==
    IF to \in dhts[n] THEN {to}
    ELSE IF dhts[n] = {} THEN {Nobody}
    ELSE {Closest(dhts[n], to), Nobody}

IsIt(n, to) == stables[n][to] # None \/ to \in dhts[n]

(* Faulty: a message may go back to where it came from. *)
BackwardNextClosest(n, to, prev) ==
    IF stables[n][to] = Direct THEN {to} ELSE dht_get(n, to)

(* PeerList::next_closest, and the direct session that a message given to
   the session it names is sent on: a relayed one looks into the DHT again. *)
next_closest(n, to, prev) ==
    IF stables[n][to] = Direct THEN {to}
    ELSE IF stables[n][to] # None THEN dht_get(n, to)
    ELSE {IF c = prev THEN Nobody ELSE c : c \in dht_get(n, to)}

(* Session::is_recv_data of a direct session. *)
RecvData(n, p) == ~ONLY_STABLE \/ p \in up[n]
----------------------------------------------------------------------------
(* What a session does with what it sends and receives *)

(* The session whose inbox takes what a session sends. *)
Carrier(p, s) == IF s = Direct THEN p ELSE s.via

(* Session::send_core_data *)
send_core_data(n, p, s, core) ==
    IF s = Direct THEN Data(core) ELSE RelayData(n, p, Encrypted(s.key, core))

Sent(n, p, s, cores) == [i \in DOMAIN cores |-> send_core_data(n, p, s, cores[i])]

(* The queues after a node has put messages into the inbox of its session
   with c.  Nothing arrives at a session that has ended. *)
Put(l, n, c, msgs) ==
    IF c \in open[n] THEN [l EXCEPT ![n][c] = @ \o msgs] ELSE l

Tell(n, events) == app' = [app EXCEPT ![n] = @ \o events]

(* Session::handle_core_data: what the application is told ... *)
Told(p, core, recv) ==
    CASE core.what = "Data" ->
            IF recv THEN <<Event("Data", p, core.req)>> ELSE <<>>
      [] core.what = "Delivery" ->
            IF core.kind = "Data" /\ ~recv THEN <<>>
            ELSE <<Delivery(core.kind, core.req, TRUE)>>
      [] OTHER -> <<Event(core.what, p, core.req)>>

(* ... and what is sent back. *)
Kind(what) == IF what = "ResultConnect" THEN "StableResult" ELSE what

Replied(core, recv) ==
    IF \/ core.what = "Delivery"
       \/ core.what = "Data" /\ ~recv
       \/ ~core.tid
    THEN <<>>
    ELSE <<[what |-> "Delivery", kind |-> Kind(core.what), req |-> core.req]>>

(* A task of relay_stable whose entry is removed or replaced waits on. *)
Orphaned(n, p) ==
    IF tmps[n][p].st = "asking" THEN {[at |-> n, to |-> p, tid |-> tmps[n][p].tid]}
    ELSE {}

(* Session::close(true) of the direct session of n with p, whose queue is q:
   some part of it has been handed to the network.  A session that replaced
   it loses its entry and ends too. *)
CloseDirect(n, p, q) ==
    /\ open' = [open EXCEPT ![n] = @ \ {p}]
    /\ up' = [up EXCEPT ![n] = @ \ {p}]
    /\ \E k \in 0 .. Len(q) :
        IF p \in up[n]
        THEN /\ stables' = [stables EXCEPT ![n][p] = None]
             /\ Tell(n, IF stables[n][p].st = "relayed" THEN <<Leave(p), Leave(p)>>
                        ELSE <<Leave(p)>>)
             /\ link' = [link EXCEPT ![n][p] = Append(SubSeq(q, 1, k), Close), ![p][n] = <<>>]
             /\ UNCHANGED <<dhts, tmps, orphans>>
        ELSE /\ tmps' = [tmps EXCEPT ![n][p] = None]
             /\ orphans' = orphans \cup Orphaned(n, p)
             /\ dhts' = [dhts EXCEPT ![n] = @ \ {p}]
             /\ link' = [link EXCEPT ![n][p] = SubSeq(q, 1, k), ![p][n] = <<>>]
             /\ UNCHANGED <<stables, app>>

(* Session::close(true) of a relayed session, stable or waiting in tmps. *)
CloseEntry(n, p, s) ==
    IF s.st = "relayed"
    THEN /\ stables' = [stables EXCEPT ![n][p] = None]
         /\ Tell(n, <<Leave(p)>>)
         /\ UNCHANGED tmps
    ELSE /\ tmps' = [tmps EXCEPT ![n][p] = None]
         /\ UNCHANGED <<stables, app>>

CloseRelayed(n, p, s) ==
    CloseEntry(n, p, s) /\ UNCHANGED <<direct, orphans, link>>

(* A session sends; a relayed one whose carrier has ended ends with it. *)
SendOver(n, p, s, core) ==
    IF s # Direct /\ s.via \notin open[n] THEN CloseRelayed(n, p, s)
    ELSE /\ link' = Put(link, n, Carrier(p, s), <<send_core_data(n, p, s, core)>>)
         /\ UNCHANGED <<direct, stables, tmps, orphans, app>>

(* Faulty: the entry is listed as it is. *)
RawStabilised(n, p) == IF tmps[n][p] = None THEN Direct ELSE tmps[n][p]

(* Session::upgrade: the entry in tmps becomes stable, or that of the DHT. *)
Stabilised(n, p) ==
    LET e == tmps[n][p]
    IN  IF e = None THEN Direct
        ELSE Relayed(e.via, e.key, e.stream, stables[n][p].st)

Upgrade(n, p, s) ==
    /\ stables' = [stables EXCEPT ![n][p] = Stabilised(n, p)]
    /\ tmps' = [tmps EXCEPT ![n][p] = None]
    /\ dhts' = [dhts EXCEPT ![n] = IF tmps[n][p] = None THEN @ \ {p} ELSE @]
    /\ up' = [up EXCEPT ![n] = IF s = Direct THEN @ \cup {p} ELSE @]
    /\ UNCHANGED <<open, orphans, app>>

(* ... after something was sent; a session that is stable already stays. *)
SendAndUpgrade(n, p, s, core) ==
    IF \/ s = Direct /\ p \notin open[n]
       \/ s = Direct /\ p \in up[n]
       \/ s # Direct /\ (s.st = "relayed" \/ s.via \notin open[n])
    THEN SendOver(n, p, s, core)
    ELSE /\ link' = Put(link, n, Carrier(p, s), <<send_core_data(n, p, s, core)>>)
         /\ Upgrade(n, p, s)

(* Faulty: the opposite is reported. *)
OptimisticGiveUp(n, p) ==
    /\ Tell(n, <<Delivery("StableConnect", tmps[n][p].tid, TRUE)>>)
    /\ tmps' = [tmps EXCEPT ![n][p] = None]
    /\ UNCHANGED <<direct, stables, orphans, link>>

(* relay_stable gives up: the task that owns the entry in tmps. *)
GiveUp(n, p) ==
    /\ Tell(n, <<Delivery("StableConnect", tmps[n][p].tid, FALSE)>>)
    /\ tmps' = [tmps EXCEPT ![n][p] = None]
    /\ UNCHANGED <<direct, stables, orphans, link>>
----------------------------------------------------------------------------
(* Requests of the application (server.rs) *)

Request(kind, n, to) ==
    /\ Len(asked) < REQUESTS
    /\ asked' = Append(asked, [kind |-> kind, from |-> n, to |-> to])
    /\ casting[n] = {}
    /\ kind # "Broadcast" => UNCHANGED casting
    /\ UNCHANGED <<breaks, keys>>

Next1 == Len(asked) + 1

(* The session that PeerList::get finds for a peer it knows. *)
It(n, p) == IF stables[n][p] # None THEN stables[n][p] ELSE Direct

Refuse(n, kind) ==
    /\ Tell(n, <<Delivery(kind, Next1, FALSE)>>)
    /\ UNCHANGED <<direct, stables, tmps, orphans, link>>

(* Nothing comes of a request, and nobody is told. *)
Ignored == UNCHANGED <<direct, stables, tmps, orphans, link, app>>

(* SendMessage::Data *)
SendData(n, to) ==
    /\ Request("Data", n, to)
    /\ UNCHANGED tasks
    /\ \/ /\ to = n
          /\ Tell(n, <<Delivery("Data", Next1, TRUE), Event("Data", n, Next1)>>)
          /\ UNCHANGED <<direct, stables, tmps, link>>
       \/ /\ to # n /\ IsIt(n, to)
          /\ SendOver(n, to, It(n, to), CoreData("Data", Next1, TRUE))
       \/ /\ to # n /\ ~IsIt(n, to)
          /\ \E c \in dht_get(n, to) :
                IF c = Nobody THEN Refuse(n, "Data")
                ELSE /\ link' = Put(link, n, c, <<RelayData(n, to, Plain(Next1))>>)
                     /\ UNCHANGED <<direct, stables, tmps, app>>

(* A request for the session in tmps: one that waits for an answer takes it
   for the end of its attempt. *)
ToTmp(n, to, core) ==
    \/ tmps[n][to].st = "asking" /\ GiveUp(n, to)
    \/ tmps[n][to].st = "waiting" /\ SendAndUpgrade(n, to, tmps[n][to], core)
    \/ tmps[n][to] = Dead /\ Ignored

(* Buffer::add_connect and add_result: the first of a queue starts a task. *)
Enqueue(queue, n, to, via) ==
    /\ starting' = IF queue[n][to] # <<>> THEN starting
                   ELSE starting \cup {[at |-> n, to |-> to, via |-> via, tid |-> Next1]}
    /\ Ignored

(* SendMessage::StableConnect, to a peer without an address *)
SendStableConnect(n, to) ==
    LET core == CoreData("StableConnect", Next1, TRUE)
    IN  /\ Request("StableConnect", n, to)
        /\ UNCHANGED results
        /\ \/ to = n /\ Refuse(n, "StableConnect") /\ UNCHANGED <<starting, connects>>
           \/ /\ to # n /\ IsIt(n, to)
              /\ SendAndUpgrade(n, to, It(n, to), core)
              /\ UNCHANGED <<starting, connects>>
           \/ /\ to # n /\ ~IsIt(n, to)
              /\ \E c \in dht_get(n, to) :
                  \/ c = Nobody /\ Refuse(n, "StableConnect") /\ UNCHANGED <<starting, connects>>
                  \/ /\ c # Nobody /\ tmps[n][to] # None
                     /\ ToTmp(n, to, core)
                     /\ UNCHANGED <<starting, connects>>
                  \/ /\ c # Nobody /\ tmps[n][to] = None
                     /\ connects' = [connects EXCEPT ![n][to] = Append(@, Next1)]
                     /\ Enqueue(connects, n, to, c)

(* Session::handle_outside, StableResult: what a refusal does to a session
   that is not stable, and a forced one to any. *)
SendAndClose(n, p, s, core, force) ==
    LET q == Put(link, n, p, <<send_core_data(n, p, s, core)>>)[n][p]
    IN  IF s = Direct
        THEN IF p \in open[n] /\ (force \/ p \notin up[n]) THEN CloseDirect(n, p, q)
             ELSE SendOver(n, p, s, core)
        ELSE IF s.st = "relayed" /\ ~force THEN SendOver(n, p, s, core)
        ELSE /\ CloseEntry(n, p, s)
             /\ link' = Put(link, n, s.via, <<send_core_data(n, p, s, core)>>)
             /\ UNCHANGED <<direct, orphans>>

Answer(n, p, s, core, ok, force) ==
    IF ok THEN SendAndUpgrade(n, p, s, core) ELSE SendAndClose(n, p, s, core, force)

(* SendMessage::StableResult, to a peer without an address; force is given
   with a refusal only *)
SendStableResult(n, to, ok, force) ==
    LET core == CoreData("StableResult", Next1, TRUE)
    IN  /\ ok => ~force
        /\ Request("StableResult", n, to)
        /\ UNCHANGED connects
        /\ \/ to = n /\ Refuse(n, "StableResult") /\ UNCHANGED <<starting, results>>
           \/ /\ to # n /\ tmps[n][to].st = "asking"
              /\ GiveUp(n, to)
              /\ UNCHANGED <<starting, results>>
           \/ /\ to # n /\ tmps[n][to].st = "waiting"
              /\ Answer(n, to, tmps[n][to], core, ok, force)
              /\ UNCHANGED <<starting, results>>
           \/ to # n /\ tmps[n][to] = Dead /\ Ignored /\ UNCHANGED <<starting, results>>
           \/ /\ to # n /\ tmps[n][to] = None /\ IsIt(n, to)
              /\ Answer(n, to, It(n, to), core, ok, force)
              /\ UNCHANGED <<starting, results>>
           \/ /\ to # n /\ tmps[n][to] = None /\ ~IsIt(n, to)
              /\ \E c \in dht_get(n, to) :
                  \/ c = Nobody /\ Refuse(n, "StableResult") /\ UNCHANGED <<starting, results>>
                  \/ c # Nobody /\ ~ok /\ Ignored /\ UNCHANGED <<starting, results>>
                  \/ /\ c # Nobody /\ ok
                     /\ results' = [results EXCEPT ![n][to] = Append(@, Next1)]
                     /\ Enqueue(results, n, to, c)

(* SendMessage::StableDisconnect: Session::close(false), then close(true).
   A stable direct session puts itself into the DHT and ends all the same. *)
SendStableDisconnect(n, p) ==
    /\ Request("StableDisconnect", n, p)
    /\ \/ /\ ~IsIt(n, p) \/ (It(n, p) = Direct /\ p \notin open[n])
          /\ Ignored
          /\ UNCHANGED tasks
       \/ IsIt(n, p) /\ It(n, p) # Direct /\ CloseRelayed(n, p, It(n, p)) /\ UNCHANGED tasks
       \/ /\ IsIt(n, p) /\ It(n, p) = Direct /\ p \in open[n] /\ p \notin up[n]
          /\ CloseDirect(n, p, link[n][p])
          /\ UNCHANGED <<starting, connects, results>>
       \/ /\ IsIt(n, p) /\ It(n, p) = Direct /\ p \in open[n] /\ p \in up[n]
          /\ open' = [open EXCEPT ![n] = @ \ {p}]
          /\ up' = [up EXCEPT ![n] = @ \ {p}]
          /\ dhts' = [dhts EXCEPT ![n] = @ \cup {p}]
          /\ stables' = [stables EXCEPT ![n][p] = None]
          /\ tmps' = [tmps EXCEPT ![n][p] = None]
          /\ orphans' = orphans \cup Orphaned(n, p)
          /\ connects' = [connects EXCEPT ![n][p] = <<>>]
          /\ results' = [results EXCEPT ![n][p] = <<>>]
          /\ Tell(n, <<Leave(p), Leave(p)>>)
          /\ \E k \in 0 .. Len(link[n][p]) :
                link' = [link EXCEPT ![n][p] = Append(SubSeq(@, 1, k), Close), ![p][n] = <<>>]
          /\ UNCHANGED starting

(* SendMessage::Broadcast, StableAll or Gossip: the sessions are served one
   after the other; no feedback is wanted. *)
SendBroadcast(n, gossip) ==
    /\ Request("Broadcast", n, n)
    /\ casting' = [casting EXCEPT ![n] = [req : {Next1}, to :
            {p \in Nodes : stables[n][p] # None \/ (gossip /\ p \in dhts[n])}]]
    /\ UNCHANGED <<direct, stables, tmps, tasks, link, app>>

Cast(n, c) ==
    /\ c \in casting[n]
    /\ casting' = [casting EXCEPT ![n] = @ \ {c}]
    /\ SendOver(n, c.to, It(n, c.to), CoreData("Data", c.req, FALSE))
    /\ UNCHANGED <<starting, connects, results, asked, breaks, keys>>
----------------------------------------------------------------------------
(* relay_stable *)

(* It takes over the queues, enters tmps and asks through the session that
   was found; if that has ended the entry stays behind. *)
RelayStable(n, task) ==
    LET to == task.to
    IN  /\ task \in starting /\ task.at = n
        /\ keys' = keys + 1
        /\ starting' = starting \ {task}
        /\ connects' = [connects EXCEPT ![n][to] = <<>>]
        /\ results' = [results EXCEPT ![n][to] = <<>>]
        /\ orphans' = orphans \cup Orphaned(n, to)
        /\ tmps' = [tmps EXCEPT ![n][to] =
                IF task.via \in open[n]
                THEN Asking(keys + 1, task.tid, connects[n][to], results[n][to])
                ELSE Dead]
        /\ link' = Put(link, n, task.via, <<RelayHandshake(n, keys + 1, to)>>)
        /\ UNCHANGED <<direct, stables, app, server, breaks>>

(* No answer within 10 s. *)
RelayTimeout(n, to) ==
    /\ tmps[n][to].st = "asking"
    /\ GiveUp(n, to)
    /\ UNCHANGED <<tasks, server, breaks, keys>>

(* The same for a task that has lost its entry: it removes that of another. *)
OrphanTimeout(o) ==
    /\ o \in orphans
    /\ Tell(o.at, <<Delivery("StableConnect", o.tid, FALSE)>>)
    /\ tmps' = [tmps EXCEPT ![o.at][o.to] = None]
    /\ orphans' = (orphans \ {o}) \cup Orphaned(o.at, o.to)
    /\ UNCHANGED <<direct, stables, starting, connects, results, link, server, breaks, keys>>

(* Faulty: the entry, and with it the timer, stays behind. *)
LingeringRelayDone(n, from, half, w) ==
    LET e == tmps[n][from]
        s == Relayed(w, <<e.half, half>>, e.stream, stables[n][from].st)
        cores == [i \in DOMAIN e.cq |-> CoreData("StableConnect", e.cq[i], TRUE)]
              \o [i \in DOMAIN e.rq |-> CoreData("ResultConnect", e.rq[i], TRUE)]
    IN  /\ stables' = [stables EXCEPT ![n][from] = s]
        /\ link' = Put([link EXCEPT ![w][n] = Tail(@)], n, w, Sent(n, from, s, cores))
        /\ UNCHANGED <<tmps, keys>>

(* The answer: what was queued is sent, and the session is stable. *)
RelayDone(n, from, half, w) ==
    LET e == tmps[n][from]
        s == Relayed(w, <<e.half, half>>, e.stream, stables[n][from].st)
        cores == [i \in DOMAIN e.cq |-> CoreData("StableConnect", e.cq[i], TRUE)]
              \o [i \in DOMAIN e.rq |-> CoreData("ResultConnect", e.rq[i], TRUE)]
    IN  /\ stables' = [stables EXCEPT ![n][from] = s]
        /\ tmps' = [tmps EXCEPT ![n][from] = None]
        /\ link' = Put([link EXCEPT ![w][n] = Tail(@)], n, w, Sent(n, from, s, cores))
        /\ UNCHANGED keys
----------------------------------------------------------------------------
(* Session::handle_endpoint of the direct session of n with w *)

Received(n, w, t) ==
    /\ w \in open[n]
    /\ link[w][n] # <<>> /\ Head(link[w][n]).t = t
    /\ UNCHANGED <<server, breaks>>

Taken(n, w) == [link EXCEPT ![w][n] = Tail(@)]

HandleData(n, w) ==
    LET core == Head(link[w][n]).core
    IN  /\ Received(n, w, "Data")
        /\ Tell(n, Told(w, core, RecvData(n, w)))
        /\ link' = Put(Taken(n, w), n, w, Sent(n, w, Direct, Replied(core, RecvData(n, w))))
        /\ UNCHANGED <<direct, stables, tmps, tasks, keys>>

Bytes(data) == IF data.key = <<>> THEN data.core.req ELSE Unread

(* A relayed message for this node goes to the stream of the session with
   its sender; a direct session cannot read it. *)
HandleRelayData(n, w) ==
    LET m == Head(link[w][n])
        held(e) == [e EXCEPT !.stream = Append(@, m.data)]
    IN  /\ Received(n, w, "RelayData") /\ m.to = n
        /\ link' = Taken(n, w)
        /\ IF m.from = w \/ stables[n][m.from] = Direct
           THEN UNCHANGED <<stables, tmps, app>>
           ELSE IF stables[n][m.from] # None
           THEN stables' = [stables EXCEPT ![n][m.from] = held(@)] /\ UNCHANGED <<tmps, app>>
           ELSE IF tmps[n][m.from] # None
           THEN /\ tmps' = [tmps EXCEPT ![n][m.from] = IF @ = Dead THEN @ ELSE held(@)]
                /\ UNCHANGED <<stables, app>>
           ELSE /\ Tell(n, IF RecvData(n, w) THEN <<Event("Data", m.from, Bytes(m.data))>>
                           ELSE <<>>)
                /\ UNCHANGED <<stables, tmps>>
        /\ UNCHANGED <<direct, tasks, keys>>

PassedOn(n, w, m) ==
    [m EXCEPT !.path = Append(@, n),
              !.odd = @ \/ w \notin dhts[n] \/ stables[n][m.to] # None]

(* Faulty: a message is passed on for IsIt and again for the closest. *)
RepeatedForward(n, w) ==
    LET m == Head(link[w][n])
    IN  /\ Received(n, w, "RelayData") \/ Received(n, w, "RelayHandshake")
        /\ m.to # n
        /\ \E c \in next_closest(n, m.to, w) :
            link' = IF c = Nobody THEN Taken(n, w)
                    ELSE Put(Taken(n, w), n, c, <<PassedOn(n, w, m), PassedOn(n, w, m)>>)
        /\ UNCHANGED <<direct, stables, tmps, tasks, app, keys>>

(* A relayed message for another one is passed on, unless the session found
   is with its receiver and this node sent it. *)
HandleForward(n, w) ==
    LET m == Head(link[w][n])
    IN  /\ Received(n, w, "RelayData") \/ Received(n, w, "RelayHandshake")
        /\ m.to # n
        /\ \E c \in next_closest(n, m.to, w) :
            link' = IF c = Nobody \/ (m.from = n /\ IsIt(n, m.to)) THEN Taken(n, w)
                    ELSE Put(Taken(n, w), n, c, <<PassedOn(n, w, m)>>)
        /\ UNCHANGED <<direct, stables, tmps, tasks, app, keys>>

(* Faulty: the sender of a handshake is taken for who brought it. *)
SenderCarries(n, w) ==
    LET m == Head(link[w][n])
    IN  /\ Received(n, w, "RelayHandshake") /\ m.to = n
        /\ m.from # n /\ tmps[n][m.from] = None
        /\ keys' = keys + 1
        /\ tmps' = [tmps EXCEPT ![n][m.from] = Waiting(m.from, <<m.half, keys + 1>>)]
        /\ link' = Put(Taken(n, w), n, w, <<RelayHandshake(n, keys + 1, m.from)>>)
        /\ UNCHANGED <<direct, stables, tasks, app>>

(* A handshake for this node: the answer to one of its own if there is an
   entry in tmps, and a request otherwise. *)
HandleHandshake(n, w) ==
    LET m == Head(link[w][n])
    IN  /\ Received(n, w, "RelayHandshake") /\ m.to = n
        /\ \/ /\ m.from # n /\ tmps[n][m.from].st = "asking"
              /\ RelayDone(n, m.from, m.half, w)
           \/ /\ m.from # n /\ tmps[n][m.from] = None
              /\ keys' = keys + 1
              /\ tmps' = [tmps EXCEPT ![n][m.from] = Waiting(w, <<m.half, keys + 1>>)]
              /\ link' = Put(Taken(n, w), n, w, <<RelayHandshake(n, keys + 1, m.from)>>)
              /\ UNCHANGED stables
           \/ /\ m.from = n \/ tmps[n][m.from].st \in {"waiting", "dead"}
              /\ link' = Taken(n, w)
              /\ UNCHANGED <<stables, tmps, keys>>
        /\ UNCHANGED <<direct, tasks, app>>

HandleClose(n, w) ==
    /\ Received(n, w, "Close")
    /\ CloseDirect(n, w, link[n][w])
    /\ UNCHANGED <<starting, connects, results, keys>>
----------------------------------------------------------------------------
(* Sessions over a relay *)

(* Such a session, stable or waiting in tmps. *)
Over(n, p, s) ==
    \/ s = stables[n][p] /\ s.st = "relayed"
    \/ s = tmps[n][p] /\ s.st = "waiting"

(* handle_endpoint of a relayed session: the head of its stream. *)
HandleStream(n, p, s) ==
    LET data == Head(s.stream)
        recv == s.st = "relayed"
        readable == data.key = s.key
        told == IF readable THEN Told(p, data.core, recv) ELSE <<>>
        reply == IF readable THEN Replied(data.core, recv) ELSE <<>>
        rest == [s EXCEPT !.stream = Tail(@)]
    IN  /\ Over(n, p, s) /\ s.stream # <<>>
        /\ IF reply # <<>> /\ s.via \notin open[n]
           THEN \* the reply fails and the session ends
                /\ Tell(n, told \o IF recv THEN <<Leave(p)>> ELSE <<>>)
                /\ stables' = IF recv THEN [stables EXCEPT ![n][p] = None] ELSE stables
                /\ tmps' = IF recv THEN tmps ELSE [tmps EXCEPT ![n][p] = None]
                /\ UNCHANGED link
           ELSE /\ Tell(n, told)
                /\ stables' = IF recv THEN [stables EXCEPT ![n][p] = rest] ELSE stables
                /\ tmps' = IF recv THEN tmps ELSE [tmps EXCEPT ![n][p] = rest]
                /\ link' = Put(link, n, s.via, Sent(n, p, s, reply))
        /\ UNCHANGED <<direct, tasks, server, breaks, keys>>

(* The heartbeat of a session whose carrier has ended fails. *)
CarrierLost(n, p, s) ==
    /\ Over(n, p, s) /\ s.via \notin open[n]
    /\ CloseRelayed(n, p, s)
    /\ UNCHANGED <<starting, connects, results, server, breaks, keys>>

(* A session that was replaced handles its Close and removes the entry of
   the one that replaced it, which loses its stream and ends too. *)
ReplacedCloses(n, p) ==
    LET s == stables[n][p]
    IN  /\ s.st = "relayed" /\ s.old # "none"
        /\ stables' = [stables EXCEPT ![n][p] = None]
        /\ Tell(n, <<Leave(p), Leave(p), Leave(p)>>)
        /\ IF s.old = "relayed"
           THEN UNCHANGED <<direct, tmps, orphans, connects, results, link>>
           ELSE /\ open' = [open EXCEPT ![n] = @ \ {p}]
                /\ up' = [up EXCEPT ![n] = @ \ {p}]
                /\ tmps' = [tmps EXCEPT ![n][p] = None]
                /\ orphans' = orphans \cup Orphaned(n, p)
                /\ connects' = [connects EXCEPT ![n][p] = <<>>]
                /\ results' = [results EXCEPT ![n][p] = <<>>]
                /\ \E k \in 0 .. Len(link[n][p]) :
                    link' = [link EXCEPT ![n][p] = Append(SubSeq(@, 1, k), Close), ![p][n] = <<>>]
                /\ UNCHANGED dhts
        /\ UNCHANGED <<starting, server, breaks, keys>>
----------------------------------------------------------------------------
(* Time and the network *)

(* Four heartbeats without an answer, or Buffer::timer_clear of a session
   the application has not answered. *)
RelayedBreaks(n, p, s) ==
    /\ breaks < BREAKS
    /\ breaks' = breaks + 1
    /\ Over(n, p, s)
    /\ CloseRelayed(n, p, s)
    /\ UNCHANGED <<starting, connects, results, server, keys>>

(* Buffer::timer_clear of an entry that was left behind. *)
ClearDead(n, p) ==
    /\ tmps[n][p] = Dead
    /\ tmps' = [tmps EXCEPT ![n][p] = None]
    /\ UNCHANGED <<direct, stables, tasks, link, app, server, breaks, keys>>

(* A direct session ends: the connection broke, or the other end is gone. *)
DirectBreaks(n, p) ==
    /\ p \in open[n] /\ breaks < BREAKS
    /\ breaks' = breaks + 1
    /\ CloseDirect(n, p, link[n][p])
    /\ UNCHANGED <<starting, connects, results, server, keys>>

OtherEndGone(n, p) ==
    /\ p \in open[n] /\ n \notin open[p] /\ link[p][n] = <<>>
    /\ CloseDirect(n, p, link[n][p])
    /\ UNCHANGED <<starting, connects, results, server, breaks, keys>>
----------------------------------------------------------------------------
Init ==
    /\ \E T \in Topologies : open = [n \in Nodes |-> {m \in Nodes : {n, m} \in T}]
    /\ up = [n \in Nodes |-> {}]
    /\ dhts = open
    /\ stables = [n \in Nodes |-> [m \in Nodes |-> None]]
    /\ tmps = stables
    /\ starting = {}
    /\ orphans = {}
    /\ connects = [n \in Nodes |-> [m \in Nodes |-> <<>>]]
    /\ results = connects
    /\ link = connects
    /\ casting = [n \in Nodes |-> {}]
    /\ app = [n \in Nodes |-> <<>>]
    /\ asked = <<>>
    /\ breaks = 0
    /\ keys = 0

App ==
    \E n, p \in Nodes :
        /\ <<n, p>> \in Pairs
        /\ \/ SendData(n, p)
           \/ SendStableConnect(n, p)
           \/ \E ok, force \in BOOLEAN : SendStableResult(n, p, ok, force)
           \/ SendStableDisconnect(n, p)
           \/ \E gossip \in BOOLEAN : p = n /\ SendBroadcast(n, gossip)

(* What one end of a connection does with what it has received. *)
Receive(n, w) ==
    /\ link[w][n] # <<>>
    /\ \/ HandleData(n, w)
       \/ HandleRelayData(n, w)
       \/ HandleForward(n, w)
       \/ HandleHandshake(n, w)
       \/ HandleClose(n, w)

(* The other steps a node takes by itself for a peer. *)
Work(n, p) ==
    \/ \E c \in casting[n] : c.to = p /\ Cast(n, c)
    \/ \E task \in starting : task.to = p /\ RelayStable(n, task)
    \/ RelayTimeout(n, p)
    \/ \E o \in orphans : o.at = n /\ o.to = p /\ OrphanTimeout(o)
    \/ \E s \in {stables[n][p], tmps[n][p]} : HandleStream(n, p, s) \/ CarrierLost(n, p, s)
    \/ ReplacedCloses(n, p)
    \/ ClearDead(n, p)
    \/ OtherEndGone(n, p)

Break ==
    \E n, p \in Nodes :
        \/ \E s \in {stables[n][p], tmps[n][p]} : RelayedBreaks(n, p, s)
        \/ DirectBreaks(n, p)

Next == App \/ Break \/ \E n, p \in Nodes : Receive(n, p) \/ Work(n, p)

Spec == Init /\ [][Next]_vars
----------------------------------------------------------------------------
(* Properties *)

Whats == {"Data", "StableConnect", "StableResult", "ResultConnect"}
Kinds == {"Data", "StableConnect", "StableResult"}

Cores == [what : Whats, req : Nat, tid : BOOLEAN]
    \cup [what : {"Delivery"}, kind : Kinds, req : Nat]

Payloads == [key : Seq(Nat), core : Cores]

Messages ==
    [t : {"Data"}, core : Cores] \cup {Close}
    \cup [t : {"RelayData"}, from : Nodes, to : Nodes, data : Payloads,
          path : Seq(Nodes), odd : BOOLEAN]
    \cup [t : {"RelayHandshake"}, from : Nodes, half : Nat, to : Nodes,
          path : Seq(Nodes), odd : BOOLEAN]

TmpEntries ==
    {None, Dead}
    \cup [st : {"asking"}, half : Nat, tid : Nat, cq : Seq(Nat), rq : Seq(Nat),
          stream : Seq(Payloads)]
    \cup [st : {"waiting"}, via : Nodes, key : Seq(Nat), stream : Seq(Payloads)]

StableEntries ==
    {None, Direct}
    \cup [st : {"relayed"}, via : Nodes, key : Seq(Nat), stream : Seq(Payloads),
          old : {"none", "direct", "relayed"}]

ReceiveMessages ==
    [ev : Whats \cup {"StableLeave"}, peer : Nodes, data : Nat]
    \cup [ev : {"Delivery"}, kind : Kinds, req : Nat, ok : BOOLEAN]

(* Types of the state. *)
TypeOK ==
    /\ open \in [Nodes -> SUBSET Nodes]
    /\ up \in [Nodes -> SUBSET Nodes]
    /\ dhts \in [Nodes -> SUBSET Nodes]
    /\ stables \in [Nodes -> [Nodes -> StableEntries]]
    /\ tmps \in [Nodes -> [Nodes -> TmpEntries]]
    /\ starting \subseteq [at : Nodes, to : Nodes, via : Nodes, tid : Nat]
    /\ orphans \subseteq [at : Nodes, to : Nodes, tid : Nat]
    /\ connects \in [Nodes -> [Nodes -> Seq(Nat)]]
    /\ results \in [Nodes -> [Nodes -> Seq(Nat)]]
    /\ link \in [Nodes -> [Nodes -> Seq(Messages)]]
    /\ casting \in [Nodes -> SUBSET [req : Nat, to : Nodes]]
    /\ app \in [Nodes -> Seq(ReceiveMessages)]
    /\ asked \in Seq([kind : Kinds \cup {"StableDisconnect", "Broadcast"},
                      from : Nodes, to : Nodes])
    /\ breaks \in 0 .. BREAKS
    /\ keys \in Nat

(* Feedback of the application: what it was told of one of its requests. *)
Feedback(n, r) == {i \in DOMAIN app[n] : app[n][i].ev = "Delivery" /\ app[n][i].req = r}

(* How often an application was given a request. *)
Given(n, r) ==
    {i \in DOMAIN app[n] : app[n][i].ev \notin {"Delivery", "StableLeave"} /\ app[n][i].data = r}

(* A request to connect and a result for the same peer each start a task,
   and the first to run takes the requests of both. *)
Paired(r) ==
    \E q \in DOMAIN asked \ {r} :
        /\ asked[q].from = asked[r].from /\ asked[q].to = asked[r].to
        /\ {asked[q].kind, asked[r].kind} = {"StableConnect", "StableResult"}

(* Delivered is given: "delivered" is only reported to the application that
   made a request, and only when the one it was for has been given it
   (session.rs 463-552): no reply is made, kept or passed to another session
   that would say so too early. *)
DeliveredGiven ==
    \A n \in Nodes : \A i \in DOMAIN app[n] :
        app[n][i].ev = "Delivery" /\ app[n][i].ok =>
            LET r == app[n][i].req
            IN  r \in DOMAIN asked /\ asked[r].from = n /\ Given(asked[r].to, r) # {}

(* Failed is not given: but for a request to connect and a result that were
   asked for together, an application that is told of a failure can rely on
   it, and is never told twice of one request (session.rs 250-265). *)
FailedNotGiven ==
    \A n \in Nodes : \A r \in DOMAIN asked :
        \/ Paired(r)
        \/ /\ \A i, j \in Feedback(n, r) : i = j
           /\ \A i \in Feedback(n, r) : ~app[n][i].ok => Given(asked[r].to, r) = {}

(* A request is given to an application once at most, and to no other than
   the one it is for, however often sessions are made, replaced or lost
   between them. *)
GivenOnce ==
    \A n \in Nodes : \A r \in DOMAIN asked :
        /\ \A i, j \in Given(n, r) : i = j
        /\ Given(n, r) # {} => asked[r].to = n \/ asked[r].kind = "Broadcast"

(* A session over a relay is never carried by a session with its own peer:
   the branch "RELAY TO SELF, MUST DIRECTLY" (session.rs 654-658) and
   failure_send are not reached. *)
NeverRelayToSelf ==
    \A n, p \in Nodes :
        /\ \A s \in {stables[n][p], tmps[n][p]} : Over(n, p, s) => s.via \notin {p, n}
        /\ \A i \in DOMAIN link[n][p] :
            link[n][p][i].t \in {"RelayData", "RelayHandshake"} =>
                ~(link[n][p][i].from = n /\ link[n][p][i].to = p)

(* No relayed message crosses a connection twice in the same direction.  It
   carries no count of its hops: what keeps it from going round is that no
   node passes it back (kad.rs 182-186) and that each asks for the closest of
   its peers, the one before it among them.  A node that has that one among
   its stable sessions and not in its DHT breaks the argument (odd). *)
NoRing ==
    \A n, p \in Nodes : \A k \in DOMAIN link[n][p] :
        LET m == link[n][p][k]
            path == Append(m.path, p)
        IN  m.t \in {"RelayData", "RelayHandshake"} /\ ~m.odd =>
                \A i, j \in 1 .. Len(path) - 1 :
                    path[i] = path[j] /\ path[i + 1] = path[j + 1] => i = j

(* Config.only_stable_data: "If `only_stable_data` is true, only receive
   stable connected peer's data" (config.rs 30).  A relayed message is judged
   by the session that brought it (session.rs 773), not by its sender. *)
OnlyStableData ==
    [][ONLY_STABLE =>
        \A n \in Nodes : \A i \in DOMAIN app'[n] \ DOMAIN app[n] :
            app'[n][i].ev = "Data" /\ app'[n][i].peer # n =>
                stables[n][app'[n][i].peer] # None]_vars
=============================================================================
