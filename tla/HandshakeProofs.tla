-------------------------- MODULE HandshakeProofs --------------------------
(***************************************************************************)
(* Proofs about Handshake, for any number of nodes, keys and missed        *)
(* heartbeats: the two ends of a handshake agree on a nonce, and so do the *)
(* two ends of a connection.                                               *)
(***************************************************************************)
EXTENDS Handshake, TLAPS

Asks == {"begin", "waiting", "connect", "stable_connect"}

Live(k) == ses[k].pc \in Asks \cup {"run"}

(* The nonce that session p sends, as long as it lives: its own if it asked,
   and the one it answers with otherwise. *)
Published(p, nonce) ==
    nonce = IF ses[p].asked THEN p ELSE ses[p].key.nonce

(* The key of a session that waits for an answer is as it was drawn; that of
   one that runs was completed with the half and the nonce of some session. *)
Waits(k) ==
    /\ ses[k].key = session_key(k) /\ ses[k].asked /\ ses[k].owner # ses[k].peer
    /\ IF ses[k].pc \in {"begin", "waiting"} THEN ~ses[k].direct
       ELSE ses[k].direct /\ ses[k].stream = k

Completed(k, p) ==
    /\ ses[k].key.sk = k /\ ses[k].key.cipher = {k, p} /\ ses[k].key.nonce \in Session
    /\ ses[p].pc # "none"
    /\ Live(p) => Published(p, ses[k].key.nonce)

Keys ==
    \A k \in Session :
        /\ ses[k].pc \in Asks => Waits(k)
        /\ Running(k) => \E p \in Session : Completed(k, p)

(* A handshake carries the half and the nonce of the session that sent it. *)
Carries(h) ==
    /\ h.from # h.to
    /\ ses[h.dh.pk].pc # "none"
    /\ Live(h.dh.pk) => Published(h.dh.pk, h.dh.nonce)

Sent == \A h \in shakes : Carries(h)

(* The sessions that a connection started at its other end. *)
Answerers(s) == {k \in Session \ {s} : ses[k].direct /\ ses[k].stream = s}

(* A handshake on the connection that session s dialled: its own, which nobody
   answered yet, or the answer. *)
OnStream(h, s) ==
    /\ ses[s].pc \in {"connect", "stable_connect", "dead"}
    /\ h.dh.nonce = s
    /\ h.from = ses[s].owner => h.dh.pk = s /\ Answerers(s) = {}
    /\ Answerers(s) \subseteq {h.dh.pk}

Answered(k, s) ==
    /\ ses[s].pc # "none"
    /\ Running(k) /\ ses[k].key.cipher = {k, s} /\ ses[k].key.nonce = s
    /\ Answerers(s) = {k}

Dialled(s) ==
    /\ ses[s].key.nonce = s
    /\ \E k \in Session : ses[s].key.cipher = {s, k} /\ Answerers(s) \subseteq {k}

StreamOK(s) ==
    /\ \A g, h \in shakes : g.stream = s /\ h.stream = s => g = h
    /\ \A h \in shakes : h.stream = s => OnStream(h, s)
    /\ \A k \in Answerers(s) : Answered(k, s)
    /\ Running(s) /\ ses[s].direct /\ ses[s].stream = s => Dialled(s)

Streams == \A s \in Session : StreamOK(s)

IInv == TypeOK /\ Keys /\ Sent /\ Streams
----------------------------------------------------------------------------
(* What a step does to a session: nothing that the invariant sees, ... *)
Alike(k) ==
    /\ ses'[k].pc = ses[k].pc /\ ses'[k].key = ses[k].key /\ ses'[k].asked = ses[k].asked
    /\ ses'[k].owner = ses[k].owner /\ ses'[k].peer = ses[k].peer
    /\ ses'[k].direct = ses[k].direct
    /\ ses[k].direct => ses'[k].stream = ses[k].stream

(* ... or its end, ... *)
Ends(k) ==
    /\ ses[k].pc # "none" /\ ses'[k].pc = "dead"
    /\ ses'[k].owner = ses[k].owner /\ ses'[k].stream = 0

Quiet == shakes' \subseteq shakes /\ \A k \in Session : Alike(k) \/ Ends(k)

(* ... or its start, or the answer it waited for. *)
Turns(k) ==
    /\ ses[k].pc \in Asks \cup {"none"} /\ ses'[k].pc # "none"
    /\ ses[k].pc \in Asks => ses'[k].owner = ses[k].owner
    /\ ses[k].pc \in Asks /\ Live(k)' => ses'[k].asked
    /\ \A j \in Session \ {k} : Alike(j)

(* The nonce that a session sends stays the same while it lives. *)
LEMMA PublishedKept ==
    ASSUME Keys, NEW p \in Session, NEW x, ses[p].pc # "none", Live(p) => Published(p, x),
           Alike(p) \/ Ends(p) \/ Turns(p)
    PROVE  ses'[p].pc # "none" /\ (Live(p)' => Published(p, x)')
<1>1. CASE Alike(p)
  BY <1>1 DEF Alike, Live, Published
<1>2. CASE Ends(p)
  BY <1>2 DEF Ends, Live, Asks
<1>3. CASE Turns(p)
  <2>1. ses[p].pc \in Asks /\ ses'[p].pc # "none"
    BY <1>3 DEF Turns
  <2>2. x = p
    BY <2>1 DEF Keys, Waits, Live, Published
  <2>3. Live(p)' => ses'[p].asked
    BY <1>3, <2>1 DEF Turns
  <2> QED BY <2>1, <2>2, <2>3 DEF Published
<1> QED BY <1>1, <1>2, <1>3

(* A step keeps what a session that it does not touch knows of others. *)
LEMMA AlikeKeys ==
    ASSUME Keys, NEW k \in Session, Alike(k),
           \A p \in Session : Alike(p) \/ Ends(p) \/ Turns(p)
    PROVE  /\ (ses[k].pc \in Asks)' => Waits(k)'
           /\ Running(k)' => \E p \in Session : Completed(k, p)'
<1>1. (ses[k].pc \in Asks)' => Waits(k)'
  BY DEF Alike, Keys, Waits
<1>2. ASSUME Running(k)' PROVE \E p \in Session : Completed(k, p)'
  <2>1. PICK p \in Session : Completed(k, p)
    BY ZenonT(40), <1>2 DEF Alike, Running, Keys
  <2>2. PICK x \in Session : x = ses[k].key.nonce
    BY <2>1 DEF Completed
  <2>3. ses'[p].pc # "none" /\ (Live(p)' => Published(p, x)')
    BY <2>1, <2>2, PublishedKept DEF Completed
  <2>4. Completed(k, p)'
    BY <2>1, <2>2, <2>3 DEF Completed, Alike
  <2> QED BY <2>4
<1> QED BY <1>1, <1>2

(* Handshakes on their way still carry what their sender sent. *)
LEMMA SentKept ==
    ASSUME TypeOK, Keys, Sent, \A p \in Session : Alike(p) \/ Ends(p) \/ Turns(p), NEW h \in shakes
    PROVE  Carries(h)'
<1>1. PICK p \in Session, x \in Session : p = h.dh.pk /\ x = h.dh.nonce
  BY DEF TypeOK, ShakeType
<1>2. Carries(h)
  BY DEF Sent
<1>3. ses'[p].pc # "none" /\ (Live(p)' => Published(p, x)')
  BY <1>1, <1>2, PublishedKept DEF Carries
<1> QED BY <1>1, <1>2, <1>3 DEF Carries

(* A stream that a step takes no part in: the session k that turns is not
   started by it, and no handshake is added to it. *)
LEMMA StreamKept ==
    ASSUME Streams, NEW s \in Session, \A p \in Session : Alike(p) \/ Ends(p) \/ Turns(p),
           \A h \in shakes' : h.stream = s => h \in shakes,
           Answerers(s)' \subseteq Answerers(s),
           \/ Alike(s)
           \/ Ends(s)
           \/ /\ Turns(s)
              /\ \/ ses[s].pc = "none"
                 \/ (ses[s].pc \in {"connect", "stable_connect", "dead"})'
                 \/ \A h \in shakes' : h.stream # s
              /\ (Running(s) /\ ses[s].direct /\ ses[s].stream = s)' => Dialled(s)'
    PROVE  StreamOK(s)'
<1>1. StreamOK(s)
  BY DEF Streams
<1>2. s # 0
  BY DEF Session
<1>3. \A k \in Answerers(s)' : Alike(k) /\ k \in Answerers(s) /\ Answered(k, s)
  BY <1>1, <1>2 DEF Answerers, Ends, Turns, StreamOK, Answered, Running, Asks
<1>4. ses[s].pc # "none" => ses'[s].pc # "none"
  BY DEF Alike, Ends, Turns
<1>5. \A k \in Answerers(s)' : Answered(k, s)'
  <2> TAKE k \in Answerers(s)'
  <2>1. Alike(k) /\ Answered(k, s)
    BY <1>3
  <2>2. Answerers(s)' = {k}
    BY <2>1 DEF Answered
  <2> QED BY <1>4, <2>1, <2>2 DEF Answered, Alike, Running
<1>6. \A g, h \in shakes' : g.stream = s /\ h.stream = s => g = h
  BY <1>1 DEF StreamOK
<1>7. ASSUME NEW h \in shakes', h.stream = s PROVE OnStream(h, s)'
  <2>1. OnStream(h, s)
    BY <1>1, <1>7 DEF StreamOK
  <2>2. CASE Alike(s)
    BY <2>1, <2>2 DEF Alike, OnStream
  <2>3. CASE Ends(s)
    BY <2>1, <2>3 DEF Ends, OnStream
  <2>4. CASE ~Alike(s) /\ ~Ends(s)
    <3>1. ses[s].pc \in Asks
      BY <2>1, <2>4 DEF Turns, OnStream
    <3>2. ses'[s].pc \in {"connect", "stable_connect", "dead"} /\ ses'[s].owner = ses[s].owner
      BY <1>7, <2>4, <3>1 DEF Turns, Asks
    <3> QED BY <2>1, <3>2 DEF OnStream
  <2> QED BY <2>2, <2>3, <2>4
<1>8. ASSUME (Running(s) /\ ses[s].direct /\ ses[s].stream = s)' PROVE Dialled(s)'
  <2>1. CASE Alike(s)
    BY <1>1, <1>8, <2>1 DEF Alike, StreamOK, Running, Dialled
  <2>2. CASE Ends(s)
    BY <1>8, <2>2 DEF Ends, Running
  <2>3. CASE ~Alike(s) /\ ~Ends(s)
    BY <1>8, <2>3
  <2> QED BY <2>1, <2>2, <2>3
<1> QED BY <1>5, <1>6, <1>7, <1>8 DEF StreamOK

(* Steps that only end sessions or change what the invariant does not see. *)
LEMMA QuietStep ==
    ASSUME TypeOK, Keys, Sent, Streams, Quiet
    PROVE  Keys' /\ Sent' /\ Streams'
<1>1. \A p \in Session : Alike(p) \/ Ends(p)
  BY DEF Quiet
<1>2. Keys'
  <2> SUFFICES ASSUME NEW k \in Session
               PROVE  /\ (ses[k].pc \in Asks)' => Waits(k)'
                      /\ Running(k)' => \E p \in Session : Completed(k, p)'
    BY DEF Keys
  <2>1. CASE Alike(k)
    BY <1>1, <2>1, AlikeKeys
  <2>2. CASE Ends(k)
    BY <2>2 DEF Ends, Asks, Running
  <2> QED BY <1>1, <2>1, <2>2
<1>3. Sent'
  BY <1>1, SentKept DEF Sent, Quiet
<1>4. Streams'
  <2> SUFFICES ASSUME NEW s \in Session PROVE StreamOK(s)'
    BY DEF Streams
  <2>1. s # 0
    BY DEF Session
  <2>2. Answerers(s)' \subseteq Answerers(s)
    BY <1>1, <2>1 DEF Answerers, Alike, Ends
  <2> QED BY <1>1, <2>2, StreamKept DEF Quiet
<1> QED BY <1>2, <1>3, <1>4

(* The rest of a step that starts session k or gives it its answer. *)
LEMMA TurnStep ==
    ASSUME TypeOK, Keys, Sent, Streams, NEW k \in Session, Turns(k),
           (ses[k].pc \in Asks)' => Waits(k)',
           Running(k)' => \E p \in Session : Completed(k, p)',
           \A h \in shakes' \ shakes : Carries(h)'
    PROVE  Keys' /\ Sent'
<1>1. \A p \in Session : Alike(p) \/ Ends(p) \/ Turns(p)
  BY DEF Turns
<1>2. Keys'
  <2> SUFFICES ASSUME NEW j \in Session
               PROVE  /\ (ses[j].pc \in Asks)' => Waits(j)'
                      /\ Running(j)' => \E p \in Session : Completed(j, p)'
    BY DEF Keys
  <2>1. CASE j = k
    BY <2>1
  <2>2. CASE j # k
    <3>1. Alike(j)
      BY <2>2 DEF Turns
    <3> QED BY <1>1, <3>1, AlikeKeys
  <2> QED BY <2>1, <2>2
<1>3. Sent'
  BY <1>1, SentKept DEF Sent
<1> QED BY <1>2, <1>3

(* The streams, unless k is started by one; stream k itself needs care. *)
LEMMA TurnStreams ==
    ASSUME Streams, NEW k \in Session, Turns(k), NEW s \in Session, k \notin Answerers(s)',
           \A h \in shakes' : h.stream = s => h \in shakes,
           s = k => /\ \/ ses[s].pc = "none"
                       \/ (ses[s].pc \in {"connect", "stable_connect", "dead"})'
                       \/ \A h \in shakes' : h.stream # s
                    /\ (Running(s) /\ ses[s].direct /\ ses[s].stream = s)' => Dialled(s)'
    PROVE  StreamOK(s)'
<1>1. \A p \in Session : Alike(p) \/ Ends(p) \/ Turns(p)
  BY DEF Turns
<1>2. Answerers(s)' \subseteq Answerers(s)
  BY DEF Answerers, Alike, Turns
<1>3. s # k => Alike(s)
  BY DEF Turns
<1> QED BY <1>1, <1>2, <1>3, StreamKept
----------------------------------------------------------------------------
(* The types *)

(* A session that was not started yet. *)
LEMMA UnbornIs ==
    /\ Unborn \in SessionState /\ Unborn.pc = "none" /\ Unborn.stream = 0 /\ ~Unborn.direct
    /\ ~Unborn.asked /\ ~Unborn.key.is_ok
<1>1. (CHOOSE n \in Node : TRUE) \in Node
  BY HandshakeAssumption
<1>2. 0 \in 0 .. KEYS /\ 0 \in 0 .. MISSED + 1
  BY HandshakeAssumption
<1> QED BY <1>1, <1>2 DEF Unborn, SessionState, SessionKey

(* What is left of a session that ended. *)
LEMMA OverIs ==
    ASSUME TypeOK, NEW k \in Session
    PROVE  /\ Over(k) \in SessionState /\ Over(k).pc = "dead" /\ Over(k).stream = 0
           /\ Over(k).owner = ses[k].owner /\ ~Over(k).key.is_ok
<1>1. ses[k] \in SessionState
  BY DEF TypeOK
<1> QED BY ZenonT(40), <1>1, UnbornIs DEF Over, SessionState

(* One session changes. *)
LEMMA SesStep ==
    ASSUME TypeOK, NEW k \in Session, NEW r \in SessionState, ses' = [ses EXCEPT ![k] = r]
    PROVE  /\ ses' \in [Session -> SessionState]
           /\ ses'[k] = r /\ \A j \in Session \ {k} : ses'[j] = ses[j]
BY DEF TypeOK

(* The types after a step that changes one session. *)
LEMMA TypeStep ==
    ASSUME TypeOK, NEW k \in Session, NEW r \in SessionState, ses' = [ses EXCEPT ![k] = r],
           r.pc = "run" <=> r.key.is_ok,
           tmps' \in [Node \X Node -> 0 .. KEYS], dhts' \in [Node \X Node -> 0 .. KEYS],
           stables' \in [Node \X Node -> 0 .. KEYS],
           shakes' \subseteq ShakeType, data' \subseteq DataType
    PROVE  TypeOK'
<1>1. \A j \in Session : (ses[j].pc = "run" <=> ses[j].key.is_ok)'
  BY SesStep DEF TypeOK
<1>2. ({tmps, dhts, stables} \subseteq [Node \X Node -> 0 .. KEYS])'
  OBVIOUS
<1> QED BY <1>1, <1>2, SesStep DEF TypeOK

(* An entry of a table changes. *)
LEMMA TableStep ==
    ASSUME TypeOK, NEW at, NEW x \in 0 .. KEYS
    PROVE  /\ [tmps EXCEPT ![at] = x] \in [Node \X Node -> 0 .. KEYS]
           /\ [dhts EXCEPT ![at] = x] \in [Node \X Node -> 0 .. KEYS]
           /\ [stables EXCEPT ![at] = x] \in [Node \X Node -> 0 .. KEYS]
BY ZenonT(40) DEF TypeOK

(* The tables and the messages that TypeOK speaks of. *)
LEMMA TypeIs ==
    ASSUME TypeOK
    PROVE  /\ tmps \in [Node \X Node -> 0 .. KEYS] /\ dhts \in [Node \X Node -> 0 .. KEYS]
           /\ stables \in [Node \X Node -> 0 .. KEYS]
           /\ shakes \subseteq ShakeType /\ data \subseteq DataType
BY DEF TypeOK

(* What TypeOK says of one session, ... *)
LEMMA SesIs ==
    ASSUME TypeOK, NEW k \in Session
    PROVE  /\ ses[k] \in SessionState /\ ses[k].key \in SessionKey
           /\ Place(k) \in Node \X Node
           /\ ses[k].pc = "run" <=> ses[k].key.is_ok
BY DEF TypeOK, SessionState, Place

(* ... and of one place of the tables. *)
LEMMA EntryIs ==
    ASSUME TypeOK, NEW at \in Node \X Node
    PROVE  /\ tmps[at] \in 0 .. KEYS /\ dhts[at] \in 0 .. KEYS /\ stables[at] \in 0 .. KEYS
           /\ 0 \in 0 .. KEYS
BY HandshakeAssumption DEF TypeOK
----------------------------------------------------------------------------
(* Sessions that end, and what leaves keys alone *)

(* A session ends. *)
LEMMA EndQuiet ==
    ASSUME TypeOK, NEW k \in Session, ses[k].pc # "none", ses' = [ses EXCEPT ![k] = Over(k)],
           shakes' \subseteq shakes
    PROVE  Quiet
<1>1. Ends(k)
  BY ZenonT(40), OverIs, SesStep DEF Ends
<1>2. \A j \in Session \ {k} : Alike(j)
  BY OverIs, SesStep DEF Alike
<1> QED BY <1>1, <1>2 DEF Quiet

(* A session changes in what keys do not depend on. *)
LEMMA FieldQuiet ==
    ASSUME TypeOK, NEW k \in Session, NEW r \in SessionState, ses' = [ses EXCEPT ![k] = r],
           r.pc = ses[k].pc, r.key = ses[k].key, r.asked = ses[k].asked,
           r.owner = ses[k].owner, r.peer = ses[k].peer, r.direct = ses[k].direct,
           r.stream = ses[k].stream, shakes' \subseteq shakes
    PROVE  Quiet
<1>1. \A j \in Session : Alike(j)
  BY SesStep DEF Alike
<1> QED BY <1>1 DEF Quiet

(* A step that leaves the sessions alone and sends no handshake is quiet. *)
LEMMA StillQuiet ==
    ASSUME UNCHANGED ses, shakes' \subseteq shakes
    PROVE  Quiet
BY DEF Quiet, Alike

(* Such steps keep the invariant once they keep the types. *)
LEMMA QuietInv ==
    ASSUME IInv, Quiet, TypeOK'
    PROVE  IInv'
BY QuietStep DEF IInv

(* A session that waits gives up (session.rs: relay and direct timeouts). *)
LEMMA TimeoutsInv ==
    ASSUME IInv, NEW k \in Session, RelayTimeout(k) \/ DialTimeout(k)
    PROVE  IInv'
<1>1. TypeOK /\ ses[k].pc # "none" /\ ses' = [ses EXCEPT ![k] = Over(k)]
  BY DEF IInv, RelayTimeout, DialTimeout
<1>2. UNCHANGED <<dhts, stables, shakes, data>>
  BY DEF RelayTimeout, DialTimeout, tables
<1>3. tmps' \in [Node \X Node -> 0 .. KEYS]
  <2>1. 0 \in 0 .. KEYS
    BY HandshakeAssumption
  <2> QED BY <1>1, <2>1, TableStep, TypeIs DEF RelayTimeout, DialTimeout, tables
<1>4. TypeOK'
  BY ZenonT(40), <1>1, <1>2, <1>3, OverIs, TypeStep, TypeIs
<1> QED BY ZenonT(40), <1>1, <1>2, <1>4, EndQuiet, QuietInv

(* A session that runs is closed. *)
LEMMA ClosedInv ==
    ASSUME IInv, NEW k \in Session, ses[k].pc = "run", Closed(k)
    PROVE  IInv'
<1>1. TypeOK /\ ses' = [ses EXCEPT ![k] = Over(k)] /\ UNCHANGED <<shakes, data>>
  BY DEF IInv, Closed
<1>2. 0 \in 0 .. KEYS /\ tmps[Place(k)] \in 0 .. KEYS /\ dhts[Place(k)] \in 0 .. KEYS
      /\ stables[Place(k)] \in 0 .. KEYS
  BY <1>1, SesIs, EntryIs
<1>3. PICK x, y, z \in 0 .. KEYS : /\ stables' = [stables EXCEPT ![Place(k)] = x]
                                   /\ tmps' = [tmps EXCEPT ![Place(k)] = y]
                                   /\ dhts' = [dhts EXCEPT ![Place(k)] = z]
  BY ZenonT(40), <1>2 DEF Closed
<1>4. TypeOK'
  BY <1>1, <1>3, OverIs, TypeStep, TableStep, TypeIs
<1> QED BY ZenonT(40), <1>1, <1>4, EndQuiet, QuietInv

(* A DHT session becomes a stable one. *)
LEMMA UpgradeInv ==
    ASSUME IInv, NEW k \in Session, Upgrade(k)
    PROVE  IInv'
<1> DEFINE found == IF tmps[Place(k)] # 0 THEN tmps[Place(k)] ELSE dhts[Place(k)]
           r == [ses[k] EXCEPT !.stable = TRUE]
<1>1. /\ TypeOK /\ ses[k].pc = "run" /\ UNCHANGED <<shakes, data>>
      /\ ses' = [ses EXCEPT ![k] = IF found = 0 THEN Over(k) ELSE r]
  BY DEF IInv, Upgrade
<1>2. 0 \in 0 .. KEYS /\ tmps[Place(k)] \in 0 .. KEYS /\ dhts[Place(k)] \in 0 .. KEYS
  BY <1>1, SesIs, EntryIs
<1>3. PICK x, y, z \in 0 .. KEYS : /\ stables' = [stables EXCEPT ![Place(k)] = x]
                                   /\ tmps' = [tmps EXCEPT ![Place(k)] = y]
                                   /\ dhts' = [dhts EXCEPT ![Place(k)] = z]
  BY ZenonT(40), <1>2 DEF Upgrade
<1>4. /\ r \in SessionState /\ r.pc = ses[k].pc /\ r.key = ses[k].key /\ r.asked = ses[k].asked
      /\ r.owner = ses[k].owner /\ r.peer = ses[k].peer /\ r.direct = ses[k].direct
      /\ r.stream = ses[k].stream
  BY ZenonT(40), <1>1, SesIs DEF SessionState
<1> HIDE DEF found, r
<1>5. TypeOK'
  BY <1>1, <1>3, <1>4, OverIs, SesIs, TypeStep, TableStep, TypeIs
<1>6. Quiet
  BY ZenonT(40), <1>1, <1>4, EndQuiet, FieldQuiet
<1> QED BY <1>5, <1>6, QuietInv

(* What a session encrypts. *)
LEMMA EncryptType ==
    ASSUME IInv, NEW k \in Session, ses[k].pc = "run", NEW body \in {"ping", "pong"}
    PROVE  encrypt(body, ses[k]) \in DataType
<1>1. ses[k].key.nonce \in Session
  BY DEF IInv, Keys, Running, Completed
<1>2. ses[k] \in SessionState /\ ses[k].key \in SessionKey
  BY SesIs DEF IInv
<1> QED BY <1>1, <1>2 DEF encrypt, DataType, SessionState, SessionKey

(* The timer of the heartbeat expires. *)
LEMMA HeartbeatInv ==
    ASSUME IInv, NEW k \in Session, handle_heartbeat(k)
    PROVE  IInv'
<1> DEFINE r == [ses[k] EXCEPT !.heartbeat = @ + 1]
<1>1. CASE Closed(k)
  BY <1>1, ClosedInv DEF handle_heartbeat
<1>2. CASE ~Closed(k)
  <2>1. /\ TypeOK /\ ses[k].pc = "run" /\ UNCHANGED <<tables, shakes>>
        /\ ses[k].heartbeat <= MISSED /\ ses' = [ses EXCEPT ![k] = r]
        /\ data' = data \cup {encrypt("ping", ses[k])}
    BY <1>2 DEF IInv, handle_heartbeat
  <2>2. data' \subseteq DataType
    BY <2>1, EncryptType, TypeIs
  <2>3. /\ r \in SessionState /\ r.pc = ses[k].pc /\ r.key = ses[k].key /\ r.asked = ses[k].asked
        /\ r.owner = ses[k].owner /\ r.peer = ses[k].peer /\ r.direct = ses[k].direct
        /\ r.stream = ses[k].stream
    BY <2>1, SesIs, HandshakeAssumption DEF SessionState
  <2> HIDE DEF r
  <2>4. TypeOK'
    BY ZenonT(40), <2>1, <2>2, <2>3, SesIs, TypeStep, TypeIs DEF tables
  <2> QED BY ZenonT(40), <2>1, <2>3, <2>4, FieldQuiet, QuietInv
<1> QED BY <1>1, <1>2

(* Something encrypted arrives, and can be read or not. *)
LEMMA DataInv ==
    ASSUME IInv, NEW k \in Session, NEW d \in data, handle_core_data(d, k)
    PROVE  IInv'
<1> DEFINE r == [ses[k] EXCEPT !.heartbeat = 0]
<1>1. TypeOK /\ ses[k].pc = "run" /\ UNCHANGED <<tmps, dhts, stables, shakes>>
  BY DEF IInv, handle_core_data, tables
<1>2. data' \subseteq DataType
  BY <1>1, EncryptType, TypeIs DEF handle_core_data
<1>3. CASE ses' = [ses EXCEPT ![k] = r]
  <2>1. /\ r \in SessionState /\ r.pc = ses[k].pc /\ r.key = ses[k].key /\ r.asked = ses[k].asked
        /\ r.owner = ses[k].owner /\ r.peer = ses[k].peer /\ r.direct = ses[k].direct
        /\ r.stream = ses[k].stream
    BY <1>1, SesIs, HandshakeAssumption DEF SessionState
  <2> HIDE DEF r
  <2>2. TypeOK'
    BY ZenonT(40), <1>1, <1>2, <1>3, <2>1, SesIs, TypeStep, TypeIs
  <2> QED BY ZenonT(40), <1>1, <1>3, <2>1, <2>2, FieldQuiet, QuietInv
<1>4. CASE UNCHANGED ses
  <2>1. TypeOK'
    BY <1>1, <1>2, <1>4 DEF TypeOK
  <2> QED BY <1>1, <1>4, <2>1, StillQuiet, QuietInv
<1> QED BY <1>3, <1>4 DEF handle_core_data

(* A message is lost. *)
LEMMA LoseInv ==
    ASSUME IInv, Lose
    PROVE  IInv'
<1>1. TypeOK /\ UNCHANGED <<ses, tmps, dhts, stables>> /\ shakes' \subseteq shakes /\ data' \subseteq data
  BY DEF IInv, Lose, tables
<1>2. TypeOK'
  BY <1>1 DEF TypeOK
<1> QED BY <1>1, <1>2, StillQuiet, QuietInv
----------------------------------------------------------------------------
(* Keys *)

(* A key as it is drawn, and what it publishes, ... *)
LEMMA KeyDrawn ==
    ASSUME NEW k \in Session
    PROVE  /\ session_key(k) \in SessionKey /\ ~session_key(k).is_ok
           /\ out_bytes(session_key(k)) = [pk |-> k, nonce |-> k]
           /\ out_bytes(session_key(k)) \in [pk : Session, nonce : Session]
<1>1. k \in 0 .. KEYS
  BY DEF Session
<1> QED BY <1>1 DEF session_key, SessionKey, out_bytes

(* ... and a key once it is completed with what another published. *)
LEMMA KeyCompleted ==
    ASSUME NEW k \in Session, NEW p \in Session, NEW x \in Session,
           NEW d, d.pk = p, d.nonce = x, NEW c, c = complete(session_key(k), d)
    PROVE  /\ c \in SessionKey /\ c.is_ok /\ c.sk = k /\ c.cipher = {k, p} /\ c.nonce = x
           /\ out_bytes(c) = [pk |-> k, nonce |-> x]
           /\ out_bytes(c) \in [pk : Session, nonce : Session]
<1>1. \A y \in Session : y \in 0 .. KEYS
  BY DEF Session
<1> QED BY ZenonT(40), <1>1 DEF complete, session_key, SessionKey, out_bytes, dh

(* The handshakes a session sends. *)
LEMMA ShakeIs ==
    ASSUME NEW n \in Node, NEW m \in Node, NEW s \in 0 .. KEYS, NEW key,
           out_bytes(key) \in [pk : Session, nonce : Session]
    PROVE  LET h == Shake(n, m, s, key)
           IN  h \in ShakeType /\ h.from = n /\ h.to = m /\ h.stream = s /\ h.dh = out_bytes(key)
BY DEF Shake, ShakeType

(* What TypeOK says of one handshake. *)
LEMMA ShakeHas ==
    ASSUME TypeOK, NEW h \in shakes
    PROVE  /\ h.from \in Node /\ h.to \in Node /\ h.stream \in 0 .. KEYS
           /\ h.dh \in [pk : Session, nonce : Session] /\ h.dh.pk \in Session /\ h.dh.nonce \in Session
           /\ <<h.to, h.from>> \in Node \X Node
BY DEF TypeOK, ShakeType
----------------------------------------------------------------------------
(* Sessions that start, or get their answer *)

(* A step that replaces the state of one session that waits or is new. *)
LEMMA OneTurns ==
    ASSUME TypeOK, NEW k \in Session, NEW r \in SessionState, ses' = [ses EXCEPT ![k] = r],
           ses[k].pc \in Asks \cup {"none"}, r.pc # "none",
           ses[k].pc \in Asks => r.owner = ses[k].owner,
           ses[k].pc \in Asks => r.asked \/ r.pc = "dead"
    PROVE  Turns(k) /\ ses'[k] = r
<1>1. ses'[k] = r
  BY ZenonT(40), SesStep
<1>2. \A j \in Session \ {k} : Alike(j)
  BY SesStep DEF Alike
<1>3. ses[k].pc \in Asks /\ Live(k)' => ses'[k].asked
  BY <1>1 DEF Live, Asks
<1> QED BY <1>1, <1>2, <1>3 DEF Turns

(* A stream of which nothing is known before its session dials. *)
LEMMA NoStream ==
    ASSUME Streams, NEW k \in Session, ses[k].pc \in {"none", "begin", "waiting"}
    PROVE  \A h \in shakes : h.stream # k
BY DEF Streams, StreamOK, OnStream

(* No connection belongs to a session that was not started. *)
LEMMA NoAnswerers ==
    ASSUME Streams, NEW k \in Session, ses[k].pc = "none"
    PROVE  Answerers(k) = {}
BY DEF Streams, StreamOK, Answered

(* Handshakes through relays touch no stream. *)
LEMMA RelayStreams ==
    ASSUME Streams, NEW k \in Session, Turns(k), ses[k].pc \in {"none", "begin", "waiting"},
           ~ses'[k].direct, \A h \in shakes' : h \in shakes \/ h.stream = 0
    PROVE  Streams'
<1>1. \A s \in Session : s # 0
  BY DEF Session
<1>2. \A h \in shakes' : h.stream # k
  BY <1>1, NoStream
<1>3. \A s \in Session : k \notin Answerers(s)'
  BY DEF Answerers
<1>4. ~Running(k)' \/ ~ses'[k].direct
  OBVIOUS
<1>5. \A s \in Session : StreamOK(s)'
  BY <1>1, <1>2, <1>3, <1>4, TurnStreams
<1> QED BY <1>5 DEF Streams

(* A session starts that asks over relays, ... *)
LEMMA StartRelayInv ==
    ASSUME IInv, NEW k \in Session, NEW n \in Node, NEW m \in Node, StartRelay(k, n, m)
    PROVE  IInv'
<1> DEFINE r == [Unborn EXCEPT !.pc = "begin", !.owner = n, !.peer = m,
                               !.asked = TRUE, !.key = session_key(k)]
<1>1. /\ TypeOK /\ Keys /\ Sent /\ Streams /\ ses[k].pc = "none" /\ n # m
      /\ ses' = [ses EXCEPT ![k] = r] /\ UNCHANGED <<tmps, dhts, stables, shakes, data>>
  BY DEF IInv, StartRelay, Fresh, tables
<1>2. /\ r \in SessionState /\ r.pc = "begin" /\ r.owner = n /\ r.peer = m /\ r.asked
      /\ r.key = session_key(k) /\ ~r.direct /\ r.stream = 0
  BY ZenonT(40), UnbornIs, KeyDrawn DEF SessionState
<1> HIDE DEF r
<1>3. TypeOK'
  BY ZenonT(40), <1>1, <1>2, KeyDrawn, TypeStep, TypeIs
<1>4. Turns(k) /\ ses'[k] = r
  BY ZenonT(40), <1>1, <1>2, OneTurns DEF Asks
<1>5. Waits(k)' /\ ~Running(k)'
  BY <1>1, <1>2, <1>4 DEF Waits, Running
<1>6. Keys' /\ Sent'
  BY <1>1, <1>4, <1>5, TurnStep
<1>7. Streams'
  BY <1>1, <1>2, <1>4, RelayStreams
<1> QED BY <1>3, <1>6, <1>7 DEF IInv

(* ... and sends its handshake. *)
LEMMA RelayConnectInv ==
    ASSUME IInv, NEW k \in Session, RelayConnect(k)
    PROVE  IInv'
<1> DEFINE r == [ses[k] EXCEPT !.pc = "waiting"]
<1>0. PICK g : g = Shake(ses[k].owner, ses[k].peer, 0, ses[k].key)
  OBVIOUS
<1>1. /\ TypeOK /\ Keys /\ Sent /\ Streams /\ ses[k].pc = "begin"
      /\ ses' = [ses EXCEPT ![k] = r] /\ shakes' = shakes \cup {g}
      /\ tmps' = [tmps EXCEPT ![Place(k)] = k] /\ UNCHANGED <<dhts, stables, data>>
  BY <1>0 DEF IInv, RelayConnect
<1>2. Waits(k) /\ ses[k].pc \in Asks
  BY <1>1 DEF Keys, Asks
<1>3. ses[k].key = session_key(k) /\ ses[k].asked /\ ses[k].owner # ses[k].peer /\ ~ses[k].direct
  BY <1>1, <1>2 DEF Waits
<1>4. ses[k].owner \in Node /\ ses[k].peer \in Node
  BY <1>1, SesIs DEF SessionState
<1>5. /\ r \in SessionState /\ r.pc = "waiting" /\ r.owner = ses[k].owner /\ r.peer = ses[k].peer
      /\ r.asked /\ r.key = session_key(k) /\ ~r.direct
  BY <1>1, <1>3, SesIs DEF SessionState
<1>6. /\ g \in ShakeType /\ g.from = ses[k].owner /\ g.to = ses[k].peer /\ g.stream = 0
      /\ g.dh = [pk |-> k, nonce |-> k]
  <2>1. 0 \in 0 .. KEYS
    BY HandshakeAssumption
  <2> QED BY <1>0, <1>3, <1>4, <2>1, KeyDrawn, ShakeIs
<1> HIDE DEF r
<1>7. TypeOK'
  <2>1. k \in 0 .. KEYS
    BY DEF Session
  <2>2. tmps' \in [Node \X Node -> 0 .. KEYS]
    BY <1>1, <2>1, TableStep
  <2> QED BY ZenonT(40), <1>1, <1>5, <1>6, <2>2, KeyDrawn, TypeStep, TypeIs
<1>8. Turns(k) /\ ses'[k] = r
  BY ZenonT(40), <1>1, <1>2, <1>5, OneTurns
<1>9. Waits(k)' /\ ~Running(k)'
  BY <1>3, <1>5, <1>8 DEF Waits, Running
<1>10. Carries(g)'
  BY <1>3, <1>5, <1>6, <1>8 DEF Carries, Published
<1>11. Keys' /\ Sent'
  BY <1>1, <1>8, <1>9, <1>10, TurnStep
<1>12. Streams'
  BY <1>1, <1>5, <1>6, <1>8, RelayStreams
<1> QED BY <1>7, <1>11, <1>12 DEF IInv

(* A relayed handshake starts a session at its receiver, which answers. *)
LEMMA RelayAnswerInv ==
    ASSUME IInv, NEW k \in Session, NEW h \in shakes, RelayAnswer(h, k)
    PROVE  IInv'
<1> DEFINE key == complete(session_key(k), h.dh)
           r == [Unborn EXCEPT !.pc = "run", !.owner = h.to, !.peer = h.from, !.key = key]
           g == Shake(h.to, h.from, 0, key)
<1>1. /\ TypeOK /\ Keys /\ Sent /\ Streams /\ ses[k].pc = "none"
      /\ ses' = [ses EXCEPT ![k] = r] /\ shakes' = (shakes \ {h}) \cup {g}
      /\ tmps' = [tmps EXCEPT ![<<h.to, h.from>>] = k] /\ UNCHANGED <<dhts, stables, data>>
  BY DEF IInv, RelayAnswer, Fresh
<1>2. PICK p \in Session, x \in Session : h.dh.pk = p /\ h.dh.nonce = x
  BY <1>1, ShakeHas
<1>3. /\ key \in SessionKey /\ key.is_ok /\ key.sk = k /\ key.cipher = {k, p} /\ key.nonce = x
      /\ out_bytes(key) = [pk |-> k, nonce |-> x]
      /\ out_bytes(key) \in [pk : Session, nonce : Session]
  BY <1>1, <1>2, KeyCompleted
<1>4. /\ r \in SessionState /\ r.pc = "run" /\ r.owner = h.to /\ r.peer = h.from
      /\ ~r.asked /\ r.key = key /\ ~r.direct
  <2> HIDE DEF key
  <2> QED BY ZenonT(40), <1>1, <1>3, UnbornIs, ShakeHas DEF SessionState
<1>5. /\ g \in ShakeType /\ g.from = h.to /\ g.to = h.from /\ g.stream = 0
      /\ g.dh.pk = k /\ g.dh.nonce = x
  <2> HIDE DEF key
  <2>1. 0 \in 0 .. KEYS
    BY HandshakeAssumption
  <2> QED BY <1>1, <1>3, <2>1, ShakeHas, ShakeIs
<1> HIDE DEF r, g, key
<1>6. TypeOK'
  <2>1. k \in 0 .. KEYS
    BY DEF Session
  <2>2. tmps' \in [Node \X Node -> 0 .. KEYS]
    BY ZenonT(40), <1>1, <2>1, TableStep
  <2> QED BY ZenonT(40), <1>1, <1>3, <1>4, <1>5, <2>2, TypeStep, TypeIs
<1>7. Turns(k) /\ ses'[k] = r
  BY ZenonT(40), <1>1, <1>4, OneTurns DEF Asks
<1>8. Carries(h) /\ Carries(h)'
  <2>1. \A q \in Session : Alike(q) \/ Ends(q) \/ Turns(q)
    BY <1>7 DEF Turns
  <2> QED BY <1>1, <2>1, SentKept DEF Sent
<1>9. Completed(k, p)' /\ (ses[k].pc \notin Asks)'
  BY <1>2, <1>3, <1>4, <1>7, <1>8 DEF Completed, Carries, Asks
<1>10. Carries(g)'
  BY <1>3, <1>4, <1>5, <1>7, <1>8 DEF Carries, Published
<1>11. Keys' /\ Sent'
  BY <1>1, <1>7, <1>9, <1>10, TurnStep
<1>12. Streams'
  BY <1>1, <1>4, <1>5, <1>7, RelayStreams
<1> QED BY <1>6, <1>11, <1>12 DEF IInv

(* The answer to a relayed handshake arrives. *)
LEMMA RelayResultInv ==
    ASSUME IInv, NEW h \in shakes, RelayResult(h)
    PROVE  IInv'
<1>1. /\ TypeOK /\ Keys /\ Sent /\ Streams
      /\ shakes' \subseteq shakes /\ UNCHANGED <<dhts, data>>
  BY DEF IInv, RelayResult
<1>2. PICK k \in Session : k = tmps[<<h.to, h.from>>]
  <2>1. tmps[<<h.to, h.from>>] \in 0 .. KEYS /\ tmps[<<h.to, h.from>>] # 0
    BY <1>1, ShakeHas, EntryIs DEF RelayResult
  <2> QED BY <2>1, HandshakeAssumption DEF Session
<1>3. CASE ses[k].pc # "waiting"
  <2>1. UNCHANGED <<ses, tmps, stables>>
    BY <1>2, <1>3 DEF RelayResult
  <2>2. TypeOK'
    BY <1>1, <2>1 DEF TypeOK
  <2> QED BY <1>1, <2>1, <2>2, StillQuiet, QuietInv
<1>4. CASE ses[k].pc = "waiting"
  <2>0. PICK key : key = complete(session_key(k), h.dh)
    OBVIOUS
  <2> DEFINE r == [ses[k] EXCEPT !.pc = "run", !.stable = TRUE, !.key = key]
  <2>1. Waits(k) /\ ses[k].pc \in Asks
    BY <1>1, <1>4 DEF Keys, Asks
  <2>2. ses[k].key = session_key(k) /\ ses[k].asked /\ ~ses[k].direct
    BY <1>4, <2>1 DEF Waits
  <2>3. /\ ses' = [ses EXCEPT ![k] = r] /\ tmps' = [tmps EXCEPT ![Place(k)] = 0]
        /\ stables' = [stables EXCEPT ![Place(k)] = k]
    <3>1. /\ ses' = [ses EXCEPT ![k].pc = "run", ![k].stable = TRUE,
                                ![k].key = complete(@, h.dh)]
          /\ tmps' = [tmps EXCEPT ![Place(k)] = 0]
          /\ stables' = [stables EXCEPT ![Place(k)] = k]
      BY <1>2, <1>4 DEF RelayResult
    <3>2. ses \in [Session -> SessionState] /\ ses[k] \in SessionState
      BY <1>1 DEF TypeOK
    <3>3. ses' = [ses EXCEPT ![k] = [ses[k] EXCEPT !.pc = "run", !.stable = TRUE,
                                                   !.key = complete(ses[k].key, h.dh)]]
      BY ZenonT(40), <3>1, <3>2 DEF SessionState
    <3> QED BY ZenonT(40), <2>0, <2>2, <3>1, <3>3
  <2>4. PICK p \in Session, x \in Session : h.dh.pk = p /\ h.dh.nonce = x
    BY ZenonT(40), <1>1, ShakeHas
  <2>5. key \in SessionKey /\ key.is_ok /\ key.sk = k /\ key.cipher = {k, p} /\ key.nonce = x
    <3> HIDE DEF r
    <3> QED BY <2>0, <2>4, KeyCompleted
  <2>6. /\ r \in SessionState /\ r.pc = "run" /\ r.owner = ses[k].owner /\ r.peer = ses[k].peer
        /\ r.asked /\ r.key = key /\ ~r.direct
    <3>1. ses[k] \in SessionState
      BY <1>1, SesIs
    <3> QED BY ZenonT(40), <2>2, <2>5, <3>1 DEF SessionState
  <2> HIDE DEF r
  <2>7. TypeOK'
    <3>1. k \in 0 .. KEYS /\ 0 \in 0 .. KEYS
      BY HandshakeAssumption DEF Session
    <3>2. tmps' \in [Node \X Node -> 0 .. KEYS] /\ stables' \in [Node \X Node -> 0 .. KEYS]
      BY ZenonT(40), <1>1, <2>3, <3>1, TableStep
    <3> QED BY ZenonT(40), <1>1, <2>3, <2>5, <2>6, <3>2, TypeStep, TypeIs
  <2>8. Turns(k) /\ ses'[k] = r
    BY ZenonT(40), <1>1, <2>1, <2>3, <2>6, OneTurns
  <2>9. Carries(h)'
    <3>1. \A q \in Session : Alike(q) \/ Ends(q) \/ Turns(q)
      BY <2>8 DEF Turns
    <3> QED BY <1>1, <3>1, SentKept
  <2>10. Completed(k, p)' /\ (ses[k].pc \notin Asks)'
    BY <2>4, <2>5, <2>6, <2>8, <2>9 DEF Completed, Carries, Asks
  <2>11. Keys' /\ Sent'
    BY <1>1, <2>8, <2>10, TurnStep
  <2>12. Streams'
    BY <1>1, <1>4, <2>6, <2>8, RelayStreams
  <2> QED BY <2>7, <2>11, <2>12 DEF IInv
<1> QED BY <1>3, <1>4
----------------------------------------------------------------------------
(* Over a connection of one's own *)

(* A session starts that dials, and sends its handshake. *)
LEMMA DialInv ==
    ASSUME IInv, NEW k \in Session, NEW n \in Node, NEW m \in Node,
           NEW how \in {"connect", "stable_connect"}, Dial(k, n, m, how)
    PROVE  IInv'
<1>0. PICK g : g = Shake(n, m, k, session_key(k))
  OBVIOUS
<1> DEFINE r == [Unborn EXCEPT !.pc = how, !.owner = n, !.peer = m, !.stream = k,
                               !.asked = TRUE, !.direct = TRUE, !.key = session_key(k)]
<1>1. /\ TypeOK /\ Keys /\ Sent /\ Streams /\ ses[k].pc = "none" /\ n # m
      /\ ses' = [ses EXCEPT ![k] = r] /\ shakes' = shakes \cup {g}
      /\ UNCHANGED <<tmps, dhts, stables, data>>
  BY <1>0 DEF IInv, Dial, Fresh, tables
<1>2. k \in 0 .. KEYS
  BY DEF Session
<1>3. /\ r \in SessionState /\ r.pc = how /\ r.owner = n /\ r.peer = m /\ r.asked
      /\ r.key = session_key(k) /\ r.direct /\ r.stream = k
  BY ZenonT(40), <1>2, UnbornIs, KeyDrawn DEF SessionState
<1>4. /\ g \in ShakeType /\ g.from = n /\ g.to = m /\ g.stream = k
      /\ g.dh.pk = k /\ g.dh.nonce = k
  BY <1>0, <1>2, KeyDrawn, ShakeIs
<1> HIDE DEF r
<1>5. TypeOK'
  BY ZenonT(40), <1>1, <1>3, <1>4, KeyDrawn, TypeStep, TypeIs
<1>6. Turns(k) /\ ses'[k] = r
  BY ZenonT(40), <1>1, <1>3, OneTurns DEF Asks
<1>7. Waits(k)' /\ ~Running(k)'
  BY <1>1, <1>3, <1>6 DEF Waits, Running
<1>8. Carries(g)'
  BY <1>1, <1>3, <1>4, <1>6 DEF Carries, Published
<1>9. Keys' /\ Sent'
  BY <1>1, <1>6, <1>7, <1>8, TurnStep
<1>10. StreamOK(k)'
  <2>1. Answerers(k)' = {}
    BY <1>1, <1>6, NoAnswerers DEF Answerers, Turns, Alike
  <2>2. \A h \in shakes' : h.stream = k => h = g
    BY <1>1, NoStream
  <2>3. OnStream(g, k)'
    BY <1>3, <1>4, <1>6, <2>1 DEF OnStream
  <2> QED BY <1>7, <2>1, <2>2, <2>3 DEF StreamOK
<1>11. ASSUME NEW s \in Session, s # k PROVE StreamOK(s)'
  <2>1. k \notin Answerers(s)'
    BY <1>3, <1>6, <1>11 DEF Answerers
  <2>2. \A h \in shakes' : h.stream = s => h \in shakes
    BY <1>1, <1>4, <1>11
  <2> QED BY <1>1, <1>6, <1>11, <2>1, <2>2, TurnStreams
<1> QED BY <1>5, <1>9, <1>10, <1>11 DEF IInv, Streams

(* A connection becomes a session, or another session changes over to it. *)
LEMMA JoinsIs ==
    ASSUME TypeOK, NEW k \in Session, ses[k].pc # "run",
           NEW s \in SessionState, s.key.is_ok, s.pc = "run", Joins(k, s),
           shakes' \subseteq ShakeType, UNCHANGED data
    PROVE  /\ TypeOK' /\ \A j \in Session \ {k} : Alike(j)
           /\ \/ ses'[k] = s
              \/ ses'[k].pc = "dead" /\ ses'[k].stream = 0 /\ ses'[k].owner = s.owner
<1> DEFINE at == <<s.owner, s.peer>>
<1>1. at \in Node \X Node /\ s.stream \in 0 .. KEYS /\ s.owner \in Node /\ s.peer \in Node
  BY DEF SessionState
<1>2. CASE ~is_relay(at)
  <2>1. /\ ses' = [ses EXCEPT ![k] = s] /\ dhts' = [dhts EXCEPT ![at] = k]
        /\ UNCHANGED <<tmps, stables>>
    BY <1>2 DEF Joins
  <2>2. k \in 0 .. KEYS
    BY DEF Session
  <2>3. TypeOK'
    BY <2>1, <2>2, TableStep, TypeStep, TypeIs
  <2> QED BY ZenonT(40), <2>1, <2>3, SesStep DEF Alike
<1>3. CASE is_relay(at)
  <2>1. PICK other \in Session : other = stables[at] /\ ~ses[other].direct
    <3>1. stables[at] \in 0 .. KEYS /\ stables[at] # 0
      BY <1>1, <1>3, EntryIs DEF is_relay
    <3>2. stables[at] \in Session
      BY <3>1, HandshakeAssumption DEF Session
    <3> QED BY <1>3, <3>2 DEF is_relay
  <2>2. PICK d : d = [Unborn EXCEPT !.pc = "dead", !.owner = s.owner, !.peer = s.peer,
                                    !.direct = TRUE]
    OBVIOUS
  <2>3. /\ d \in SessionState /\ d.pc = "dead" /\ d.stream = 0 /\ d.owner = s.owner
        /\ ~d.key.is_ok
    BY ZenonT(40), <1>1, <2>2, UnbornIs DEF SessionState
  <2> DEFINE r == [ses[other] EXCEPT !.stream = s.stream]
  <2>4. UNCHANGED tables
        /\ ses' = [j \in Session |-> IF j = k THEN d
                                     ELSE IF j = other /\ ses[j].pc = "run" THEN r ELSE ses[j]]
    BY <1>3, <2>1, <2>2 DEF Joins
  <2>5. /\ r \in SessionState /\ r.pc = ses[other].pc /\ r.key = ses[other].key
        /\ r.asked = ses[other].asked /\ r.owner = ses[other].owner /\ r.peer = ses[other].peer
        /\ r.direct = ses[other].direct
    <3>1. ses[other] \in SessionState
      BY SesIs
    <3> QED BY <1>1, <3>1 DEF SessionState
  <2> HIDE DEF r
  <2>6. \A j \in Session : ses[j] \in SessionState
    BY DEF TypeOK
  <2>7. ses' \in [Session -> SessionState]
    BY <2>3, <2>4, <2>5, <2>6
  <2>8. ses'[k] = d
    BY <2>4
  <2>9. \A j \in Session \ {k} : ses'[j] = ses[j] \/ (j = other /\ ses'[j] = r)
    BY <2>4
  <2>10. \A j \in Session \ {k} : Alike(j)
    BY <2>1, <2>5, <2>9 DEF Alike
  <2>11. ses'[k].pc = "dead" /\ ses'[k].stream = 0 /\ ses'[k].owner = s.owner /\ ~ses'[k].key.is_ok
    BY <2>3, <2>8
  <2>12. \A j \in Session : (ses[j].pc = "run" <=> ses[j].key.is_ok)'
    BY <2>10, <2>11 DEF TypeOK, Alike
  <2>13. TypeOK'
    BY <2>4, <2>7, <2>12 DEF TypeOK, tables
  <2> QED BY <2>10, <2>11, <2>13
<1> QED BY <1>2, <1>3

(* The handshake of a dialler arrives. *)
LEMMA IncomingInv ==
    ASSUME IInv, NEW k \in Session, NEW h \in shakes, Incoming(h, k)
    PROVE  IInv'
<1>0. PICK key : key = complete(session_key(k), h.dh)
  OBVIOUS
<1> DEFINE r == [Unborn EXCEPT !.pc = "run", !.owner = h.to, !.peer = h.from,
                               !.stream = h.stream, !.direct = TRUE, !.key = key]
           g == Shake(h.to, h.from, h.stream, key)
<1>1. /\ TypeOK /\ Keys /\ Sent /\ Streams /\ ses[k].pc = "none"
      /\ h.stream # 0 /\ ses[h.stream].owner = h.from
      /\ Joins(k, r) /\ shakes' = (shakes \ {h}) \cup {g} /\ UNCHANGED data
  BY <1>0 DEF IInv, Incoming, Fresh
<1>2. PICK s \in Session : s = h.stream
  <2>1. h.stream \in 0 .. KEYS
    BY ZenonT(40), <1>1, ShakeHas
  <2> QED BY <1>1, <2>1, HandshakeAssumption DEF Session
<1>3. OnStream(h, s) /\ StreamOK(s) /\ Carries(h)
  BY <1>1, <1>2 DEF Streams, StreamOK, Sent
<1>4. /\ h.dh.pk = s /\ h.dh.nonce = s /\ Answerers(s) = {} /\ s # k
      /\ ses[s].pc \in {"connect", "stable_connect", "dead"} /\ ses[s].owner = h.from
  BY <1>1, <1>2, <1>3 DEF OnStream
<1>5. /\ key \in SessionKey /\ key.is_ok /\ key.sk = k /\ key.cipher = {k, s} /\ key.nonce = s
      /\ out_bytes(key) = [pk |-> k, nonce |-> s]
      /\ out_bytes(key) \in [pk : Session, nonce : Session]
  BY <1>0, <1>4, KeyCompleted
<1>6. h.to \in Node /\ h.from \in Node /\ h.stream \in 0 .. KEYS
  BY ZenonT(40), <1>1, ShakeHas
<1>7. /\ r \in SessionState /\ r.pc = "run" /\ r.owner = h.to /\ r.stream = s
      /\ ~r.asked /\ r.key = key /\ r.direct
  BY ZenonT(40), <1>2, <1>5, <1>6, UnbornIs DEF SessionState
<1>8. /\ g \in ShakeType /\ g.from = h.to /\ g.to = h.from /\ g.stream = s
      /\ g.dh.pk = k /\ g.dh.nonce = s
  BY <1>2, <1>5, <1>6, ShakeIs
<1> HIDE DEF r, g
<1>9. shakes' \subseteq ShakeType
  BY ZenonT(40), <1>1, <1>8, TypeIs
<1>10. /\ TypeOK' /\ \A j \in Session \ {k} : Alike(j)
       /\ \/ ses'[k] = r
          \/ ses'[k].pc = "dead" /\ ses'[k].stream = 0 /\ ses'[k].owner = r.owner
  BY <1>1, <1>5, <1>7, <1>9, JoinsIs
<1>11. Turns(k)
  BY <1>1, <1>7, <1>10 DEF Turns, Asks
<1>12. Carries(h)'
  <2>1. \A q \in Session : Alike(q) \/ Ends(q) \/ Turns(q)
    BY ZenonT(40), <1>11 DEF Turns
  <2> QED BY <1>1, <2>1, SentKept
<1>13. (ses[k].pc \notin Asks)' /\ (Running(k)' => Completed(k, s)')
  BY <1>4, <1>5, <1>7, <1>10, <1>12 DEF Completed, Carries, Asks, Running
<1>14. Carries(g)'
  BY ZenonT(40), <1>3, <1>5, <1>7, <1>8, <1>10 DEF Carries, Published, Live, Asks
<1>15. Keys' /\ Sent'
  BY <1>1, <1>11, <1>13, <1>14, TurnStep
<1>16. StreamOK(s)'
  <2>1. Alike(s) /\ s # 0
    BY <1>4, <1>10 DEF Session
  <2>2. Answerers(s)' \subseteq {k}
    BY <1>4, <1>10 DEF Answerers, Alike
  <2>3. \A j \in shakes' : j.stream = s => j = g
    BY ZenonT(40), <1>1, <1>2, <1>3 DEF StreamOK
  <2>4. OnStream(g, s)'
    BY ZenonT(40), <1>3, <1>4, <1>8, <2>1, <2>2 DEF OnStream, Alike, Carries
  <2>5. k \in Answerers(s)' => Answered(k, s)'
    <3>1. k \in Answerers(s)' => ses'[k] = r
      BY ZenonT(40), <1>10, <2>1 DEF Answerers
    <3> QED BY <1>4, <1>5, <1>7, <2>1, <2>2, <3>1 DEF Answered, Running, Alike
  <2>6. ~Running(s)'
    BY ZenonT(40), <1>4, <2>1 DEF Alike, Running
  <2> QED BY <2>2, <2>3, <2>4, <2>5, <2>6 DEF StreamOK
<1>17. ASSUME NEW q \in Session, q # s PROVE StreamOK(q)'
  <2>1. k \notin Answerers(q)'
    <3>1. q # 0
      BY DEF Session
    <3> QED BY <1>7, <1>10, <1>17, <3>1 DEF Answerers
  <2>2. \A j \in shakes' : j.stream = q => j \in shakes
    BY <1>1, <1>8, <1>17
  <2>3. (Running(k) /\ ses[k].direct /\ ses[k].stream = k)' => FALSE
    <3>1. k # 0
      BY DEF Session
    <3> QED BY <1>4, <1>7, <1>10, <3>1 DEF Running
  <2> QED BY ZenonT(40), <1>1, <1>11, <2>1, <2>2, <2>3, TurnStreams
<1> QED BY <1>10, <1>15, <1>16, <1>17 DEF IInv, Streams

(* The answer on a connection arrives. *)
LEMMA DialAnsweredInv ==
    ASSUME IInv, NEW h \in shakes, DialAnswered(h)
    PROVE  IInv'
<1>1. /\ TypeOK /\ Keys /\ Sent /\ Streams /\ h.stream # 0
      /\ shakes' = shakes \ {h} /\ UNCHANGED data
  BY DEF IInv, DialAnswered
<1>2. PICK k \in Session : k = h.stream
  <2>1. h.stream \in 0 .. KEYS
    BY ZenonT(40), <1>1, ShakeHas
  <2> QED BY <1>1, <2>1, HandshakeAssumption DEF Session
<1>3. OnStream(h, k) /\ StreamOK(k)
  BY <1>1, <1>2 DEF Streams, StreamOK
<1>4. CASE ses[k].pc \in {"run", "dead"}
  <2>1. UNCHANGED <<ses, tmps, dhts, stables>>
    BY <1>2, <1>4 DEF DialAnswered, tables
  <2>2. TypeOK'
    BY <1>1, <2>1 DEF TypeOK
  <2> QED BY <1>1, <2>1, <2>2, StillQuiet, QuietInv
<1>5. CASE ses[k].pc \in {"connect", "stable_connect"}
  <2>0. PICK key : key = complete(session_key(k), h.dh)
    OBVIOUS
  <2> DEFINE s == [ses[k] EXCEPT !.pc = "run", !.key = key]
             r == [s EXCEPT !.stable = TRUE]
  <2>1. Waits(k) /\ ses[k].pc \in Asks
    BY <1>1, <1>5 DEF Keys, Asks
  <2>2. /\ ses[k].key = session_key(k) /\ ses[k].asked /\ ses[k].direct /\ ses[k].stream = k
        /\ ses[k] \in SessionState
    BY <1>1, <1>5, <2>1, SesIs DEF Waits
  <2>3. PICK p \in Session, x \in Session : h.dh.pk = p /\ h.dh.nonce = x
    BY ZenonT(40), <1>1, ShakeHas
  <2>4. key \in SessionKey /\ key.is_ok /\ key.sk = k /\ key.cipher = {k, p} /\ key.nonce = x
    <3> HIDE DEF s
    <3> QED BY <2>0, <2>3, KeyCompleted
  <2>5. \/ ses[k].pc = "connect" /\ Joins(k, s)
        \/ /\ ses' = [ses EXCEPT ![k] = r] /\ tmps' = [tmps EXCEPT ![Place(k)] = 0]
           /\ stables' = [stables EXCEPT ![Place(k)] = k] /\ UNCHANGED dhts
    <3>1. s = [ses[k] EXCEPT !.pc = "run", !.key = complete(@, h.dh)]
      BY <2>0, <2>2
    <3> QED BY ZenonT(40), <1>2, <1>5, <3>1 DEF DialAnswered
  <2>6. /\ s \in SessionState /\ s.pc = "run" /\ s.owner = ses[k].owner
        /\ s.asked /\ s.key = key /\ s.direct /\ s.stream = k
    BY ZenonT(40), <2>2, <2>4 DEF SessionState
  <2> HIDE DEF s
  <2>7. /\ r \in SessionState /\ r.pc = "run" /\ r.owner = ses[k].owner
        /\ r.asked /\ r.key = key /\ r.direct /\ r.stream = k
    BY ZenonT(40), <2>6 DEF SessionState
  <2> HIDE DEF r
  <2>8. /\ TypeOK' /\ \A j \in Session \ {k} : Alike(j)
        /\ \/ ses'[k] \in {s, r}
           \/ ses'[k].pc = "dead" /\ ses'[k].stream = 0 /\ ses'[k].owner = s.owner
    <3>1. CASE Joins(k, s)
      <4>1. shakes' \subseteq ShakeType
        BY <1>1, TypeIs
      <4> QED BY <1>1, <1>5, <2>4, <2>6, <3>1, <4>1, JoinsIs
    <3>2. CASE ~Joins(k, s)
      <4>1. k \in 0 .. KEYS /\ 0 \in 0 .. KEYS
        BY HandshakeAssumption DEF Session
      <4>2. /\ tmps' \in [Node \X Node -> 0 .. KEYS] /\ stables' \in [Node \X Node -> 0 .. KEYS]
            /\ ses' = [ses EXCEPT ![k] = r] /\ UNCHANGED dhts
        BY <1>1, <2>5, <3>2, <4>1, TableStep
      <4>3. TypeOK'
        BY ZenonT(40), <1>1, <2>4, <2>7, <4>2, TypeStep, TypeIs
      <4> QED BY ZenonT(40), <1>1, <2>7, <4>2, <4>3, SesStep DEF Alike
    <3> QED BY <3>1, <3>2
  <2>9. Turns(k)
    BY <2>1, <2>6, <2>7, <2>8 DEF Turns, Live, Asks
  <2>10. \A q \in Session : Alike(q) \/ Ends(q) \/ Turns(q)
    BY <2>9 DEF Turns
  <2>11. Carries(h)'
    BY ZenonT(40), <1>1, <2>10, SentKept
  <2>12. (ses[k].pc \notin Asks)' /\ (Running(k)' => Completed(k, p)')
    BY <2>3, <2>4, <2>6, <2>7, <2>8, <2>11 DEF Completed, Carries, Asks, Running
  <2>13. Keys' /\ Sent'
    BY ZenonT(40), <1>1, <2>9, <2>12, TurnStep
  <2>14. \A j \in shakes' : j.stream # k
    BY ZenonT(40), <1>1, <1>2, <1>3 DEF StreamOK
  <2>15. Running(k)' => Dialled(k)'
    <3>1. Answerers(k)' \subseteq {p}
      BY <1>3, <2>3, <2>8 DEF OnStream, Answerers, Alike
    <3>2. key.nonce = k
      BY ZenonT(40), <1>3, <2>3, <2>4 DEF OnStream
    <3> QED BY ZenonT(40), <2>4, <2>6, <2>7, <2>8, <3>1, <3>2 DEF Dialled, Running
  <2>16. ASSUME NEW q \in Session PROVE StreamOK(q)'
    <3>1. k \notin Answerers(q)'
      <4>1. q # 0
        BY DEF Session
      <4> QED BY <2>6, <2>7, <2>8, <4>1 DEF Answerers
    <3>2. \A j \in shakes' : j.stream = q => j \in shakes
      BY <1>1
    <3> QED BY <1>1, <2>9, <2>14, <2>15, <3>1, <3>2, TurnStreams
  <2> QED BY <2>8, <2>13, <2>16 DEF IInv, Streams
<1> QED BY <1>3, <1>4, <1>5 DEF OnStream
----------------------------------------------------------------------------
(* The theorems *)

(* The invariant holds at the start, ... *)
LEMMA InitInv ==
    ASSUME Init
    PROVE  IInv
<1>1. \A k \in Session : ses[k] = Unborn
  BY DEF Init
<1>2. TypeOK
  <2>1. Nowhere \in [Node \X Node -> 0 .. KEYS]
    BY HandshakeAssumption DEF Nowhere
  <2>2. ses \in [Session -> SessionState]
    BY UnbornIs DEF Init
  <2> QED BY <1>1, <2>1, <2>2, UnbornIs DEF Init, TypeOK
<1>3. Keys
  BY <1>1, UnbornIs DEF Keys, Asks, Running
<1>4. Sent
  BY DEF Init, Sent
<1>5. \A s \in Session : Answerers(s) = {}
  BY <1>1, UnbornIs DEF Answerers
<1>6. Streams
  BY <1>1, <1>5, UnbornIs DEF Init, Streams, StreamOK, Running
<1> QED BY <1>2, <1>3, <1>4, <1>6 DEF IInv

(* ... and every step keeps it. *)
LEMMA NextInv ==
    ASSUME IInv, [Next]_vars
    PROVE  IInv'
<1>1. CASE UNCHANGED vars
  <2>1. UNCHANGED <<ses, tmps, dhts, stables, shakes, data>>
    BY <1>1 DEF vars, tables
  <2>2. TypeOK'
    BY <2>1 DEF IInv, TypeOK
  <2> QED BY <2>1, <2>2, StillQuiet, QuietInv
<1>2. ASSUME NEW k \in Session, NEW n \in Node, NEW m \in Node,
             StartRelay(k, n, m) \/ Dial(k, n, m, "connect") \/ Dial(k, n, m, "stable_connect")
      PROVE  IInv'
  BY <1>2, StartRelayInv, DialInv
<1>3. ASSUME NEW k \in Session,
             RelayConnect(k) \/ RelayTimeout(k) \/ Upgrade(k) \/ DialTimeout(k)
               \/ handle_heartbeat(k) \/ Close(k)
      PROVE  IInv'
  BY <1>3, RelayConnectInv, TimeoutsInv, UpgradeInv, HeartbeatInv, ClosedInv DEF Close
<1>4. ASSUME NEW k \in Session, NEW h \in shakes, RelayAnswer(h, k) \/ Incoming(h, k)
      PROVE  IInv'
  BY <1>4, RelayAnswerInv, IncomingInv
<1>5. ASSUME NEW k \in Session, NEW d \in data, handle_core_data(d, k)
      PROVE  IInv'
  BY <1>5, DataInv
<1>6. ASSUME NEW h \in shakes, RelayResult(h) \/ DialAnswered(h)
      PROVE  IInv'
  BY <1>6, RelayResultInv, DialAnsweredInv
<1>7. CASE Lose
  BY <1>7, LoseInv
<1> QED BY <1>1, <1>2, <1>3, <1>4, <1>5, <1>6, <1>7 DEF Next

(* The inductive invariant holds in every state: handshakes carry what a
   session published, keys were completed with what some session published,
   and a connection has one handshake under way and one answerer. *)
THEOREM Invariance == Spec => []IInv
<1>1. Init => IInv
  BY InitInv
<1>2. IInv /\ [Next]_vars => IInv'
  BY NextInv
<1> QED BY <1>1, <1>2, PTL DEF Spec

(* Sessions, tables and messages keep their shape, and a session runs exactly
   when its key is completed. *)
THEOREM Typed == Spec => []TypeOK
<1>1. IInv => TypeOK
  BY DEF IInv
<1> QED BY <1>1, Invariance, PTL

(* A session that asked and one that answered, completed with each other's
   half, use the same nonce, for any number of crossing handshakes. *)
THEOREM Answers == Spec => []AnswerAgrees
<1>1. ASSUME IInv PROVE AnswerAgrees
  <2>1. SUFFICES ASSUME NEW j \in Session, NEW k \in Session,
                        SameCipher(j, k), ses[j].asked, ~ses[k].asked
                 PROVE  SameNonce(j, k)
    BY DEF AnswerAgrees
  <2>2. PICK p \in Session : Completed(j, p)
    BY <1>1, <2>1 DEF IInv, Keys, SameCipher
  <2>3. PICK q \in Session : Completed(k, q)
    BY <1>1, <2>1 DEF IInv, Keys, SameCipher
  <2>4. p = k
    BY ZenonT(40), <2>1, <2>2, <2>3 DEF Completed, SameCipher
  <2>5. Published(k, ses[j].key.nonce)
    BY <2>1, <2>2, <2>4 DEF Completed, SameCipher, Running, Live
  <2> QED BY <2>1, <2>5 DEF Published, SameNonce
<1> QED BY <1>1, Invariance, PTL

(* The two ends of one connection use the same cipher and the same nonce as
   soon as both run, whatever other handshakes are under way. *)
THEOREM Connected == Spec => []StreamAgrees
<1>1. ASSUME IInv PROVE StreamAgrees
  <2>1. SUFFICES ASSUME NEW j \in Session, NEW k \in Session,
                        SameStream(j, k), ses[j].direct, ses[k].direct
                 PROVE  SameCipher(j, k) /\ SameNonce(j, k)
    BY DEF StreamAgrees
  <2>2. PICK s \in Session : s = ses[j].stream /\ s = ses[k].stream
    <3>1. ses[j].stream \in 0 .. KEYS
      BY <1>1, SesIs DEF IInv, SessionState
    <3> QED BY <2>1, <3>1, HandshakeAssumption DEF SameStream, Session
  <2>3. StreamOK(s)
    BY <1>1 DEF IInv, Streams
  <2>4. \A i \in {j, k} : i = s \/ (i \in Answerers(s) /\ Answered(i, s))
    BY ZenonT(40), <2>1, <2>2, <2>3 DEF StreamOK, Answerers
  <2>5. \A i \in {j, k} : i = s => Dialled(s)
    BY <2>1, <2>2, <2>3 DEF StreamOK, SameStream
  <2>6. ses[j].key.nonce = s /\ ses[k].key.nonce = s
    BY <2>4, <2>5 DEF Answered, Dialled
  <2>7. ses[j].key.cipher = ses[k].key.cipher
    BY ZenonT(40), <2>4, <2>5 DEF Answered, Dialled
  <2> QED BY <2>1, <2>6, <2>7 DEF SameStream, SameCipher, SameNonce
<1> QED BY <1>1, Invariance, PTL
=============================================================================
