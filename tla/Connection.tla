----------------------------- MODULE Connection -----------------------------
(***************************************************************************)
(* One connection between two nodes, over TCP or QUIC, from the dial to    *)
(* the end of all its tasks (tcp.rs, quic.rs: process_stream and its       *)
(* callers), with the sessions, or the server, at its two ends             *)
(* (server.rs: the incoming loop; session.rs: direct_stable, forever,      *)
(* close, handle_heartbeat).                                               *)
(*                                                                         *)
(* At each end two tasks share the connection: one writes what its session *)
(* sends, the other passes on what arrives.  Channels and the window of    *)
(* the connection are bounded, so that each may wait for the other side.   *)
(* TcpStream has the bytes of the frames; here a message is one step.      *)
(***************************************************************************)
EXTENDS Naturals, Sequences

CONSTANTS
    KINDS,          \* transports: "tcp", "quic"
    CHANNEL,        \* capacity of a channel (128 in the code)
    WINDOW,         \* messages under way in one direction
    BEATS           \* heartbeats without an answer that are allowed (3)

ASSUME ConnectionAssumption ==
    /\ KINDS \subseteq {"tcp", "quic"} /\ CHANNEL \in Nat \ {0} /\ WINDOW \in Nat \ {0}
    /\ BEATS \in Nat

VARIABLES
    kind,       \* the transport
    dial,       \* "dht": TransportSendMessage::Connect; "stable": StableConnect
    link,       \* "up", or "cut": nothing passes any more
    task,       \* process_stream: "none", "connect", "handshake", "run", "ended"
    writer,     \* its writing task runs
    reader,     \* its reading task runs
    dead,       \* the connection reports an error at this end
    lost,       \* this end wrote something that nobody acknowledged
    wire,       \* messages under way to this end
    out,        \* channel from the session to process_stream
    in,         \* channel from process_stream to the session
    sess,       \* the session
    pending,    \* what the session's present step has still to send
    beats,      \* Session.heartbeat
    answered    \* history: the server of the other end answered with its keys

net == <<link, dead, lost, wire>>
tasks == <<task, writer, reader>>
session == <<sess, pending, beats, answered>>
vars == <<kind, dial, net, tasks, out, in, session>>

Side == {"dialler", "acceptor"}
Other(s) == IF s = "dialler" THEN "acceptor" ELSE "dialler"

(* EndpointMessage; of what is encrypted only heartbeats and their answers
   matter, the rest takes the same way as DHT. *)
Messages == {"Close", "Handshake", "DHT", "Ping", "Pong"}

(* Both ends of its channels go with the session. *)
Over(s) == sess[s] = "over"

(* The receiver of out is dropped with the writing task. *)
Deaf(s) == task[s] = "ended" \/ (task[s] = "run" /\ ~writer[s])

(* Nothing comes from the other end after what is under way. *)
Hangup(s) == link = "up" /\ task[Other(s)] = "ended"
----------------------------------------------------------------------------
(* Dialling, and the handshake *)

(* The connection is there; the dialler has written its keys. *)
Connected ==
    /\ task["dialler"] = "connect" /\ link = "up"
    /\ task' = [s \in Side |-> "handshake"]
    /\ wire' = [wire EXCEPT !["acceptor"] = <<"Handshake">>]
    /\ UNCHANGED <<kind, dial, link, dead, lost, writer, reader, out, in, session>>

(* It cannot be made: only the session that asked for one is told. *)
ConnectFails ==
    /\ task["dialler"] = "connect"
    /\ task' = [task EXCEPT !["dialler"] = "ended"]
    /\ in' = IF dial = "stable" THEN [in EXCEPT !["dialler"] = <<"Close">>] ELSE in
    /\ UNCHANGED <<kind, dial, net, writer, reader, out, session>>

(* Faulty: the first message is taken for keys, whatever it is. *)
TrustingReadHandshake(s) ==
    /\ task[s] = "handshake" /\ ~dead[s] /\ wire[s] # <<>>
    /\ wire' = [wire EXCEPT ![s] = Tail(@)]
    /\ task' = [task EXCEPT ![s] = "run"]
    /\ writer' = [writer EXCEPT ![s] = TRUE]
    /\ reader' = [reader EXCEPT ![s] = TRUE]
    /\ IF s = "dialler" /\ dial = "stable"
       THEN in' = [in EXCEPT ![s] = Append(@, "Handshake")] /\ UNCHANGED sess
       ELSE sess' = [sess EXCEPT ![s] = "offered"] /\ UNCHANGED in
    /\ UNCHANGED <<kind, dial, link, dead, lost, out, pending, beats, answered>>

(* The first message must be the keys of the other end. They go to the
   session that waits for them, or to the server. *)
ReadHandshake(s) ==
    /\ task[s] = "handshake" /\ ~dead[s] /\ wire[s] # <<>>
    /\ wire' = [wire EXCEPT ![s] = Tail(@)]
    /\ IF Head(wire[s]) = "Handshake"
       THEN /\ task' = [task EXCEPT ![s] = "run"]
            /\ writer' = [writer EXCEPT ![s] = TRUE]
            /\ reader' = [reader EXCEPT ![s] = TRUE]
            /\ IF s = "dialler" /\ dial = "stable"
               THEN in' = [in EXCEPT ![s] = Append(@, "Handshake")] /\ UNCHANGED sess
               ELSE sess' = [sess EXCEPT ![s] = "offered"] /\ UNCHANGED in
       ELSE /\ task' = [task EXCEPT ![s] = "ended"]
            /\ UNCHANGED <<writer, reader, in, sess>>
    /\ UNCHANGED <<kind, dial, link, dead, lost, out, pending, beats, answered>>

(* An error, the end of the stream, or ten seconds: nobody is told. *)
NoHandshake(s) ==
    /\ task[s] = "handshake"
    /\ task' = [task EXCEPT ![s] = "ended"]
    /\ UNCHANGED <<kind, dial, net, writer, reader, out, in, session>>
----------------------------------------------------------------------------
(* The two tasks: process_stream ends when both have. *)

WriterEnds(s) ==
    /\ writer' = [writer EXCEPT ![s] = FALSE]
    /\ out' = [out EXCEPT ![s] = <<>>]
    /\ task' = IF reader[s] THEN task ELSE [task EXCEPT ![s] = "ended"]

ReaderEnds(s) ==
    /\ reader' = [reader EXCEPT ![s] = FALSE]
    /\ task' = IF writer[s] THEN task ELSE [task EXCEPT ![s] = "ended"]

(* What is written waits for room in the window. A link that is cut takes
   one message more, and one that failed takes all: errors are ignored. *)
Carries(s, m) ==
    LET o == Other(s)
    IN  \/ /\ ~dead[s] /\ link = "up" /\ task[o] # "ended" /\ Len(wire[o]) < WINDOW
           /\ wire' = [wire EXCEPT ![o] = Append(@, m)]
           /\ UNCHANGED lost
        \/ /\ ~dead[s] /\ link = "cut" /\ ~lost[s]
           /\ lost' = [lost EXCEPT ![s] = TRUE]
           /\ UNCHANGED wire
        \/ /\ dead[s] \/ Hangup(s)
           /\ UNCHANGED <<wire, lost>>

(* Over QUIC, where every message opens a stream, an error ends the task. *)
Write(s) ==
    /\ writer[s] /\ out[s] # <<>>
    /\ IF kind = "quic" /\ dead[s]
       THEN WriterEnds(s) /\ UNCHANGED <<wire, lost>>
       ELSE /\ Carries(s, Head(out[s]))
            /\ IF Head(out[s]) = "Close" THEN WriterEnds(s)
               ELSE out' = [out EXCEPT ![s] = Tail(@)] /\ UNCHANGED <<writer, task>>
    /\ UNCHANGED <<kind, dial, link, dead, reader, in, session>>

(* The session dropped its sender. *)
WriteNothing(s) ==
    /\ writer[s] /\ out[s] = <<>> /\ Over(s)
    /\ WriterEnds(s)
    /\ UNCHANGED <<kind, dial, net, reader, in, session>>

(* Faulty: an unbounded channel. *)
UnboundedTell(s, m) ==
    in' = IF Over(s) THEN in ELSE [in EXCEPT ![s] = Append(@, m)]

(* What is read goes to the session, or nowhere when that is over. *)
Tell(s, m) ==
    \/ Over(s) /\ UNCHANGED in
    \/ ~Over(s) /\ Len(in[s]) < CHANNEL /\ in' = [in EXCEPT ![s] = Append(@, m)]

Read(s) ==
    /\ reader[s] /\ ~dead[s] /\ wire[s] # <<>>
    /\ wire' = [wire EXCEPT ![s] = Tail(@)]
    /\ Tell(s, Head(wire[s]))
    /\ UNCHANGED <<kind, dial, link, dead, lost, tasks, out, session>>

(* The end of the stream or an error: TCP tells the session, QUIC does not. *)
ReadEnd(s) ==
    /\ reader[s]
    /\ dead[s] \/ (kind = "tcp" /\ Hangup(s) /\ wire[s] = <<>>)
    /\ IF kind = "tcp" THEN Tell(s, "Close") ELSE UNCHANGED in
    /\ ReaderEnds(s)
    /\ UNCHANGED <<kind, dial, net, writer, out, session>>
----------------------------------------------------------------------------
(* The network *)

(* The link goes; of what is under way some part has arrived. *)
Cut ==
    /\ link = "up"
    /\ link' = "cut"
    /\ \E keep \in [Side -> 0 .. WINDOW] :
          /\ \A s \in Side : keep[s] <= Len(wire[s])
          /\ wire' = [s \in Side |-> SubSeq(wire[s], 1, keep[s])]
          /\ lost' = [s \in Side |-> keep[Other(s)] < Len(wire[Other(s)])]
    /\ UNCHANGED <<kind, dial, dead, tasks, out, in, session>>

(* TCP gives up when nobody acknowledges what it sent. *)
TcpTimeout(s) ==
    /\ kind = "tcp" /\ link = "cut" /\ lost[s]
    /\ dead' = [dead EXCEPT ![s] = TRUE]

(* Faulty: no idle timeout. *)
PatientQuicEnds(s) ==
    /\ kind = "quic" /\ Hangup(s)
    /\ dead' = [dead EXCEPT ![s] = TRUE]

(* QUIC closes with the last handle; a connection over which nothing passes
   for five seconds times out. *)
Quiet == link = "cut" \/ \A s \in Side : ~(sess[s] = "open" /\ writer[s])

QuicEnds(s) ==
    /\ kind = "quic" /\ (Hangup(s) \/ Quiet)
    /\ dead' = [dead EXCEPT ![s] = TRUE]

NetworkEnds(s) ==
    /\ task[s] \in {"handshake", "run"} /\ ~dead[s]
    /\ TcpTimeout(s) \/ QuicEnds(s)
    /\ UNCHANGED <<kind, dial, link, lost, wire, tasks, out, in, session>>
----------------------------------------------------------------------------
(* The server, and the session *)

(* The session goes to another state, with something to send, what is left
   in its channel, and its count of heartbeats; when it is over all go. *)
Goes(s, to, sending, inbox, count) ==
    /\ sess' = [sess EXCEPT ![s] = to]
    /\ pending' = [pending EXCEPT ![s] = sending]
    /\ in' = [in EXCEPT ![s] = IF to = "over" THEN <<>> ELSE inbox]
    /\ beats' = [beats EXCEPT ![s] = IF to = "over" THEN 0 ELSE count]
    /\ UNCHANGED <<kind, dial, net, tasks>>

Does(s, to, sending) == Goes(s, to, sending, in[s], beats[s])

(* The server takes the connection: it answers with its keys, unless the
   node dialled, and with the peers it knows. *)
Accept(s) ==
    /\ sess[s] = "offered"
    /\ Does(s, "accepted", IF s = "acceptor" THEN <<"Handshake", "DHT">> ELSE <<"DHT">>)
    /\ UNCHANGED <<out, answered>>

(* The server refuses: a blocked peer or wrong keys, or, after it answered,
   a peer it has already. *)
Refuse(s) ==
    /\ sess[s] = "offered"
    /\ \/ Does(s, "closing", <<"Close">>)
       \/ s = "acceptor" /\ Does(s, "closing", <<"Handshake", "Close">>)
    /\ UNCHANGED <<out, answered>>

(* direct_stable gets the keys it waits for, or a Close. It drops its ends of
   the channels when it fails. *)
StableAnswer ==
    LET s == "dialler"
        keys == Head(in[s]) = "Handshake"
    IN  /\ sess[s] = "waiting" /\ in[s] # <<>>
        /\ \/ keys /\ Goes(s, "open", <<"DHT">>, Tail(in[s]), 0)
           \/ keys /\ Goes(s, "closing", <<"Close">>, Tail(in[s]), 0)
           \/ Goes(s, "over", <<>>, <<>>, 0)
        /\ UNCHANGED <<out, answered>>

(* What comes after the last message of the present step. *)
Then(s) ==
    CASE sess[s] = "accepted" -> "open"
      [] sess[s] = "closing" -> "over"
      [] OTHER -> sess[s]

Sent(s) ==
    LET rest == Tail(pending[s])
    IN  Does(s, IF rest = <<>> THEN Then(s) ELSE sess[s], rest)

(* The present step sends; it waits while the channel is full. *)
Send(s) ==
    /\ pending[s] # <<>> /\ ~Deaf(s) /\ Len(out[s]) < CHANNEL
    /\ out' = [out EXCEPT ![s] = Append(@, Head(pending[s]))]
    /\ Sent(s)
    /\ answered' = (answered \/ (s = "acceptor" /\ Head(pending[s]) = "Handshake"))

(* Nobody receives: that ends a session, and the server ignores it. *)
SendFails(s) ==
    /\ pending[s] # <<>> /\ Deaf(s)
    /\ IF sess[s] = "open" THEN Does(s, "over", <<>>) ELSE Sent(s)
    /\ UNCHANGED <<out, answered>>

(* Session::close(true): a stable session tells the other end. *)
Ends(s) == Does(s, "closing", <<"Close">>) \/ Does(s, "over", <<>>)

Ready(s) == sess[s] = "open" /\ pending[s] = <<>>

(* Session::handle_endpoint *)
Handle(s) ==
    /\ Ready(s) /\ in[s] # <<>>
    /\ LET m == Head(in[s])
           inbox == Tail(in[s])
       IN  /\ CASE m = "Close" -> Ends(s)
                [] m = "Ping" -> Goes(s, "open", <<"Pong">>, inbox, beats[s])
                [] m = "Pong" -> Goes(s, "open", <<>>, inbox, 0)
                [] OTHER -> Goes(s, "open", <<>>, inbox, beats[s])
    /\ UNCHANGED <<out, answered>>

(* Faulty: heartbeats are not counted. *)
TirelessHeartbeat(s) ==
    /\ Ready(s)
    /\ Does(s, "open", <<"Ping">>)
    /\ UNCHANGED <<out, answered>>

(* Session::handle_heartbeat *)
Heartbeat(s) ==
    /\ Ready(s)
    /\ IF beats[s] > BEATS THEN Ends(s)
       ELSE Goes(s, "open", <<"Ping">>, in[s], beats[s] + 1)
    /\ UNCHANGED <<out, answered>>

(* The application, or the server, closes the session. *)
AppClose(s) ==
    /\ Ready(s)
    /\ Ends(s)
    /\ UNCHANGED <<out, answered>>
----------------------------------------------------------------------------
Init ==
    /\ kind \in KINDS /\ dial \in {"dht", "stable"} /\ link = "up"
    /\ task = [s \in Side |-> IF s = "dialler" THEN "connect" ELSE "none"]
    /\ writer = [s \in Side |-> FALSE] /\ reader = [s \in Side |-> FALSE]
    /\ dead = [s \in Side |-> FALSE] /\ lost = [s \in Side |-> FALSE]
    /\ wire = [s \in Side |-> <<>>]
    /\ out = [s \in Side |-> <<>>] /\ in = [s \in Side |-> <<>>]
    /\ sess = [s \in Side |-> IF s = "dialler" /\ dial = "stable" THEN "waiting" ELSE "none"]
    /\ pending = [s \in Side |-> <<>>] /\ beats = [s \in Side |-> 0]
    /\ answered = FALSE

Dialled == Connected \/ ConnectFails
Shake(s) == ReadHandshake(s) \/ NoHandshake(s)
Writing(s) == Write(s) \/ WriteNothing(s)
Reading(s) == Read(s) \/ ReadEnd(s)
Serve(s) == Accept(s) \/ Refuse(s) \/ Send(s) \/ SendFails(s) \/ Handle(s)

Next ==
    \/ Dialled \/ Cut \/ StableAnswer
    \/ \E s \in Side :
        \/ Shake(s) \/ Writing(s) \/ Reading(s) \/ NetworkEnds(s)
        \/ Serve(s) \/ Heartbeat(s) \/ AppClose(s)

(* Tasks run and timers fire; the application and the link may do nothing. *)
Fairness ==
    /\ WF_vars(Dialled) /\ WF_vars(StableAnswer)
    /\ \A s \in Side :
        /\ WF_vars(Shake(s)) /\ WF_vars(Writing(s)) /\ WF_vars(Reading(s))
        /\ WF_vars(NetworkEnds(s)) /\ WF_vars(Serve(s)) /\ WF_vars(Heartbeat(s))

Spec == Init /\ [][Next]_vars /\ Fairness
----------------------------------------------------------------------------
(* Properties *)

Short(q, n) == q \in Seq(Messages) /\ Len(q) <= n

(* Types of the state, and the bounds of channels and window. *)
TypeOK ==
    /\ task \in [Side -> {"none", "connect", "handshake", "run", "ended"}]
    /\ sess \in [Side -> {"none", "waiting", "offered", "accepted", "open", "closing", "over"}]
    /\ writer \in [Side -> BOOLEAN] /\ reader \in [Side -> BOOLEAN]
    /\ beats \in [Side -> 0 .. BEATS + 1]
    /\ \A s \in Side :
        /\ Short(wire[s], WINDOW) /\ Short(out[s], CHANNEL)
        /\ Short(in[s], CHANNEL) /\ Short(pending[s], 2)

(* The node that dialled has a session, or offers one to its server, only
   when the other node's server answered with its keys: not when that refused
   or closed first (tcp.rs and quic.rs: process_stream). *)
AnsweredFirst ==
    sess["dialler"] \in {"offered", "accepted", "open"} => answered

(* A session whose other end is over, or whose link is cut, is over in the
   end: also when QUIC's reader ends without a word, when no Close is sent,
   and when the session waits for a full channel (session.rs 561-611,
   885-892). *)
Alone(s) == link = "cut" \/ Over(Other(s)) \/ task[s] = "ended"

SessionEnds == \A s \in Side : sess[s] = "open" /\ Alone(s) ~> Over(s)

Released == \A s \in Side : Over(s) \/ task[s] = "ended"
AllEnded == \A s \in Side : task[s] = "ended"

(* Over QUIC the tasks of a connection end when both sessions have: each
   reader waits for the other end, and the idle timeout ends both
   (quic.rs 301-315). *)
QuicTasksEnd == kind = "quic" /\ Released ~> AllEnded

(* Closing a connection ends its tasks, also over TCP: "use it force close"
   (message.rs 74). *)
TasksEnd == Released ~> AllEnded \/ link = "cut"

(* direct_stable gets an answer: "if failure, will send `PeerLeave` to
   outside." (message.rs 70) *)
StableAnswered == sess["dialler"] = "waiting" ~> sess["dialler"] # "waiting"
=============================================================================
