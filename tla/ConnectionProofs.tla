-------------------------- MODULE ConnectionProofs --------------------------
(***************************************************************************)
(* Proofs about Connection, for channels and windows of any capacity and   *)
(* any number of heartbeats: no channel overflows, and a node that dialled *)
(* has a session only after the other node's server answered.              *)
(***************************************************************************)
EXTENDS Connection, TLAPS

(* No keys among the messages of a queue. *)
Silent(q) == \A i \in 1 .. Len(q) : q[i] # "Handshake"

Boxes(f, n) == f \in [Side -> Seq(Messages)] /\ \A s \in Side : Len(f[s]) <= n

States == {"none", "waiting", "offered", "accepted", "open", "closing", "over"}

Shape ==
    /\ task \in [Side -> {"none", "connect", "handshake", "run", "ended"}]
    /\ sess \in [Side -> States]
    /\ writer \in [Side -> BOOLEAN] /\ reader \in [Side -> BOOLEAN]
    /\ beats \in [Side -> 0 .. BEATS + 1]
    /\ Boxes(wire, WINDOW) /\ Boxes(out, CHANNEL) /\ Boxes(in, CHANNEL) /\ Boxes(pending, 2)

(* Before the handshake nothing was passed to the session: there is room for
   the keys, which process_stream sends without waiting. *)
Early(s) == task[s] \in {"none", "connect", "handshake"}

Fresh ==
    /\ task["dialler"] = "connect" => task["acceptor"] = "none"
    /\ \A s \in Side : Early(s) => in[s] = <<>> /\ ~reader[s] /\ ~writer[s]

(* Without an answer there are no keys on the way to the dialler. *)
Serving == {"offered", "accepted", "open"}

Keyed ==
    answered \/ /\ Silent(wire["dialler"]) /\ Silent(in["dialler"]) /\ Silent(out["acceptor"])
                /\ sess["dialler"] \notin Serving

IInv == Shape /\ Fresh /\ Keyed
----------------------------------------------------------------------------
(* Queues *)

(* Taking a message from a queue, ... *)
LEMMA Taken ==
    ASSUME NEW q \in Seq(Messages), NEW n \in Nat, Len(q) <= n, q # <<>>
    PROVE  /\ Head(q) \in Messages /\ Tail(q) \in Seq(Messages) /\ Len(Tail(q)) <= n
           /\ Silent(q) => Silent(Tail(q)) /\ Head(q) # "Handshake"
<1>1. Head(q) = q[1] /\ 1 \in 1 .. Len(q) /\ Tail(q) \in Seq(Messages) /\ Len(Tail(q)) = Len(q) - 1
  OBVIOUS
<1>2. \A i \in 1 .. Len(Tail(q)) : Tail(q)[i] = q[i + 1] /\ i + 1 \in 1 .. Len(q)
  OBVIOUS
<1>3. Head(q) \in Messages
  OBVIOUS
<1> QED BY <1>1, <1>2, <1>3 DEF Silent

(* ... adding one, ... *)
LEMMA Added ==
    ASSUME NEW q \in Seq(Messages), NEW n \in Nat, Len(q) < n, NEW m \in Messages
    PROVE  /\ Append(q, m) \in Seq(Messages) /\ Len(Append(q, m)) <= n
           /\ Silent(q) /\ m # "Handshake" => Silent(Append(q, m))
<1>1. Append(q, m) \in Seq(Messages) /\ Len(Append(q, m)) = Len(q) + 1
  OBVIOUS
<1>2. \A i \in 1 .. Len(q) + 1 : Append(q, m)[i] = IF i = Len(q) + 1 THEN m ELSE q[i]
  OBVIOUS
<1> QED BY <1>1, <1>2 DEF Silent

(* ... and losing the last ones. *)
LEMMA CutShort ==
    ASSUME NEW q \in Seq(Messages), NEW n \in Nat, Len(q) <= n, NEW k \in 0 .. n, k <= Len(q)
    PROVE  /\ SubSeq(q, 1, k) \in Seq(Messages) /\ Len(SubSeq(q, 1, k)) <= n
           /\ Silent(q) => Silent(SubSeq(q, 1, k))
<1>1. SubSeq(q, 1, k) \in Seq(Messages) /\ Len(SubSeq(q, 1, k)) = k
  OBVIOUS
<1>2. \A i \in 1 .. k : SubSeq(q, 1, k)[i] = q[i] /\ i \in 1 .. Len(q)
  OBVIOUS
<1> QED BY <1>1, <1>2 DEF Silent

(* One queue of a pair. *)
LEMMA BoxIs ==
    ASSUME NEW f, NEW n \in Nat, Boxes(f, n), NEW s \in Side
    PROVE  f[s] \in Seq(Messages) /\ Len(f[s]) \in Nat /\ Len(f[s]) <= n
BY DEF Boxes

(* The empty queue. *)
LEMMA EmptyIs ==
    <<>> \in Seq(Messages) /\ Len(<<>>) = 0 /\ Silent(<<>>)
BY DEF Silent

(* The two ends. *)
LEMMA SideIs ==
    /\ "dialler" \in Side /\ "acceptor" \in Side /\ "dialler" # "acceptor"
    /\ \A s \in Side : Other(s) \in Side /\ Other(s) # s /\ (s = "dialler" \/ s = "acceptor")
BY DEF Side, Other

(* The strengthened shape has the types and bounds of TypeOK. *)
LEMMA ShapeType ==
    ASSUME Shape
    PROVE  TypeOK
<1>1. \A f, n : Boxes(f, n) => \A s \in Side : Short(f[s], n)
  BY DEF Boxes, Short
<1> QED BY <1>1 DEF Shape, TypeOK, States

----------------------------------------------------------------------------
(* Steps of the session *)

(* A step of the session leaves the queues within their bounds, and passes
   nothing to a session that has no task yet. *)
LEMMA GoesShape ==
    ASSUME Shape, Fresh, NEW s \in Side, NEW to \in States,
           NEW sending \in Seq(Messages), Len(sending) <= 2, NEW count \in 0 .. BEATS + 1,
           NEW inbox, \/ inbox = in[s]
                      \/ in[s] # <<>> /\ inbox = Tail(in[s])
                      \/ inbox = <<>>,
           Goes(s, to, sending, inbox, count), Boxes(out, CHANNEL)'
    PROVE  /\ Shape' /\ Fresh'
           /\ Silent(in["dialler"]) => Silent(in'["dialler"])
           /\ \A r \in Side : sess'[r] = IF r = s THEN to ELSE sess[r]
<1> DEFINE box == IF to = "over" THEN <<>> ELSE inbox
<1>1. /\ sess' = [sess EXCEPT ![s] = to] /\ pending' = [pending EXCEPT ![s] = sending]
      /\ in' = [in EXCEPT ![s] = box]
      /\ beats' = [beats EXCEPT ![s] = IF to = "over" THEN 0 ELSE count]
      /\ UNCHANGED <<link, dead, lost, wire, task, writer, reader>>
  BY DEF Goes, net, tasks
<1>2. in[s] \in Seq(Messages) /\ Len(in[s]) <= CHANNEL /\ Boxes(in, CHANNEL) /\ CHANNEL \in Nat
  BY BoxIs, ConnectionAssumption DEF Shape
<1>3. /\ box \in Seq(Messages) /\ Len(box) <= CHANNEL /\ (Silent(in[s]) => Silent(box))
      /\ in[s] = <<>> => box = <<>>
  <2>1. box = in[s] \/ (in[s] # <<>> /\ box = Tail(in[s])) \/ box = <<>>
    OBVIOUS
  <2> HIDE DEF box
  <2>2. CASE in[s] # <<>> /\ box = Tail(in[s])
    BY <1>2, <2>2, Taken
  <2>3. CASE box = <<>>
    BY <1>2, <2>3, EmptyIs
  <2> QED BY <1>2, <2>1, <2>2, <2>3
<1> HIDE DEF box
<1>4. Boxes(in, CHANNEL)' /\ \A r \in Side : in'[r] = IF r = s THEN box ELSE in[r]
  BY <1>1, <1>2, <1>3 DEF Boxes
<1>5. Boxes(pending, 2)'
  BY <1>1 DEF Shape, Boxes
<1>6. beats' \in [Side -> 0 .. BEATS + 1] /\ sess' \in [Side -> States]
  BY <1>1, ConnectionAssumption DEF Shape
<1>7. Shape'
  BY <1>1, <1>4, <1>5, <1>6 DEF Shape
<1>8. Fresh'
  BY <1>1, <1>3, <1>4 DEF Fresh, Early
<1>9. \A r \in Side : sess'[r] = IF r = s THEN to ELSE sess[r]
  BY <1>1 DEF Shape
<1> QED BY <1>3, <1>4, <1>7, <1>8, <1>9, SideIs

(* It keeps the invariant if the dialler's session goes on, ends, or was
   answered. *)
LEMMA GoesInv ==
    ASSUME IInv, NEW s \in Side, NEW to \in States,
           NEW sending \in Seq(Messages), Len(sending) <= 2, NEW count \in 0 .. BEATS + 1,
           NEW inbox, \/ inbox = in[s]
                      \/ in[s] # <<>> /\ inbox = Tail(in[s])
                      \/ inbox = <<>>,
           Goes(s, to, sending, inbox, count), UNCHANGED <<out, answered>>,
           s = "dialler" /\ to \in Serving => answered \/ sess[s] \in Serving
    PROVE  IInv'
<1>1. Boxes(out, CHANNEL)'
  BY DEF IInv, Shape
<1>2. /\ Shape' /\ Fresh' /\ (Silent(in["dialler"]) => Silent(in'["dialler"]))
      /\ \A r \in Side : sess'[r] = IF r = s THEN to ELSE sess[r]
  BY <1>1, GoesShape DEF IInv
<1>3. UNCHANGED wire
  BY DEF Goes, net
<1>4. Keyed'
  BY <1>2, <1>3, SideIs DEF IInv, Keyed
<1> QED BY <1>2, <1>4 DEF IInv

(* What a session sends in one step is at most two messages. *)
LEMMA SayIs ==
    /\ \A m \in Messages : <<m>> \in Seq(Messages) /\ Len(<<m>>) <= 2
    /\ \A m, n \in Messages : <<m, n>> \in Seq(Messages) /\ Len(<<m, n>>) <= 2
    /\ <<>> \in Seq(Messages) /\ Len(<<>>) <= 2
OBVIOUS

(* Does is such a step. *)
LEMMA DoesInv ==
    ASSUME IInv, NEW s \in Side, NEW to \in States,
           NEW sending \in Seq(Messages), Len(sending) <= 2, Does(s, to, sending),
           UNCHANGED <<out, answered>>,
           s = "dialler" /\ to \in Serving => answered \/ sess[s] \in Serving
    PROVE  IInv'
<1>1. beats[s] \in 0 .. BEATS + 1
  BY DEF IInv, Shape
<1>2. Goes(s, to, sending, in[s], beats[s])
  BY DEF Does
<1> QED BY <1>1, <1>2, GoesInv

(* So is closing. *)
LEMMA EndsInv ==
    ASSUME IInv, NEW s \in Side, Ends(s), UNCHANGED <<out, answered>>
    PROVE  IInv'
<1>1. "Close" \in Messages /\ {"closing", "over"} \subseteq States /\ "closing" \notin Serving
      /\ "over" \notin Serving
  BY DEF Messages, States, Serving
<1>2. CASE Does(s, "closing", <<"Close">>)
  BY <1>1, <1>2, SayIs, DoesInv
<1>3. CASE Does(s, "over", <<>>)
  BY <1>1, <1>3, SayIs, DoesInv
<1> QED BY <1>2, <1>3 DEF Ends

(* The server takes the connection or refuses it. *)
LEMMA OfferedInv ==
    ASSUME IInv, NEW s \in Side, Accept(s) \/ Refuse(s)
    PROVE  IInv'
<1>1. /\ {"Handshake", "DHT", "Close"} \subseteq Messages
      /\ {"accepted", "closing"} \subseteq States /\ "closing" \notin Serving
      /\ sess[s] \in Serving /\ UNCHANGED <<out, answered>>
  BY DEF Messages, States, Serving, Accept, Refuse
<1>2. CASE Accept(s)
  BY <1>1, <1>2, SayIs, DoesInv DEF Accept
<1>3. CASE Refuse(s)
  BY <1>1, <1>3, SayIs, DoesInv DEF Refuse
<1> QED BY <1>2, <1>3

(* The session that dialled gets keys, which only an answer brings, or a
   Close. *)
LEMMA StableAnswerInv ==
    ASSUME IInv, StableAnswer
    PROVE  IInv'
<1> DEFINE s == "dialler"
<1>1. /\ {"DHT", "Close"} \subseteq Messages /\ {"open", "closing", "over"} \subseteq States
      /\ "closing" \notin Serving /\ "over" \notin Serving /\ s \in Side
      /\ 0 \in 0 .. BEATS + 1
  BY ConnectionAssumption DEF Messages, States, Serving, Side
<1>2. UNCHANGED <<out, answered>> /\ in[s] # <<>>
  BY DEF StableAnswer
<1>3. in[s] \in Seq(Messages) /\ Len(in[s]) <= CHANNEL /\ CHANNEL \in Nat
  BY <1>1, BoxIs, ConnectionAssumption DEF IInv, Shape
<1>4. Head(in[s]) = "Handshake" => answered
  BY <1>2, <1>3, Taken DEF IInv, Keyed
<1>5. CASE Head(in[s]) = "Handshake" /\ Goes(s, "open", <<"DHT">>, Tail(in[s]), 0)
  BY <1>1, <1>2, <1>4, <1>5, SayIs, GoesInv
<1>6. CASE Goes(s, "closing", <<"Close">>, Tail(in[s]), 0)
  BY <1>1, <1>2, <1>6, SayIs, GoesInv
<1>7. CASE Goes(s, "over", <<>>, <<>>, 0)
  BY <1>1, <1>2, <1>7, SayIs, GoesInv
<1> QED BY <1>5, <1>6, <1>7 DEF StableAnswer

(* What is left to send after the present message, and the state after it. *)
LEMMA SentIs ==
    ASSUME IInv, NEW s \in Side, pending[s] # <<>>, Sent(s)
    PROVE  \E to \in States, rest \in Seq(Messages) :
              /\ Len(rest) <= 2 /\ Does(s, to, rest)
              /\ to \in Serving => sess[s] \in Serving
<1> DEFINE rest == Tail(pending[s])
           to == IF rest = <<>> THEN Then(s) ELSE sess[s]
<1>1. pending[s] \in Seq(Messages) /\ Len(pending[s]) <= 2
  BY BoxIs DEF IInv, Shape
<1>2. rest \in Seq(Messages) /\ Len(rest) <= 2
  BY <1>1, Taken
<1>3. to \in States /\ (to \in Serving => sess[s] \in Serving)
  <2>1. sess[s] \in States
    BY DEF IInv, Shape
  <2> QED BY <2>1 DEF Then, States, Serving
<1>4. Does(s, to, rest)
  BY DEF Sent
<1> HIDE DEF rest, to
<1> QED BY <1>2, <1>3, <1>4

(* The session sends: when the acceptor sends its keys, that is the answer. *)
LEMMA SendInv ==
    ASSUME IInv, NEW s \in Side, Send(s)
    PROVE  IInv'
<1>1. /\ pending[s] # <<>> /\ Len(out[s]) < CHANNEL /\ Sent(s)
      /\ out' = [out EXCEPT ![s] = Append(@, Head(pending[s]))]
      /\ answered' = (answered \/ (s = "acceptor" /\ Head(pending[s]) = "Handshake"))
  BY DEF Send
<1>2. PICK to \in States, rest \in Seq(Messages) :
         /\ Len(rest) <= 2 /\ Does(s, to, rest) /\ (to \in Serving => sess[s] \in Serving)
  BY <1>1, SentIs
<1>3. pending[s] \in Seq(Messages) /\ Len(pending[s]) <= 2
  BY BoxIs DEF IInv, Shape
<1>4. Head(pending[s]) \in Messages
  BY <1>1, <1>3, Taken
<1>5. out[s] \in Seq(Messages) /\ Boxes(out, CHANNEL) /\ CHANNEL \in Nat
  BY BoxIs, ConnectionAssumption DEF IInv, Shape
<1>6. PICK m \in Messages : m = Head(pending[s])
  BY <1>4
<1>7. PICK q \in Seq(Messages) : q = Append(out[s], m)
  BY <1>1, <1>5, Added
<1>8. Len(q) <= CHANNEL /\ (Silent(out[s]) /\ m # "Handshake" => Silent(q))
  BY <1>1, <1>5, <1>7, Added
<1>9. out' = [out EXCEPT ![s] = q]
  BY <1>1, <1>6, <1>7
<1>10. Boxes(out, CHANNEL)' /\ \A r \in Side : out'[r] = IF r = s THEN q ELSE out[r]
  BY <1>5, <1>8, <1>9 DEF Boxes
<1>11. beats[s] \in 0 .. BEATS + 1 /\ Goes(s, to, rest, in[s], beats[s])
  BY <1>2 DEF IInv, Shape, Does
<1>12. /\ Shape' /\ Fresh' /\ (Silent(in["dialler"]) => Silent(in'["dialler"]))
       /\ \A r \in Side : sess'[r] = IF r = s THEN to ELSE sess[r]
  BY <1>2, <1>10, <1>11, GoesShape DEF IInv
<1>13. UNCHANGED wire
  BY <1>11 DEF Goes, net
<1>14. CASE answered'
  BY <1>12, <1>14 DEF IInv, Keyed
<1>15. CASE ~answered'
  <2>1. ~answered /\ (s = "acceptor" => m # "Handshake")
    BY <1>1, <1>6, <1>15
  <2>2. Silent(out'["acceptor"])
    BY <1>8, <1>10, <2>1, SideIs DEF IInv, Keyed
  <2>3. sess'["dialler"] \notin Serving
    BY <1>2, <1>12, <2>1, SideIs DEF IInv, Keyed
  <2>4. Silent(in'["dialler"]) /\ Silent(wire'["dialler"])
    BY <1>12, <1>13, <2>1 DEF IInv, Keyed
  <2>5. Keyed'
    BY <2>2, <2>3, <2>4 DEF Keyed
  <2> QED BY <1>12, <2>5 DEF IInv
<1> QED BY <1>14, <1>15

(* Nobody receives what the session sends. *)
LEMMA SendFailsInv ==
    ASSUME IInv, NEW s \in Side, SendFails(s)
    PROVE  IInv'
<1>1. pending[s] # <<>> /\ UNCHANGED <<out, answered>> /\ "over" \in States /\ "over" \notin Serving
  BY DEF SendFails, States, Serving
<1>2. CASE Does(s, "over", <<>>)
  BY <1>1, <1>2, SayIs, DoesInv
<1>3. CASE Sent(s)
  <2>1. PICK to \in States, rest \in Seq(Messages) :
           /\ Len(rest) <= 2 /\ Does(s, to, rest) /\ (to \in Serving => sess[s] \in Serving)
    BY <1>1, <1>3, SentIs
  <2> QED BY <1>1, <2>1, DoesInv
<1> QED BY <1>2, <1>3 DEF SendFails

(* The session takes a message, its timer expires, or it is closed. *)
LEMMA OpenInv ==
    ASSUME IInv, NEW s \in Side, Handle(s) \/ Heartbeat(s) \/ AppClose(s)
    PROVE  IInv'
<1>1. /\ {"Ping", "Pong"} \subseteq Messages /\ "open" \in States
      /\ sess[s] \in Serving /\ UNCHANGED <<out, answered>> /\ 0 \in 0 .. BEATS + 1
      /\ beats[s] \in 0 .. BEATS + 1
  BY ConnectionAssumption DEF Messages, States, Serving, Handle, Heartbeat, AppClose, Ready, IInv, Shape
<1>2. CASE Ends(s)
  BY <1>1, <1>2, EndsInv
<1>3. CASE Heartbeat(s) /\ ~Ends(s)
  <2>1. Goes(s, "open", <<"Ping">>, in[s], beats[s] + 1) /\ beats[s] <= BEATS
    BY <1>1, <1>3, ConnectionAssumption DEF Heartbeat
  <2>2. beats[s] + 1 \in 0 .. BEATS + 1
    BY <1>1, <2>1, ConnectionAssumption
  <2> QED BY <1>1, <2>1, <2>2, SayIs, GoesInv
<1>4. CASE Handle(s) /\ ~Ends(s)
  <2>1. /\ in[s] # <<>>
        /\ \/ Goes(s, "open", <<"Pong">>, Tail(in[s]), beats[s])
           \/ Goes(s, "open", <<>>, Tail(in[s]), 0)
           \/ Goes(s, "open", <<>>, Tail(in[s]), beats[s])
    BY <1>4 DEF Handle
  <2> QED BY <1>1, <2>1, SayIs, GoesInv
<1> QED BY <1>2, <1>3, <1>4 DEF AppClose

----------------------------------------------------------------------------
(* Steps of the connection *)

(* A message is taken from the connection. *)
LEMMA WireTaken ==
    ASSUME IInv, NEW s \in Side, wire[s] # <<>>, wire' = [wire EXCEPT ![s] = Tail(@)]
    PROVE  /\ Boxes(wire, WINDOW)' /\ Head(wire[s]) \in Messages
           /\ Silent(wire["dialler"]) => Silent(wire'["dialler"])
           /\ s = "dialler" /\ Silent(wire["dialler"]) => Head(wire[s]) # "Handshake"
<1>1. wire[s] \in Seq(Messages) /\ Len(wire[s]) <= WINDOW /\ WINDOW \in Nat /\ Boxes(wire, WINDOW)
  BY BoxIs, ConnectionAssumption DEF IInv, Shape
<1>2. PICK q \in Seq(Messages) :
         /\ q = Tail(wire[s]) /\ Len(q) <= WINDOW
         /\ Silent(wire[s]) => Silent(q) /\ Head(wire[s]) # "Handshake"
  BY <1>1, Taken
<1>3. wire' = [wire EXCEPT ![s] = q]
  BY <1>2
<1>4. Boxes(wire, WINDOW)' /\ \A r \in Side : wire'[r] = IF r = s THEN q ELSE wire[r]
  BY <1>1, <1>2, <1>3 DEF Boxes
<1>5. Head(wire[s]) \in Messages
  BY <1>1, Taken
<1> QED BY <1>2, <1>4, <1>5, SideIs

(* A message is passed to the session, for which there is room. *)
LEMMA InAdded ==
    ASSUME IInv, NEW s \in Side, NEW m \in Messages, Len(in[s]) < CHANNEL,
           in' = [in EXCEPT ![s] = Append(@, m)]
    PROVE  /\ Boxes(in, CHANNEL)' /\ \A r \in Side \ {s} : in'[r] = in[r]
           /\ Silent(in["dialler"]) /\ (s = "dialler" => m # "Handshake") => Silent(in'["dialler"])
<1>1. in[s] \in Seq(Messages) /\ CHANNEL \in Nat /\ Boxes(in, CHANNEL)
  BY BoxIs, ConnectionAssumption DEF IInv, Shape
<1>2. PICK q \in Seq(Messages) :
         /\ q = Append(in[s], m) /\ Len(q) <= CHANNEL
         /\ Silent(in[s]) /\ m # "Handshake" => Silent(q)
  BY <1>1, Added
<1>3. in' = [in EXCEPT ![s] = q]
  BY <1>2
<1>4. Boxes(in, CHANNEL)' /\ \A r \in Side : in'[r] = IF r = s THEN q ELSE in[r]
  BY <1>1, <1>2, <1>3 DEF Boxes
<1> QED BY <1>2, <1>4, SideIs

(* The connection is made, ... *)
LEMMA ConnectedInv ==
    ASSUME IInv, Connected
    PROVE  IInv'
<1>1. /\ task["dialler"] = "connect" /\ task' = [s \in Side |-> "handshake"]
      /\ wire' = [wire EXCEPT !["acceptor"] = <<"Handshake">>]
      /\ UNCHANGED <<writer, reader, out, in, sess, pending, beats, answered>>
  BY DEF Connected, session
<1>2. Boxes(wire, WINDOW)' /\ wire'["dialler"] = wire["dialler"]
  <2>1. <<"Handshake">> \in Seq(Messages) /\ Len(<<"Handshake">>) <= WINDOW
    BY ConnectionAssumption DEF Messages
  <2> QED BY <1>1, <2>1, SideIs DEF IInv, Shape, Boxes
<1>3. Shape'
  BY <1>1, <1>2 DEF IInv, Shape
<1>4. Fresh'
  <2>1. \A s \in Side : Early(s)
    BY <1>1, SideIs DEF IInv, Fresh, Early
  <2> QED BY <1>1, <2>1, SideIs DEF IInv, Fresh
<1>5. Keyed'
  BY <1>1, <1>2 DEF IInv, Keyed
<1> QED BY <1>3, <1>4, <1>5 DEF IInv

(* ... or cannot be made. *)
LEMMA ConnectFailsInv ==
    ASSUME IInv, ConnectFails
    PROVE  IInv'
<1>1. /\ task' = [task EXCEPT !["dialler"] = "ended"]
      /\ in' = in \/ in' = [in EXCEPT !["dialler"] = <<"Close">>]
      /\ UNCHANGED <<wire, writer, reader, out, sess, pending, beats, answered>>
  BY DEF ConnectFails, session, net
<1>2. /\ Boxes(in, CHANNEL)' /\ (Silent(in["dialler"]) => Silent(in'["dialler"]))
      /\ in'["acceptor"] = in["acceptor"]
  <2>1. <<"Close">> \in Seq(Messages) /\ Len(<<"Close">>) <= CHANNEL /\ Silent(<<"Close">>)
    BY ConnectionAssumption DEF Messages, Silent
  <2>2. CASE in' = in
    BY <2>2 DEF IInv, Shape
  <2>3. CASE in' = [in EXCEPT !["dialler"] = <<"Close">>]
    <3>1. \A s \in Side : in'[s] = IF s = "dialler" THEN <<"Close">> ELSE in[s]
      BY <2>3 DEF IInv, Shape, Boxes
    <3>2. Boxes(in, CHANNEL)'
      BY <2>1, <2>3 DEF IInv, Shape, Boxes
    <3> QED BY <2>1, <3>1, <3>2, SideIs
  <2> QED BY <1>1, <2>2, <2>3
<1>3. Shape'
  BY <1>1, <1>2 DEF IInv, Shape
<1>4. \A s \in Side : task'[s] = IF s = "dialler" THEN "ended" ELSE task[s]
  BY <1>1 DEF IInv, Shape
<1>5. Fresh'
  BY <1>1, <1>2, <1>4, SideIs DEF IInv, Fresh, Early
<1>6. Keyed'
  BY <1>1, <1>2 DEF IInv, Keyed
<1> QED BY <1>3, <1>5, <1>6 DEF IInv

(* The first message is read: there is room for the keys. *)
LEMMA ReadHandshakeInv ==
    ASSUME IInv, NEW s \in Side, ReadHandshake(s)
    PROVE  IInv'
<1>1. /\ task[s] = "handshake" /\ wire[s] # <<>> /\ wire' = [wire EXCEPT ![s] = Tail(@)]
      /\ UNCHANGED <<out, pending, beats, answered>>
  BY DEF ReadHandshake
<1>2. /\ Boxes(wire, WINDOW)' /\ (Silent(wire["dialler"]) => Silent(wire'["dialler"]))
      /\ s = "dialler" /\ Silent(wire["dialler"]) => Head(wire[s]) # "Handshake"
  BY <1>1, WireTaken
<1>3. in[s] = <<>> /\ Len(in[s]) < CHANNEL
  BY <1>1, EmptyIs, ConnectionAssumption DEF IInv, Fresh, Early
<1>4. "Handshake" \in Messages /\ "offered" \in States
  BY DEF Messages, States
<1>5. CASE Head(wire[s]) = "Handshake"
  <2>1. /\ task' = [task EXCEPT ![s] = "run"] /\ writer' = [writer EXCEPT ![s] = TRUE]
        /\ reader' = [reader EXCEPT ![s] = TRUE]
        /\ \/ s = "dialler" /\ in' = [in EXCEPT ![s] = Append(@, "Handshake")] /\ UNCHANGED sess
           \/ sess' = [sess EXCEPT ![s] = "offered"] /\ UNCHANGED in
    BY <1>5 DEF ReadHandshake
  <2>2. /\ Boxes(in, CHANNEL)' /\ \A r \in Side \ {s} : in'[r] = in[r]
        /\ s # "dialler" => in' = in
    <3>1. CASE in' = in
      BY <3>1 DEF IInv, Shape
    <3>2. CASE s = "dialler" /\ in' = [in EXCEPT ![s] = Append(@, "Handshake")]
      BY <1>3, <1>4, <3>2, InAdded
    <3> QED BY <2>1, <3>1, <3>2
  <2>3. sess' \in [Side -> States] /\ (s # "dialler" => sess'["dialler"] = sess["dialler"])
    BY <1>4, <2>1, SideIs DEF IInv, Shape
  <2>4. Shape'
    BY <1>1, <1>2, <2>1, <2>2, <2>3 DEF IInv, Shape
  <2>5. /\ \A r \in Side : task'[r] = IF r = s THEN "run" ELSE task[r]
        /\ \A r \in Side \ {s} : reader'[r] = reader[r] /\ writer'[r] = writer[r]
    BY <2>1 DEF IInv, Shape
  <2>6. Fresh'
    BY <1>1, <2>2, <2>5, SideIs DEF IInv, Fresh, Early
  <2>7. Keyed'
    BY <1>1, <1>2, <1>5, <2>2, <2>3 DEF IInv, Keyed
  <2> QED BY <2>4, <2>6, <2>7 DEF IInv
<1>6. CASE Head(wire[s]) # "Handshake"
  <2>1. task' = [task EXCEPT ![s] = "ended"] /\ UNCHANGED <<writer, reader, in, sess>>
    BY <1>6 DEF ReadHandshake
  <2>2. Shape'
    BY <1>1, <1>2, <2>1 DEF IInv, Shape
  <2>3. \A r \in Side : task'[r] = IF r = s THEN "ended" ELSE task[r]
    BY <2>1 DEF IInv, Shape
  <2>4. Fresh'
    BY <1>1, <2>1, <2>3, SideIs DEF IInv, Fresh, Early
  <2>5. Keyed'
    BY <1>1, <1>2, <2>1 DEF IInv, Keyed
  <2> QED BY <2>2, <2>4, <2>5 DEF IInv
<1> QED BY <1>5, <1>6

(* The handshake fails. *)
LEMMA NoHandshakeInv ==
    ASSUME IInv, NEW s \in Side, NoHandshake(s)
    PROVE  IInv'
<1>1. /\ task[s] = "handshake" /\ task' = [task EXCEPT ![s] = "ended"]
      /\ UNCHANGED <<wire, writer, reader, out, in, sess, pending, beats, answered>>
  BY DEF NoHandshake, net, session
<1>2. Shape'
  BY <1>1 DEF IInv, Shape
<1>3. \A r \in Side : task'[r] = IF r = s THEN "ended" ELSE task[r]
  BY <1>1 DEF IInv, Shape
<1>4. Fresh'
  BY <1>1, <1>3, SideIs DEF IInv, Fresh, Early
<1>5. Keyed'
  BY <1>1 DEF IInv, Keyed
<1> QED BY <1>2, <1>4, <1>5 DEF IInv

(* A task ends: process_stream may end with it. *)
LEMMA TaskEnds ==
    ASSUME IInv, NEW s \in Side, reader[s] \/ writer[s],
           \A r \in Side : Early(r) => in'[r] = <<>>,
           task' = task \/ task' = [task EXCEPT ![s] = "ended"],
           UNCHANGED reader \/ reader' = [reader EXCEPT ![s] = FALSE],
           UNCHANGED writer \/ writer' = [writer EXCEPT ![s] = FALSE]
    PROVE  /\ task' \in [Side -> {"none", "connect", "handshake", "run", "ended"}]
           /\ reader' \in [Side -> BOOLEAN] /\ writer' \in [Side -> BOOLEAN] /\ Fresh'
<1>1. /\ task' \in [Side -> {"none", "connect", "handshake", "run", "ended"}]
      /\ \A r \in Side : task'[r] = task[r] \/ (r = s /\ task'[r] = "ended")
  BY DEF IInv, Shape
<1>2. /\ reader' \in [Side -> BOOLEAN] /\ \A r \in Side : reader'[r] => reader[r]
      /\ writer' \in [Side -> BOOLEAN] /\ \A r \in Side : writer'[r] => writer[r]
  BY DEF IInv, Shape
<1>3. task[s] # "none" /\ ~Early(s)
  BY DEF IInv, Fresh, Early
<1>4. Fresh'
  BY <1>1, <1>2, <1>3, SideIs DEF IInv, Fresh, Early
<1> QED BY <1>1, <1>2, <1>4

(* What the writing task does with its queue. *)
LEMMA WriterEndsIs ==
    ASSUME IInv, NEW s \in Side, WriterEnds(s)
    PROVE  /\ Boxes(out, CHANNEL)' /\ writer' = [writer EXCEPT ![s] = FALSE]
           /\ Silent(out["acceptor"]) => Silent(out'["acceptor"])
           /\ task' = task \/ task' = [task EXCEPT ![s] = "ended"]
<1>1. /\ writer' = [writer EXCEPT ![s] = FALSE] /\ out' = [out EXCEPT ![s] = <<>>]
      /\ task' = task \/ task' = [task EXCEPT ![s] = "ended"]
  BY DEF WriterEnds
<1>2. Boxes(out, CHANNEL)'
  BY <1>1, EmptyIs, ConnectionAssumption DEF IInv, Shape, Boxes
<1>3. \A r \in Side : out'[r] = IF r = s THEN <<>> ELSE out[r]
  BY <1>1 DEF IInv, Shape, Boxes
<1> QED BY <1>1, <1>2, <1>3, EmptyIs, SideIs

(* What is written goes to the other end, or is lost. *)
LEMMA CarriesIs ==
    ASSUME IInv, NEW s \in Side, NEW m \in Messages, Carries(s, m)
    PROVE  /\ Boxes(wire, WINDOW)'
           /\ Silent(wire["dialler"]) /\ (s = "acceptor" => m # "Handshake")
                => Silent(wire'["dialler"])
<1>1. CASE UNCHANGED wire
  BY <1>1 DEF IInv, Shape
<1>2. CASE ~UNCHANGED wire
  <2>1. PICK o \in Side : o = Other(s)
    BY SideIs
  <2>2. Len(wire[o]) < WINDOW /\ wire' = [wire EXCEPT ![o] = Append(@, m)]
    BY <1>2, <2>1 DEF Carries
  <2>3. wire[o] \in Seq(Messages) /\ WINDOW \in Nat /\ Boxes(wire, WINDOW)
    BY BoxIs, ConnectionAssumption DEF IInv, Shape
  <2>4. PICK q \in Seq(Messages) :
           /\ q = Append(wire[o], m) /\ Len(q) <= WINDOW
           /\ Silent(wire[o]) /\ m # "Handshake" => Silent(q)
    BY <2>2, <2>3, Added
  <2>5. wire' = [wire EXCEPT ![o] = q]
    BY <2>2, <2>4
  <2>6. Boxes(wire, WINDOW)' /\ \A r \in Side : wire'[r] = IF r = o THEN q ELSE wire[r]
    BY <2>3, <2>4, <2>5 DEF Boxes
  <2>7. o = "dialler" => s = "acceptor"
    BY <2>1, SideIs DEF Other
  <2> QED BY <2>4, <2>6, <2>7, SideIs
<1> QED BY <1>1, <1>2

(* A message is written, ... *)
LEMMA WriteInv ==
    ASSUME IInv, NEW s \in Side, Write(s)
    PROVE  IInv'
<1>1. /\ writer[s] /\ out[s] # <<>> /\ UNCHANGED <<reader, in, sess, pending, beats, answered>>
  BY DEF Write, session
<1>2. out[s] \in Seq(Messages) /\ Len(out[s]) <= CHANNEL /\ CHANNEL \in Nat /\ Boxes(out, CHANNEL)
  BY BoxIs, ConnectionAssumption DEF IInv, Shape
<1>3. PICK m \in Messages : m = Head(out[s])
  BY <1>1, <1>2, Taken
<1>4. PICK q \in Seq(Messages) :
         /\ q = Tail(out[s]) /\ Len(q) <= CHANNEL /\ (Silent(out[s]) => Silent(q) /\ m # "Handshake")
  BY <1>1, <1>2, <1>3, Taken
<1>5. /\ Boxes(wire, WINDOW)'
      /\ Silent(wire["dialler"]) /\ Silent(out["acceptor"]) => Silent(wire'["dialler"])
  <2>1. CASE UNCHANGED wire
    BY <2>1 DEF IInv, Shape
  <2>2. CASE Carries(s, m)
    BY <1>4, <2>2, CarriesIs
  <2> QED BY <1>3, <2>1, <2>2 DEF Write
<1>6. /\ Boxes(out, CHANNEL)' /\ (Silent(out["acceptor"]) => Silent(out'["acceptor"]))
      /\ task' = task \/ task' = [task EXCEPT ![s] = "ended"]
      /\ UNCHANGED writer \/ writer' = [writer EXCEPT ![s] = FALSE]
  <2>1. CASE WriterEnds(s)
    BY <2>1, WriterEndsIs
  <2>2. CASE out' = [out EXCEPT ![s] = Tail(@)] /\ UNCHANGED <<writer, task>>
    <3>1. out' = [out EXCEPT ![s] = q]
      BY <1>4, <2>2
    <3>2. Boxes(out, CHANNEL)' /\ \A r \in Side : out'[r] = IF r = s THEN q ELSE out[r]
      BY <1>2, <1>4, <3>1 DEF Boxes
    <3> QED BY <1>4, <2>2, <3>2, SideIs
  <2> QED BY <2>1, <2>2 DEF Write
<1>7. \A r \in Side : Early(r) => in'[r] = <<>>
  BY <1>1 DEF IInv, Fresh
<1>8. /\ task' \in [Side -> {"none", "connect", "handshake", "run", "ended"}]
      /\ reader' \in [Side -> BOOLEAN] /\ writer' \in [Side -> BOOLEAN] /\ Fresh'
  BY <1>1, <1>6, <1>7, TaskEnds
<1>9. Shape'
  BY <1>1, <1>5, <1>6, <1>8 DEF IInv, Shape
<1>10. Keyed'
  BY <1>1, <1>5, <1>6 DEF IInv, Keyed
<1> QED BY <1>8, <1>9, <1>10 DEF IInv

(* ... or there is nothing more to write. *)
LEMMA WriteNothingInv ==
    ASSUME IInv, NEW s \in Side, WriteNothing(s)
    PROVE  IInv'
<1>1. /\ writer[s] /\ WriterEnds(s) /\ UNCHANGED <<wire, reader, in, sess, pending, beats, answered>>
  BY DEF WriteNothing, session, net
<1>2. /\ Boxes(out, CHANNEL)' /\ (Silent(out["acceptor"]) => Silent(out'["acceptor"]))
      /\ writer' = [writer EXCEPT ![s] = FALSE]
      /\ task' = task \/ task' = [task EXCEPT ![s] = "ended"]
  BY <1>1, WriterEndsIs
<1>3. \A r \in Side : Early(r) => in'[r] = <<>>
  BY <1>1 DEF IInv, Fresh
<1>4. /\ task' \in [Side -> {"none", "connect", "handshake", "run", "ended"}]
      /\ reader' \in [Side -> BOOLEAN] /\ writer' \in [Side -> BOOLEAN] /\ Fresh'
  BY <1>1, <1>2, <1>3, TaskEnds
<1>5. Shape'
  BY <1>1, <1>2, <1>4 DEF IInv, Shape
<1>6. Keyed'
  BY <1>1, <1>2 DEF IInv, Keyed
<1> QED BY <1>4, <1>5, <1>6 DEF IInv

(* What is read is passed to a session that has its task. *)
LEMMA TellIs ==
    ASSUME IInv, NEW s \in Side, NEW m \in Messages, Tell(s, m), reader[s]
    PROVE  /\ Boxes(in, CHANNEL)' /\ \A r \in Side : Early(r) => in'[r] = <<>>
           /\ Silent(in["dialler"]) /\ (s = "dialler" => m # "Handshake") => Silent(in'["dialler"])
<1>1. \A r \in Side : Early(r) => in[r] = <<>> /\ r # s
  BY DEF IInv, Fresh
<1>2. CASE UNCHANGED in
  BY <1>1, <1>2 DEF IInv, Shape
<1>3. CASE Len(in[s]) < CHANNEL /\ in' = [in EXCEPT ![s] = Append(@, m)]
  BY <1>1, <1>3, InAdded
<1> QED BY <1>2, <1>3 DEF Tell

(* A message is read, ... *)
LEMMA ReadInv ==
    ASSUME IInv, NEW s \in Side, Read(s)
    PROVE  IInv'
<1>1. /\ reader[s] /\ wire[s] # <<>> /\ wire' = [wire EXCEPT ![s] = Tail(@)]
      /\ Tell(s, Head(wire[s]))
      /\ UNCHANGED <<task, writer, reader, out, sess, pending, beats, answered>>
  BY DEF Read, session, tasks
<1>2. /\ Boxes(wire, WINDOW)' /\ (Silent(wire["dialler"]) => Silent(wire'["dialler"]))
      /\ s = "dialler" /\ Silent(wire["dialler"]) => Head(wire[s]) # "Handshake"
      /\ Head(wire[s]) \in Messages
  BY <1>1, WireTaken
<1>3. PICK m \in Messages : m = Head(wire[s])
  BY <1>2
<1>4. /\ Boxes(in, CHANNEL)' /\ \A r \in Side : Early(r) => in'[r] = <<>>
      /\ Silent(in["dialler"]) /\ (s = "dialler" => m # "Handshake") => Silent(in'["dialler"])
  BY <1>1, <1>3, TellIs
<1>5. Shape'
  BY <1>1, <1>2, <1>4 DEF IInv, Shape
<1>6. Fresh'
  BY <1>1, <1>4 DEF IInv, Fresh, Early
<1>7. Keyed'
  BY <1>1, <1>2, <1>3, <1>4 DEF IInv, Keyed
<1> QED BY <1>5, <1>6, <1>7 DEF IInv

(* ... or the reading task ends. *)
LEMMA ReadEndInv ==
    ASSUME IInv, NEW s \in Side, ReadEnd(s)
    PROVE  IInv'
<1>1. /\ reader[s] /\ (Tell(s, "Close") \/ UNCHANGED in)
      /\ reader' = [reader EXCEPT ![s] = FALSE]
      /\ task' = task \/ task' = [task EXCEPT ![s] = "ended"]
      /\ UNCHANGED <<wire, writer, out, sess, pending, beats, answered>>
  BY DEF ReadEnd, ReaderEnds, session, net
<1>2. /\ Boxes(in, CHANNEL)' /\ \A r \in Side : Early(r) => in'[r] = <<>>
      /\ Silent(in["dialler"]) => Silent(in'["dialler"])
  <2>1. CASE UNCHANGED in
    BY <2>1 DEF IInv, Shape, Fresh
  <2>2. CASE Tell(s, "Close")
    <3>1. PICK m \in Messages : m = "Close" /\ m # "Handshake"
      BY DEF Messages
    <3> QED BY <1>1, <2>2, <3>1, TellIs
  <2> QED BY <1>1, <2>1, <2>2
<1>3. /\ task' \in [Side -> {"none", "connect", "handshake", "run", "ended"}]
      /\ reader' \in [Side -> BOOLEAN] /\ writer' \in [Side -> BOOLEAN] /\ Fresh'
  BY <1>1, <1>2, TaskEnds
<1>4. Shape'
  BY <1>1, <1>2, <1>3 DEF IInv, Shape
<1>5. Keyed'
  BY <1>1, <1>2 DEF IInv, Keyed
<1> QED BY <1>3, <1>4, <1>5 DEF IInv

----------------------------------------------------------------------------
(* The network, and the theorems *)

(* A link that is cut loses the end of what was under way, ... *)
LEMMA CutInv ==
    ASSUME IInv, Cut
    PROVE  IInv'
<1>1. PICK keep \in [Side -> 0 .. WINDOW] :
         /\ \A s \in Side : keep[s] <= Len(wire[s])
         /\ wire' = [s \in Side |-> SubSeq(wire[s], 1, keep[s])]
  BY DEF Cut
<1>2. UNCHANGED <<task, writer, reader, out, in, sess, pending, beats, answered>>
  BY DEF Cut, tasks, session
<1>3. \A s \in Side : /\ wire'[s] \in Seq(Messages) /\ Len(wire'[s]) <= WINDOW
                      /\ Silent(wire[s]) => Silent(wire'[s])
  <2>1. TAKE s \in Side
  <2>2. wire[s] \in Seq(Messages) /\ Len(wire[s]) <= WINDOW /\ WINDOW \in Nat
    BY BoxIs, ConnectionAssumption DEF IInv, Shape
  <2>3. wire'[s] = SubSeq(wire[s], 1, keep[s]) /\ keep[s] \in 0 .. WINDOW /\ keep[s] <= Len(wire[s])
    BY <1>1
  <2> QED BY <2>2, <2>3, CutShort
<1>4. Boxes(wire, WINDOW)'
  BY <1>1, <1>3 DEF Boxes
<1>5. Shape'
  BY <1>2, <1>4 DEF IInv, Shape
<1>6. Fresh'
  BY <1>2 DEF IInv, Fresh, Early
<1>7. Keyed'
  BY <1>2, <1>3, SideIs DEF IInv, Keyed
<1> QED BY <1>5, <1>6, <1>7 DEF IInv

(* ... and an error of the connection changes nothing yet. *)
LEMMA StillInv ==
    ASSUME IInv, UNCHANGED <<wire, task, writer, reader, out, in, sess, pending, beats, answered>>
    PROVE  IInv'
<1>1. Shape'
  BY DEF IInv, Shape
<1>2. Fresh'
  BY DEF IInv, Fresh, Early
<1>3. Keyed'
  BY DEF IInv, Keyed
<1> QED BY <1>1, <1>2, <1>3 DEF IInv

(* The invariant holds at the start, ... *)
LEMMA InitInv ==
    ASSUME Init
    PROVE  IInv
<1>1. Shape
  <2>1. \A n \in Nat : Boxes([s \in Side |-> <<>>], n)
    BY EmptyIs DEF Boxes
  <2>2. beats \in [Side -> 0 .. BEATS + 1]
    BY ConnectionAssumption DEF Init
  <2>3. Boxes(wire, WINDOW) /\ Boxes(out, CHANNEL) /\ Boxes(in, CHANNEL) /\ Boxes(pending, 2)
    BY <2>1, ConnectionAssumption DEF Init
  <2> QED BY <2>2, <2>3 DEF Init, Shape, States
<1>2. Fresh
  BY SideIs DEF Init, Fresh
<1>3. Keyed
  BY SideIs, EmptyIs DEF Init, Keyed, Serving
<1> QED BY <1>1, <1>2, <1>3 DEF IInv

(* ... and every step keeps it. *)
LEMMA NextInv ==
    ASSUME IInv, [Next]_vars
    PROVE  IInv'
<1>1. CASE UNCHANGED vars
  BY <1>1, StillInv DEF vars, net, tasks, session
<1>2. CASE Dialled
  BY <1>2, ConnectedInv, ConnectFailsInv DEF Dialled
<1>3. CASE Cut \/ StableAnswer
  BY <1>3, CutInv, StableAnswerInv
<1>4. ASSUME NEW s \in Side, Shake(s) \/ Writing(s) \/ Reading(s)
      PROVE  IInv'
  BY <1>4, ReadHandshakeInv, NoHandshakeInv, WriteInv, WriteNothingInv, ReadInv, ReadEndInv
     DEF Shake, Writing, Reading
<1>5. ASSUME NEW s \in Side, NetworkEnds(s)
      PROVE  IInv'
  BY <1>5, StillInv DEF NetworkEnds, tasks, session
<1>6. ASSUME NEW s \in Side, Serve(s) \/ Heartbeat(s) \/ AppClose(s)
      PROVE  IInv'
  BY <1>6, OfferedInv, SendInv, SendFailsInv, OpenInv DEF Serve
<1> QED BY <1>1, <1>2, <1>3, <1>4, <1>5, <1>6 DEF Next

(* The inductive invariant holds in every state of a connection: queues
   within their capacity, nothing passed on before the handshake, and no keys
   on the way to the dialler unless the acceptor's server answered. *)
THEOREM Invariance == Spec => []IInv
<1>1. Init => IInv
  BY InitInv
<1>2. IInv /\ [Next]_vars => IInv'
  BY NextInv
<1> QED BY <1>1, <1>2, PTL DEF Spec

(* No channel and no window is ever filled beyond its capacity, also where
   process_stream sends the keys without looking for room. *)
THEOREM Bounded == Spec => []TypeOK
<1>1. IInv => TypeOK
  BY ShapeType DEF IInv
<1> QED BY <1>1, Invariance, PTL

(* A node that dialled has a session, or offers one to its server, only when
   the other node's server answered with its keys. *)
THEOREM Answering == Spec => []AnsweredFirst
<1>1. IInv => AnsweredFirst
  BY DEF IInv, Keyed, Serving, AnsweredFirst
<1> QED BY <1>1, Invariance, PTL
=============================================================================
