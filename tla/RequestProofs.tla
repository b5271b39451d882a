--------------------------- MODULE RequestProofs ----------------------------
(***************************************************************************)
(* The inductive invariant of Network, what the operations of sessions do  *)
(* to it, the requests of applications, steps that end sessions, and the   *)
(* messages that are taken in and passed on; NetworkProofs has the other   *)
(* actions and the theorems.                                               *)
(*                                                                         *)
(* The parts of the invariant speak of the messages in the queues (Fine,   *)
(* Own), the entries of the tables (TmpFine, StableFine) and the queued    *)
(* requests (AskedBy), as operators of what they depend on: A is app, Q is *)
(* asked.                                                                  *)
(***************************************************************************)
EXTENDS Network, TLAPS

Relays == {"RelayData", "RelayHandshake"}

(* Every second node of a path is closer to t than the one before. *)
Nearing(h, t) ==
    \A i, j, k \in 1 .. Len(h) : j = i + 2 * k => Dist[t][h[j]] < Dist[t][h[i]]

(* A message on its way from n to p that all passed on by the rule. *)
Straight(m, n, p) ==
    m.t \in Relays /\ ~m.odd =>
        m.path # <<>> /\ m.path[Len(m.path)] = n /\ Nearing(Append(m.path, p), m.to)

(* A message that needs no relay is not sent as a relayed one. *)
Aside(m, n, p) == m.t \in Relays => ~(m.from = n /\ m.to = p)

(* Node n was given request r. *)
Has(A, n, r) ==
    \E i \in DOMAIN A[n] : A[n][i].ev \notin {"Delivery", "StableLeave"} /\ A[n][i].data = r

AskedFrom(r, n, Q) == r \in DOMAIN Q /\ Q[r].from = n
AskedBy(r, n, p, Q) == AskedFrom(r, n, Q) /\ Q[r].to = p

(* What a session of f sends to t: a request of f, for t when feedback is
   wanted, or the feedback on one of t that f was given. *)
Own(c, f, t, A, Q) ==
    IF c.what = "Delivery" THEN AskedBy(c.req, t, f, Q) /\ Has(A, f, c.req)
    ELSE AskedFrom(c.req, f, Q) /\ (c.tid => Q[c.req].to = t)

(* The same of a payload, unless it is not encrypted. *)
Sealed(d, f, t, A, Q) == d.key # <<>> => Own(d.core, f, t, A, Q)

Fine(m, n, p, A, Q) ==
    /\ Straight(m, n, p) /\ Aside(m, n, p)
    /\ m.t = "Data" => Own(m.core, n, p, A, Q)
    /\ m.t = "RelayData" => Sealed(m.data, m.from, m.to, A, Q)

LinksOK(l, A, Q) ==
    /\ l \in [Nodes -> [Nodes -> Seq(Messages)]]
    /\ \A n, p \in Nodes : \A k \in DOMAIN l[n][p] : Fine(l[n][p][k], n, p, A, Q)

(* The entries for p of node n. *)
Streamed(s, n, p, A, Q) == \A k \in DOMAIN s : Sealed(s[k], p, n, A, Q)

Queued(q, n, p, Q) == \A k \in DOMAIN q : AskedBy(q[k], n, p, Q)

TmpFine(e, n, p, A, Q) ==
    /\ e.st \in {"asking", "waiting"} => Streamed(e.stream, n, p, A, Q)
    /\ e.st = "asking" => Queued(e.cq, n, p, Q) /\ Queued(e.rq, n, p, Q)
    /\ e.st = "waiting" => e.key # <<>> /\ e.via \notin {n, p}

StableFine(e, n, p, A, Q) ==
    e.st = "relayed" =>
        Streamed(e.stream, n, p, A, Q) /\ e.key # <<>> /\ e.via \notin {n, p}

StablesOK(S, A, Q) ==
    /\ S \in [Nodes -> [Nodes -> StableEntries]]
    /\ \A n, p \in Nodes : StableFine(S[n][p], n, p, A, Q)

TmpsOK(T, A, Q) ==
    /\ T \in [Nodes -> [Nodes -> TmpEntries]]
    /\ \A n, p \in Nodes : TmpFine(T[n][p], n, p, A, Q)

(* What node n is told is true. *)
Honest(events, n, A, Q) ==
    \A i \in DOMAIN events :
        events[i].ev = "Delivery" /\ events[i].ok =>
            AskedFrom(events[i].req, n, Q) /\ Has(A, Q[events[i].req].to, events[i].req)

AppOK(A, Q) ==
    /\ A \in [Nodes -> Seq(ReceiveMessages)]
    /\ \A n \in Nodes : Honest(A[n], n, A, Q)

Queues == \A n, p \in Nodes :
    /\ Queued(connects[n][p], n, p, asked) /\ Queued(results[n][p], n, p, asked)
    /\ \A c \in casting[n] : AskedFrom(c.req, n, asked)

(* A peer that is being asked for over a relay is not known otherwise. *)
Unknown == \A n, p \in Nodes :
    tmps[n][p].st \in {"asking", "dead"} \/ (\E t \in starting : t.at = n /\ t.to = p) =>
        p \notin dhts[n] /\ stables[n][p] # Direct

Requests == [kind : Kinds \cup {"StableDisconnect", "Broadcast"}, from : Nodes, to : Nodes]

Sets ==
    /\ open \in [Nodes -> SUBSET Nodes] /\ \A n \in Nodes : n \notin open[n]
    /\ up \in [Nodes -> SUBSET Nodes]
    /\ dhts \in [Nodes -> SUBSET Nodes]
    /\ orphans \subseteq [at : Nodes, to : Nodes, tid : Nat]

Rest ==
    /\ starting \subseteq [at : Nodes, to : Nodes, via : Nodes, tid : Nat]
    /\ \A t \in starting : t.via # t.to
    /\ connects \in [Nodes -> [Nodes -> Seq(Nat)]]
    /\ results \in [Nodes -> [Nodes -> Seq(Nat)]]
    /\ casting \in [Nodes -> SUBSET [req : Nat, to : Nodes]]
    /\ asked \in Seq(Requests)
    /\ breaks \in 0 .. BREAKS
    /\ keys \in Nat

(* What sessions change, and the whole. *)
Sound ==
    /\ Sets
    /\ StablesOK(stables, app, asked) /\ TmpsOK(tmps, app, asked)
    /\ LinksOK(link, app, asked) /\ AppOK(app, asked)

Inv == Sound /\ Rest /\ Queues /\ Unknown
----------------------------------------------------------------------------
(* Reports and requests are only added *)

Longer(s, t) == Len(s) <= Len(t) /\ \A i \in 1 .. Len(s) : t[i] = s[i]

Grows(A, B, P, Q) ==
    /\ A \in [Nodes -> Seq(ReceiveMessages)] /\ B \in [Nodes -> Seq(ReceiveMessages)]
    /\ P \in Seq(Requests) /\ Q \in Seq(Requests)
    /\ \A n \in Nodes : Longer(A[n], B[n])
    /\ Longer(P, Q)

(* What was given or asked remains so. *)
LEMMA HasGrows ==
    ASSUME NEW A, NEW B, NEW P, NEW Q, Grows(A, B, P, Q),
           NEW n \in Nodes, NEW r, Has(A, n, r)
    PROVE  Has(B, n, r)
<1>1. PICK i \in DOMAIN A[n] : A[n][i].ev \notin {"Delivery", "StableLeave"} /\ A[n][i].data = r
  BY Zenon DEF Has
<1>2. A[n] \in Seq(ReceiveMessages) /\ B[n] \in Seq(ReceiveMessages)
  BY Zenon DEF Grows
<1>3. Longer(A[n], B[n])
  BY Zenon DEF Grows
<1>4. i \in 1 .. Len(A[n])
  BY <1>2
<1>5. B[n][i] = A[n][i] /\ i \in 1 .. Len(B[n])
  BY <1>2, <1>3, <1>4 DEF Longer
<1>6. i \in DOMAIN B[n]
  BY <1>2, <1>5
<1> QED BY <1>1, <1>5, <1>6, Zenon DEF Has

(* A request stays what it was when more are made. *)
LEMMA AskedGrows ==
    ASSUME NEW A, NEW B, NEW P, NEW Q, Grows(A, B, P, Q), NEW r, NEW n, AskedFrom(r, n, P)
    PROVE  AskedFrom(r, n, Q) /\ Q[r] = P[r]
BY DEF Grows, Longer, AskedFrom

(* So does what a session may send. *)
LEMMA OwnGrows ==
    ASSUME NEW A, NEW B, NEW P, NEW Q, Grows(A, B, P, Q),
           NEW f \in Nodes, NEW t \in Nodes, NEW c, Own(c, f, t, A, P)
    PROVE  Own(c, f, t, B, Q)
<1>1. CASE c.what = "Delivery"
  BY <1>1, HasGrows, AskedGrows DEF Own, AskedBy
<1>2. CASE c.what # "Delivery"
  BY <1>2, AskedGrows DEF Own, AskedBy
<1> QED BY Zenon, <1>1, <1>2

(* A fine message stays fine when applications are told or ask more. *)
LEMMA FineGrows ==
    ASSUME NEW A, NEW B, NEW P, NEW Q, Grows(A, B, P, Q),
           NEW n \in Nodes, NEW p \in Nodes, NEW m \in Messages, Fine(m, n, p, A, P)
    PROVE  Fine(m, n, p, B, Q)
<1>1. m.t = "RelayData" => m.from \in Nodes /\ m.to \in Nodes
  BY DEF Messages, Close
<1> QED BY <1>1, OwnGrows DEF Fine, Sealed

(* So do the entries of the tables. *)
LEMMA EntriesGrow ==
    ASSUME NEW A, NEW B, NEW P, NEW Q, Grows(A, B, P, Q),
           NEW n \in Nodes, NEW p \in Nodes, NEW e
    PROVE  /\ TmpFine(e, n, p, A, P) => TmpFine(e, n, p, B, Q)
           /\ StableFine(e, n, p, A, P) => StableFine(e, n, p, B, Q)
<1>1. \A s : Streamed(s, n, p, A, P) => Streamed(s, n, p, B, Q)
  BY OwnGrows DEF Streamed, Sealed
<1>2. \A q : Queued(q, n, p, P) => Queued(q, n, p, Q)
  BY AskedGrows DEF Queued, AskedBy
<1> QED BY Zenon, <1>1, <1>2 DEF TmpFine, StableFine

(* So do the tables and the queues. *)
LEMMA TablesGrow ==
    ASSUME NEW A, NEW B, NEW P, NEW Q, Grows(A, B, P, Q)
    PROVE  /\ \A l : LinksOK(l, A, P) => LinksOK(l, B, Q)
           /\ \A S : StablesOK(S, A, P) => StablesOK(S, B, Q)
           /\ \A T : TmpsOK(T, A, P) => TmpsOK(T, B, Q)
<1>1. ASSUME NEW l, LinksOK(l, A, P) PROVE LinksOK(l, B, Q)
  <2> SUFFICES ASSUME NEW n \in Nodes, NEW p \in Nodes, NEW k \in DOMAIN l[n][p]
               PROVE  Fine(l[n][p][k], n, p, B, Q)
    BY Zenon, <1>1 DEF LinksOK
  <2>1. l[n][p] \in Seq(Messages) /\ Fine(l[n][p][k], n, p, A, P)
    BY Zenon, <1>1 DEF LinksOK
  <2>2. l[n][p][k] \in Messages
    BY <2>1
  <2> QED BY <2>1, <2>2, FineGrows
<1>2. ASSUME NEW S, StablesOK(S, A, P) PROVE StablesOK(S, B, Q)
  BY Zenon, <1>2, EntriesGrow DEF StablesOK
<1>3. ASSUME NEW T, TmpsOK(T, A, P) PROVE TmpsOK(T, B, Q)
  BY Zenon, <1>3, EntriesGrow DEF TmpsOK
<1> QED BY Zenon, <1>1, <1>2, <1>3

(* Events are added to what an application was told. *)
LEMMA TellGrows ==
    ASSUME NEW A, NEW P, NEW Q, AppOK(A, P), NEW n \in Nodes,
           P \in Seq(Requests), Q \in Seq(Requests), Longer(P, Q),
           NEW events \in Seq(ReceiveMessages)
    PROVE  Grows(A, [A EXCEPT ![n] = @ \o events], P, Q)
<1> DEFINE B == [A EXCEPT ![n] = @ \o events]
<1>1. A \in [Nodes -> Seq(ReceiveMessages)] /\ B \in [Nodes -> Seq(ReceiveMessages)]
  BY DEF AppOK
<1>2. \A m \in Nodes : Longer(A[m], B[m])
  <2> TAKE m \in Nodes
  <2>1. A[m] \in Seq(ReceiveMessages)
    BY Zenon, <1>1
  <2>2. CASE m = n
    BY <2>1, <2>2, <1>1 DEF Longer
  <2>3. CASE m # n
    BY <2>1, <2>3, <1>1 DEF Longer
  <2> QED BY Zenon, <2>2, <2>3
<1> HIDE DEF B
<1>3. Grows(A, B, P, Q)
  BY Zenon, <1>1, <1>2 DEF Grows
<1> QED BY Zenon, <1>3 DEF B

(* Honest events keep the reports of applications honest. *)
LEMMA TellOK ==
    ASSUME NEW A, NEW P, NEW Q, AppOK(A, P), NEW n \in Nodes,
           P \in Seq(Requests), Q \in Seq(Requests), Longer(P, Q),
           NEW events \in Seq(ReceiveMessages), NEW B, B = [A EXCEPT ![n] = @ \o events],
           Honest(events, n, B, Q)
    PROVE  Grows(A, B, P, Q) /\ AppOK(B, Q)
<1>1. Grows(A, B, P, Q)
  BY Zenon, TellGrows
<1>2. ASSUME NEW m \in Nodes, NEW i \in DOMAIN A[m], A[m][i].ev = "Delivery", A[m][i].ok
      PROVE  AskedFrom(A[m][i].req, m, Q) /\ Has(B, Q[A[m][i].req].to, A[m][i].req)
  <2> DEFINE r == A[m][i].req
  <2>1. AskedFrom(r, m, P) /\ Has(A, P[r].to, r)
    BY Zenon, <1>2 DEF AppOK, Honest
  <2>2. P[r].to \in Nodes
    <3>1. P[r] \in Requests
      BY SMTT(30), <2>1 DEF AskedFrom
    <3> QED BY Zenon, <3>1 DEF Requests
  <2>3. AskedFrom(r, m, Q) /\ Q[r] = P[r]
    BY SMTT(30), <1>1, <2>1, AskedGrows
  <2>4. Has(B, P[r].to, r)
    BY Zenon, <1>1, <2>1, <2>2, HasGrows
  <2> QED BY Zenon, <2>3, <2>4
<1>3. ASSUME NEW m \in Nodes, NEW i \in DOMAIN B[m]
      PROVE  \/ i \in DOMAIN A[m] /\ B[m][i] = A[m][i]
             \/ m = n /\ \E k \in DOMAIN events : B[m][i] = events[k]
  <2>1. A[m] \in Seq(ReceiveMessages) /\ A[n] \in Seq(ReceiveMessages)
    BY Zenon DEF AppOK
  <2>2. CASE m # n
    BY Zenon, <2>2, <2>1 DEF AppOK
  <2>3. CASE m = n
    <3>1. B[m] = A[n] \o events
      BY Zenon, <2>3 DEF AppOK
    <3>2. i \in 1 .. Len(A[n]) + Len(events)
      BY SMTT(30), <3>1, <2>1
    <3>3. CASE i <= Len(A[n])
      BY <3>1, <3>2, <3>3, <2>1, <2>3
    <3>4. CASE i > Len(A[n])
      <4>1. i - Len(A[n]) \in DOMAIN events /\ B[m][i] = events[i - Len(A[n])]
        BY SMTT(60), <3>1, <3>2, <3>4, <2>1
      <4> QED BY Zenon, <4>1, <2>3
    <3> QED BY <3>2, <3>3, <3>4, <2>1
  <2> QED BY Zenon, <2>2, <2>3
<1>4. ASSUME NEW m \in Nodes, NEW i \in DOMAIN B[m], B[m][i].ev = "Delivery", B[m][i].ok
      PROVE  AskedFrom(B[m][i].req, m, Q) /\ Has(B, Q[B[m][i].req].to, B[m][i].req)
  <2>1. CASE i \in DOMAIN A[m] /\ B[m][i] = A[m][i]
    BY Zenon, <1>2, <1>4, <2>1
  <2>2. CASE m = n /\ \E k \in DOMAIN events : B[m][i] = events[k]
    BY Zenon, <1>4, <2>2 DEF Honest
  <2> QED BY ZenonT(30), <1>3, <2>1, <2>2
<1> QED BY Zenon, <1>1, <1>4 DEF AppOK, Grows, Honest
----------------------------------------------------------------------------
(* Changes of tables and queues *)

(* A table of peers after one entry was set. *)
LEMMA TableSet ==
    ASSUME NEW X, NEW T \in [Nodes -> [Nodes -> X]], NEW n \in Nodes, NEW p \in Nodes,
           NEW e \in X, NEW U, U = [T EXCEPT ![n][p] = e]
    PROVE  /\ U \in [Nodes -> [Nodes -> X]]
           /\ \A i, j \in Nodes : U[i][j] = IF i = n /\ j = p THEN e ELSE T[i][j]
BY Zenon

(* Setting a fine entry keeps the table of stable sessions in order. *)
LEMMA StablesSet ==
    ASSUME NEW S, NEW A, NEW Q, StablesOK(S, A, Q), NEW n \in Nodes, NEW p \in Nodes,
           NEW e \in StableEntries, StableFine(e, n, p, A, Q)
    PROVE  StablesOK([S EXCEPT ![n][p] = e], A, Q)
<1> DEFINE U == [S EXCEPT ![n][p] = e]
<1>1. S \in [Nodes -> [Nodes -> StableEntries]]
  BY Zenon DEF StablesOK
<1>2. /\ U \in [Nodes -> [Nodes -> StableEntries]]
      /\ \A i, j \in Nodes : U[i][j] = IF i = n /\ j = p THEN e ELSE S[i][j]
  BY Zenon, <1>1, TableSet
<1> HIDE DEF U
<1>3. StablesOK(U, A, Q)
  BY Zenon, <1>2 DEF StablesOK
<1> QED BY Zenon, <1>3 DEF U

(* Setting a fine entry keeps tmps in order. *)
LEMMA TmpsSet ==
    ASSUME NEW T, NEW A, NEW Q, TmpsOK(T, A, Q), NEW n \in Nodes, NEW p \in Nodes,
           NEW e \in TmpEntries, TmpFine(e, n, p, A, Q)
    PROVE  TmpsOK([T EXCEPT ![n][p] = e], A, Q)
<1> DEFINE U == [T EXCEPT ![n][p] = e]
<1>1. T \in [Nodes -> [Nodes -> TmpEntries]]
  BY Zenon DEF TmpsOK
<1>2. /\ U \in [Nodes -> [Nodes -> TmpEntries]]
      /\ \A i, j \in Nodes : U[i][j] = IF i = n /\ j = p THEN e ELSE T[i][j]
  BY ZenonT(30), <1>1, TableSet
<1> HIDE DEF U
<1>3. TmpsOK(U, A, Q)
  BY Zenon, <1>2 DEF TmpsOK
<1> QED BY Zenon, <1>3 DEF U

(* Removing an entry. *)
LEMMA NoneFine ==
    /\ None \in StableEntries /\ None \in TmpEntries
    /\ \A n, p, A, Q : StableFine(None, n, p, A, Q) /\ TmpFine(None, n, p, A, Q)
BY Zenon DEF None, StableEntries, TmpEntries, StableFine, TmpFine

(* Removing a stable session keeps the table in order. *)
LEMMA StableRemoved ==
    ASSUME NEW A, NEW Q, NEW n \in Nodes, NEW p \in Nodes, NEW S, StablesOK(S, A, Q),
           NEW U, U = [S EXCEPT ![n][p] = None]
    PROVE  StablesOK(U, A, Q)
BY Zenon, NoneFine, StablesSet

(* Removing an entry of tmps keeps the table in order. *)
LEMMA TmpRemoved ==
    ASSUME NEW A, NEW Q, NEW n \in Nodes, NEW p \in Nodes, NEW T, TmpsOK(T, A, Q),
           NEW U, U = [T EXCEPT ![n][p] = None]
    PROVE  TmpsOK(U, A, Q)
BY Zenon, NoneFine, TmpsSet

(* A queue of messages from n to p. *)
QueueOK(q, n, p, A, Q) ==
    q \in Seq(Messages) /\ \A k \in DOMAIN q : Fine(q[k], n, p, A, Q)

(* The links are in order when each queue is. *)
LEMMA LinksAre ==
    ASSUME NEW l, NEW A, NEW Q
    PROVE  LinksOK(l, A, Q) <=>
               /\ l \in [Nodes -> [Nodes -> Seq(Messages)]]
               /\ \A n, p \in Nodes : QueueOK(l[n][p], n, p, A, Q)
BY Zenon DEF LinksOK, QueueOK

(* The links after one queue was set. *)
LEMMA LinksSet ==
    ASSUME NEW l, NEW A, NEW Q, LinksOK(l, A, Q), NEW n \in Nodes, NEW p \in Nodes,
           NEW q, QueueOK(q, n, p, A, Q)
    PROVE  LinksOK([l EXCEPT ![n][p] = q], A, Q)
<1>1. l \in [Nodes -> [Nodes -> Seq(Messages)]] /\ q \in Seq(Messages)
  BY Zenon DEF LinksOK, QueueOK
<1> DEFINE U == [l EXCEPT ![n][p] = q]
<1>2. /\ U \in [Nodes -> [Nodes -> Seq(Messages)]]
      /\ \A i, j \in Nodes : U[i][j] = IF i = n /\ j = p THEN q ELSE l[i][j]
  BY ZenonT(30), <1>1, TableSet
<1> HIDE DEF U
<1>3. \A i, j \in Nodes : QueueOK(U[i][j], i, j, A, Q)
  BY Zenon, <1>2, LinksAre
<1>4. LinksOK(U, A, Q)
  BY Zenon, <1>2, <1>3, LinksAre
<1> QED BY Zenon, <1>4 DEF U

(* Two queues in order, one after the other. *)
LEMMA QueueConcat ==
    ASSUME NEW A, NEW Q, NEW n, NEW p, NEW q, NEW r,
           QueueOK(q, n, p, A, Q), QueueOK(r, n, p, A, Q)
    PROVE  QueueOK(q \o r, n, p, A, Q)
<1>1. q \in Seq(Messages) /\ r \in Seq(Messages) /\ q \o r \in Seq(Messages)
  BY DEF QueueOK
<1>2. ASSUME NEW k \in DOMAIN (q \o r)
      PROVE  Fine((q \o r)[k], n, p, A, Q)
  <2>1. k \in 1 .. Len(q) + Len(r)
    BY <1>1
  <2>2. CASE k <= Len(q)
    BY <2>1, <2>2, <1>1 DEF QueueOK
  <2>3. CASE k > Len(q)
    <3>1. k - Len(q) \in DOMAIN r /\ (q \o r)[k] = r[k - Len(q)]
      BY <2>1, <2>3, <1>1
    <3> QED BY Zenon, <3>1 DEF QueueOK
  <2> QED BY <1>1, <2>1, <2>2, <2>3
<1> QED BY Zenon, <1>1, <1>2 DEF QueueOK

(* A queue of one fine message. *)
LEMMA QueueOne ==
    ASSUME NEW A, NEW Q, NEW n, NEW p, NEW m \in Messages, Fine(m, n, p, A, Q)
    PROVE  QueueOK(<<m>>, n, p, A, Q)
BY DEF QueueOK

(* The empty queue. *)
LEMMA QueueEmpty ==
    ASSUME NEW A, NEW Q, NEW n, NEW p
    PROVE  QueueOK(<<>>, n, p, A, Q)
BY DEF QueueOK

(* The head of a queue in order is fine, the rest is in order. *)
LEMMA QueueTail ==
    ASSUME NEW A, NEW Q, NEW n, NEW p, NEW q, QueueOK(q, n, p, A, Q), q # <<>>
    PROVE  /\ QueueOK(Tail(q), n, p, A, Q)
           /\ Head(q) \in Messages /\ Fine(Head(q), n, p, A, Q)
<1>1. q \in Seq(Messages) /\ Len(q) > 0
  BY DEF QueueOK
<1>2. Head(q) = q[1] /\ 1 \in DOMAIN q
  BY <1>1
<1>3. \A k \in DOMAIN Tail(q) : k + 1 \in DOMAIN q /\ Tail(q)[k] = q[k + 1]
  BY <1>1
<1> QED BY <1>1, <1>2, <1>3 DEF QueueOK

(* The part of a queue that has been handed on, with a Close or without. *)
LEMMA QueueCut ==
    ASSUME NEW A, NEW Q, NEW n, NEW p, NEW q, QueueOK(q, n, p, A, Q), NEW k \in 0 .. Len(q)
    PROVE  /\ QueueOK(SubSeq(q, 1, k), n, p, A, Q)
           /\ QueueOK(Append(SubSeq(q, 1, k), Close), n, p, A, Q)
<1> DEFINE s == SubSeq(q, 1, k)
<1>1. q \in Seq(Messages) /\ Len(q) \in Nat
  BY DEF QueueOK
<1>2. s \in Seq(Messages) /\ Len(s) = k
  BY <1>1
<1>3. \A i \in 1 .. k : s[i] = q[i] /\ i \in DOMAIN q
  BY <1>1
<1>4. QueueOK(s, n, p, A, Q)
  BY <1>2, <1>3 DEF QueueOK
<1>5. Close \in Messages /\ Fine(Close, n, p, A, Q)
  BY Zenon DEF Close, Messages, Fine, Straight, Aside, Relays
<1> HIDE DEF s
<1>6. QueueOK(<<Close>>, n, p, A, Q)
  BY Zenon, <1>5, QueueOne
<1>7. Append(s, Close) = s \o <<Close>>
  BY <1>2, <1>5
<1>8. QueueOK(s \o <<Close>>, n, p, A, Q)
  BY Zenon, <1>4, <1>6, QueueConcat
<1> QED BY Zenon, <1>4, <1>7, <1>8 DEF s

(* Putting fine messages into an inbox (Put) keeps the links in order. *)
LEMMA PutOK ==
    ASSUME NEW l, NEW A, NEW Q, LinksOK(l, A, Q), Sets, NEW n \in Nodes, NEW c,
           NEW msgs, c \in open[n] => QueueOK(msgs, n, c, A, Q)
    PROVE  LinksOK(Put(l, n, c, msgs), A, Q)
<1>1. CASE c \in open[n]
  <2>1. c \in Nodes
    BY Zenon, <1>1 DEF Sets
  <2>2. QueueOK(l[n][c] \o msgs, n, c, A, Q)
    BY Zenon, <1>1, <2>1, LinksAre, QueueConcat
  <2>3. [l EXCEPT ![n][c] = @ \o msgs] = [l EXCEPT ![n][c] = l[n][c] \o msgs]
    BY Zenon, <2>1 DEF LinksOK
  <2> QED BY Zenon, <1>1, <2>1, <2>2, <2>3, LinksSet DEF Put
<1>2. CASE c \notin open[n]
  BY Zenon, <1>2 DEF Put
<1> QED BY Zenon, <1>1, <1>2

(* What a session takes from its connection is fine, and the links stay in order. *)
LEMMA TakenOK ==
    ASSUME NEW A, NEW Q, LinksOK(link, A, Q), NEW n \in Nodes, NEW w \in Nodes,
           link[w][n] # <<>>
    PROVE  /\ LinksOK(Taken(n, w), A, Q)
           /\ Head(link[w][n]) \in Messages /\ Fine(Head(link[w][n]), w, n, A, Q)
<1>1. QueueOK(link[w][n], w, n, A, Q)
  BY Zenon, LinksAre
<1>2. /\ QueueOK(Tail(link[w][n]), w, n, A, Q)
      /\ Head(link[w][n]) \in Messages /\ Fine(Head(link[w][n]), w, n, A, Q)
  BY Zenon, <1>1, QueueTail
<1>3. Taken(n, w) = [link EXCEPT ![w][n] = Tail(link[w][n])]
  BY Zenon DEF LinksOK, Taken
<1>4. LinksOK([link EXCEPT ![w][n] = Tail(link[w][n])], A, Q)
  BY Zenon, <1>2, LinksSet
<1> QED BY <1>2, <1>3, <1>4, Zenon

(* The queues after the session of n with p has ended. *)
LEMMA ClosedOK ==
    ASSUME NEW A, NEW Q, LinksOK(link, A, Q), NEW n \in Nodes, NEW p \in Nodes,
           NEW q, QueueOK(q, n, p, A, Q),
           NEW m, m = [link EXCEPT ![n][p] = q, ![p][n] = <<>>]
    PROVE  LinksOK(m, A, Q)
<1> DEFINE l == [link EXCEPT ![n][p] = q]
<1>1. LinksOK(l, A, Q)
  BY Zenon, LinksSet
<1>2. m = [l EXCEPT ![p][n] = <<>>]
  BY Zenon
<1>3. QueueOK(<<>>, p, n, A, Q)
  BY Zenon, QueueEmpty
<1> HIDE DEF l
<1>4. LinksOK([l EXCEPT ![p][n] = <<>>], A, Q)
  BY Zenon, <1>1, <1>3, LinksSet
<1> QED BY <1>2, <1>4, Zenon
----------------------------------------------------------------------------
(* What sessions send *)

(* A session with p that can send. *)
Usable(s, p) ==
    s # Direct => s.via \in Nodes \ {p} /\ s.key \in Seq(Nat) /\ s.key # <<>>

(* The fields of an entry of tmps that waits for the application. *)
LEMMA WaitingIs ==
    ASSUME NEW e \in TmpEntries, e.st = "waiting"
    PROVE  e.via \in Nodes /\ e.key \in Seq(Nat) /\ e.stream \in Seq(Payloads)
BY SMTT(30) DEF TmpEntries, None, Dead

(* Such an entry. *)
LEMMA WaitingIn ==
    ASSUME NEW via \in Nodes, NEW key \in Seq(Nat)
    PROVE  Waiting(via, key) \in TmpEntries /\ Waiting(via, key).st = "waiting"
BY SMTT(30) DEF Waiting, TmpEntries

(* The entry of relay_stable while it waits for an answer. *)
LEMMA AskingIn ==
    ASSUME NEW half \in Nat, NEW tid \in Nat, NEW cq \in Seq(Nat), NEW rq \in Seq(Nat),
           NEW e, e = Asking(half, tid, cq, rq)
    PROVE  e \in TmpEntries /\ e.st = "asking" /\ e.cq = cq /\ e.rq = rq /\ e.stream = <<>>
BY SMTT(30) DEF Asking, TmpEntries

(* The fields of a stable session. *)
LEMMA RelayedIs ==
    ASSUME NEW e \in StableEntries
    PROVE  /\ e.st \in {"none", "direct", "relayed"}
           /\ e.st = "relayed" =>
                  e.via \in Nodes /\ e.key \in Seq(Nat) /\ e.stream \in Seq(Payloads)
BY SMTT(30) DEF StableEntries, None, Direct

(* A stable session over a relay. *)
LEMMA RelayedIn ==
    ASSUME NEW via \in Nodes, NEW key \in Seq(Nat), NEW stream \in Seq(Payloads),
           NEW old, old \in {"none", "direct", "relayed"},
           NEW e, e = Relayed(via, key, stream, old)
    PROVE  /\ e \in StableEntries /\ e.st = "relayed" /\ e # Direct
           /\ e.via = via /\ e.key = key /\ e.stream = stream
BY Zenon DEF Relayed, StableEntries, Direct

(* What a Data message carries. *)
LEMMA DataIs ==
    ASSUME NEW m \in Messages, m.t = "Data"
    PROVE  m.core \in Cores
BY SMTT(30) DEF Messages, Close

(* A path of two nodes has no node that must be closer. *)
LEMMA SmallPath ==
    ASSUME NEW n, NEW p, NEW t
    PROVE  Nearing(Append(<<n>>, p), t)
<1>1. <<n>> \in Seq({n, p}) /\ Len(<<n>>) = 1
  OBVIOUS
<1>2. Len(Append(<<n>>, p)) = 2
  BY <1>1
<1> QED BY <1>2 DEF Nearing

(* A relayed message that was just made has a straight path. *)
LEMMA NewRelay ==
    ASSUME NEW n \in Nodes, NEW p, NEW to \in Nodes, p # to
    PROVE  /\ \A d \in Payloads : /\ RelayData(n, to, d) \in Messages
                                  /\ Straight(RelayData(n, to, d), n, p)
                                  /\ Aside(RelayData(n, to, d), n, p)
           /\ \A h \in Nat : /\ RelayHandshake(n, h, to) \in Messages
                             /\ Straight(RelayHandshake(n, h, to), n, p)
                             /\ Aside(RelayHandshake(n, h, to), n, p)
<1>1. <<n>> \in Seq(Nodes) /\ <<n>> # <<>> /\ <<n>>[Len(<<n>>)] = n
  OBVIOUS
<1>2. ASSUME NEW d \in Payloads
      PROVE  RelayData(n, to, d) \in Messages /\ Straight(RelayData(n, to, d), n, p)
  BY Zenon, <1>1, SmallPath DEF RelayData, Messages, Straight
<1>3. ASSUME NEW h \in Nat
      PROVE  RelayHandshake(n, h, to) \in Messages /\ Straight(RelayHandshake(n, h, to), n, p)
  BY Zenon, <1>1, SmallPath DEF RelayHandshake, Messages, Straight
<1>4. /\ \A d : Aside(RelayData(n, to, d), n, p)
      /\ \A h : Aside(RelayHandshake(n, h, to), n, p)
  BY Zenon DEF Aside, RelayData, RelayHandshake
<1> QED BY Zenon, <1>2, <1>3, <1>4

(* A relayed handshake that was just made may be queued. *)
LEMMA HandshakeFine ==
    ASSUME NEW n \in Nodes, NEW p, NEW to \in Nodes, p # to, NEW h \in Nat, NEW A, NEW Q
    PROVE  QueueOK(<<RelayHandshake(n, h, to)>>, n, p, A, Q)
<1>1. Fine(RelayHandshake(n, h, to), n, p, A, Q)
  BY Zenon, NewRelay DEF Fine, RelayHandshake
<1> QED BY Zenon, <1>1, NewRelay, QueueOne

(* What send_core_data makes of a core of its own node is fine. *)
LEMMA SendFine ==
    ASSUME NEW n \in Nodes, NEW p \in Nodes, NEW s, Usable(s, p), NEW core \in Cores,
           NEW A, NEW Q, Own(core, n, p, A, Q)
    PROVE  /\ send_core_data(n, p, s, core) \in Messages
           /\ Fine(send_core_data(n, p, s, core), n, Carrier(p, s), A, Q)
<1>1. CASE s = Direct
  <2>1. Data(core) \in Messages /\ Fine(Data(core), n, p, A, Q)
    BY Zenon DEF Data, Messages, Fine, Straight, Aside, Relays
  <2> QED BY Zenon, <1>1, <2>1 DEF send_core_data, Carrier
<1>2. CASE s # Direct
  <2> DEFINE d == Encrypted(s.key, core)
  <2>1. d \in Payloads
    BY Zenon, <1>2 DEF Encrypted, Payloads, Usable
  <2>2. Sealed(d, n, p, A, Q)
    BY Zenon DEF Sealed, Encrypted
  <2>3. /\ RelayData(n, p, d) \in Messages /\ Straight(RelayData(n, p, d), n, s.via)
        /\ Aside(RelayData(n, p, d), n, s.via)
    <3>1. s.via # p
      BY Zenon, <1>2 DEF Usable
    <3> QED BY Zenon, <2>1, <3>1, NewRelay
  <2>4. Fine(RelayData(n, p, d), n, s.via, A, Q)
    BY Zenon, <2>2, <2>3 DEF Fine, RelayData
  <2> QED BY Zenon, <1>2, <2>3, <2>4 DEF send_core_data, Carrier
<1> QED BY Zenon, <1>1, <1>2

(* The same for several of them. *)
LEMMA SentOK ==
    ASSUME NEW n \in Nodes, NEW p \in Nodes, NEW s, Usable(s, p), NEW cores \in Seq(Cores),
           NEW A, NEW Q, \A i \in DOMAIN cores : Own(cores[i], n, p, A, Q)
    PROVE  QueueOK(Sent(n, p, s, cores), n, Carrier(p, s), A, Q)
<1>1. \A i \in DOMAIN cores :
         /\ send_core_data(n, p, s, cores[i]) \in Messages
         /\ Fine(send_core_data(n, p, s, cores[i]), n, Carrier(p, s), A, Q)
  BY SendFine
<1>2. DOMAIN cores = 1 .. Len(cores) /\ Len(cores) \in Nat
  OBVIOUS
<1>3. Sent(n, p, s, cores) \in Seq(Messages)
  BY <1>1, <1>2 DEF Sent
<1> QED BY Zenon, <1>1, <1>3 DEF Sent, QueueOK
----------------------------------------------------------------------------
(* Operations of sessions *)

(* The requests of the applications only grow. *)
Asks == asked' \in Seq(Requests) /\ Longer(asked, asked')

(* Sound, put together from its parts in the next state. *)
LEMMA SoundStep ==
    ASSUME Sets', StablesOK(stables', app', asked'), TmpsOK(tmps', app', asked'),
           LinksOK(link', app', asked'), AppOK(app', asked')
    PROVE  Sound'
BY Zenon DEF Sound

(* No peer becomes known while it is asked for. *)
Kept ==
    \A n, p \in Nodes :
        /\ tmps'[n][p].st \in {"asking", "dead"} => tmps[n][p].st \in {"asking", "dead"}
        /\ p \in dhts'[n] \/ stables'[n][p] = Direct => p \in dhts[n] \/ stables[n][p] = Direct

(* The tables and queues are still right after a step that tells something. *)
Carried ==
    /\ Grows(app, app', asked, asked') /\ AppOK(app', asked')
    /\ StablesOK(stables, app', asked') /\ TmpsOK(tmps, app', asked')
    /\ LinksOK(link, app', asked')

(* After honest events all that was in order still is. *)
LEMMA TellCarries ==
    ASSUME Inv, Asks, NEW n \in Nodes, NEW events \in Seq(ReceiveMessages), Tell(n, events),
           Honest(events, n, app', asked')
    PROVE  Carried
<1>1. /\ AppOK(app, asked) /\ asked \in Seq(Requests) /\ app' = [app EXCEPT ![n] = @ \o events]
      /\ asked' \in Seq(Requests) /\ Longer(asked, asked')
  BY Zenon DEF Inv, Sound, Rest, Tell, Asks
<1>2. Grows(app, app', asked, asked') /\ AppOK(app', asked')
  BY Zenon, <1>1, TellOK
<1> QED BY Zenon, <1>2, TablesGrow DEF Carried, Inv, Sound

(* A request leaves what applications were told as it is. *)
LEMMA AsksGrow ==
    ASSUME Inv, Asks
    PROVE  Grows(app, app, asked, asked')
<1>1. \A n \in Nodes : app[n] \in Seq(ReceiveMessages)
  BY Zenon DEF Inv, Sound, AppOK
<1>2. \A n \in Nodes : Longer(app[n], app[n])
  <2> TAKE n \in Nodes
  <2>1. Len(app[n]) \in Nat
    BY SMTT(30), <1>1
  <2> QED BY SMTT(30), <2>1 DEF Longer
<1>3. app \in [Nodes -> Seq(ReceiveMessages)] /\ asked \in Seq(Requests)
  BY Zenon DEF Inv, Sound, AppOK, Rest
<1> QED BY Zenon, <1>2, <1>3 DEF Grows, Asks

(* When nobody is told anything all that was in order still is. *)
LEMMA SilenceCarries ==
    ASSUME Inv, Asks, app' = app
    PROVE  Carried
<1>1. AppOK(app, asked)
  BY Zenon DEF Inv, Sound
<1>2. Grows(app, app', asked, asked')
  BY Zenon, AsksGrow
<1>3. ASSUME NEW n \in Nodes PROVE Honest(app[n], n, app', asked')
  <2> SUFFICES ASSUME NEW i \in DOMAIN app[n], app[n][i].ev = "Delivery", app[n][i].ok
               PROVE  /\ AskedFrom(app[n][i].req, n, asked')
                      /\ Has(app', asked'[app[n][i].req].to, app[n][i].req)
    BY Zenon DEF Honest
  <2>1. /\ AskedFrom(app[n][i].req, n, asked)
        /\ Has(app, asked[app[n][i].req].to, app[n][i].req)
    BY Zenon, <1>1 DEF AppOK, Honest
  <2> QED BY SMTT(30), <1>2, <2>1, AskedGrows
<1>4. AppOK(app', asked')
  BY Zenon, <1>1, <1>3 DEF AppOK
<1> QED BY Zenon, <1>2, <1>4, TablesGrow DEF Carried, Inv, Sound

(* Events that report no delivery. *)
LEMMA LeaveHonest ==
    ASSUME NEW n, NEW p \in Nodes, NEW A, NEW Q
    PROVE  \A e \in {<<Leave(p)>>, <<Leave(p), Leave(p)>>, <<Leave(p), Leave(p), Leave(p)>>} :
               e \in Seq(ReceiveMessages) /\ Honest(e, n, A, Q)
<1>1. Leave(p) \in ReceiveMessages /\ Leave(p).ev # "Delivery"
  BY Zenon DEF Leave, Event, ReceiveMessages, Unread
<1> DEFINE v == Leave(p)
<1> HIDE DEF v
<1>2. /\ <<v>> \in Seq({v}) /\ <<v, v>> \in Seq({v}) /\ <<v, v, v>> \in Seq({v})
  OBVIOUS
<1>3. ASSUME NEW e \in Seq({v}) PROVE e \in Seq(ReceiveMessages) /\ Honest(e, n, A, Q)
  <2>1. \A i \in DOMAIN e : e[i] = v
    OBVIOUS
  <2>2. v \in ReceiveMessages /\ v.ev # "Delivery"
    BY Zenon, <1>1 DEF v
  <2> QED BY <2>1, <2>2 DEF Honest
<1> QED BY Zenon, <1>2, <1>3 DEF v

(* A report of a failure claims nothing. *)
LEMMA FailureHonest ==
    ASSUME NEW n, NEW kind \in Kinds, NEW r \in Nat, NEW A, NEW Q
    PROVE  /\ <<Delivery(kind, r, FALSE)>> \in Seq(ReceiveMessages)
           /\ Honest(<<Delivery(kind, r, FALSE)>>, n, A, Q)
BY DEF Delivery, ReceiveMessages, Honest

(* The type of what Orphaned yields. *)
LEMMA OrphanedType ==
    ASSUME Inv, NEW n \in Nodes, NEW p \in Nodes
    PROVE  Orphaned(n, p) \subseteq [at : Nodes, to : Nodes, tid : Nat]
<1>1. tmps[n][p] \in TmpEntries
  BY Zenon DEF Inv, Sound, TmpsOK
<1>2. tmps[n][p].st = "asking" => tmps[n][p].tid \in Nat
  BY SMTT(30), <1>1 DEF TmpEntries, None, Dead
<1> QED BY <1>2 DEF Orphaned

(* Removing entries makes no peer known that was not. *)
LEMMA RemovalKept ==
    ASSUME Inv, NEW n \in Nodes, NEW p \in Nodes,
           stables' = stables \/ stables' = [stables EXCEPT ![n][p] = None],
           tmps' = tmps \/ tmps' = [tmps EXCEPT ![n][p] = None],
           \A m \in Nodes : dhts'[m] \subseteq dhts[m]
    PROVE  Kept
<1>1. /\ stables \in [Nodes -> [Nodes -> StableEntries]]
      /\ tmps \in [Nodes -> [Nodes -> TmpEntries]]
  BY Zenon DEF Inv, Sound, StablesOK, TmpsOK
<1>2. None # Direct /\ None.st = "none"
  BY Zenon DEF None, Direct
<1>3. \A i, j \in Nodes : stables'[i][j] \in {stables[i][j], None}
  <2>1. CASE stables' = [stables EXCEPT ![n][p] = None]
    BY ZenonT(30), <1>1, <2>1, TableSet
  <2> QED BY Zenon, <2>1
<1>4. \A i, j \in Nodes : tmps'[i][j] \in {tmps[i][j], None}
  <2>1. CASE tmps' = [tmps EXCEPT ![n][p] = None]
    BY ZenonT(30), <1>1, <2>1, TableSet
  <2> QED BY Zenon, <2>1
<1> QED BY ZenonT(40), <1>2, <1>3, <1>4 DEF Kept

(* Session::close of a direct session. *)
LEMMA CloseDirectSound ==
    ASSUME Inv, Asks, NEW n \in Nodes, NEW p \in Nodes, NEW q, CloseDirect(n, p, q),
           QueueOK(q, n, p, app, asked')
    PROVE  Sound' /\ Kept
<1>1. PICK k \in 0 .. Len(q) :
         IF p \in up[n]
         THEN /\ stables' = [stables EXCEPT ![n][p] = None]
              /\ Tell(n, IF stables[n][p].st = "relayed" THEN <<Leave(p), Leave(p)>>
                         ELSE <<Leave(p)>>)
              /\ link' = [link EXCEPT ![n][p] = Append(SubSeq(q, 1, k), Close), ![p][n] = <<>>]
              /\ UNCHANGED <<dhts, tmps, orphans>>
         ELSE /\ tmps' = [tmps EXCEPT ![n][p] = None]
              /\ orphans' = orphans \cup Orphaned(n, p)
              /\ dhts' = [dhts EXCEPT ![n] = @ \ {p}]
              /\ link' = [link EXCEPT ![n][p] = SubSeq(q, 1, k), ![p][n] = <<>>]
              /\ UNCHANGED <<stables, app>>
  BY ZenonT(30) DEF CloseDirect
<1>2. /\ open' \in [Nodes -> SUBSET Nodes] /\ up' \in [Nodes -> SUBSET Nodes]
      /\ \A i \in Nodes : i \notin open'[i]
  BY Zenon DEF CloseDirect, Inv, Sound, Sets
<1>3. /\ dhts \in [Nodes -> SUBSET Nodes] /\ orphans \subseteq [at : Nodes, to : Nodes, tid : Nat]
      /\ stables \in [Nodes -> [Nodes -> StableEntries]]
      /\ tmps \in [Nodes -> [Nodes -> TmpEntries]]
  BY Zenon DEF Inv, Sound, Sets, StablesOK, TmpsOK
<1>5. CASE p \in up[n]
  <2>1. Carried
    BY Zenon, <1>1, <1>5, TellCarries, LeaveHonest
  <2>2. QueueOK(q, n, p, app', asked')
    <3>1. ASSUME NEW i \in DOMAIN q PROVE Fine(q[i], n, p, app', asked')
      <4>1. Grows(app, app', asked', asked')
        BY SMTT(30), <2>1 DEF Carried, Grows, Longer
      <4> QED BY SMTT(30), <4>1, FineGrows DEF QueueOK
    <3> QED BY Zenon, <3>1 DEF QueueOK
  <2>3. LinksOK(link', app', asked')
    BY Zenon, <1>1, <1>5, <2>1, <2>2, QueueCut, ClosedOK DEF Carried
  <2>4. StablesOK(stables', app', asked') /\ TmpsOK(tmps', app', asked')
    BY ZenonT(30), <1>1, <1>5, <2>1, StableRemoved, TmpRemoved DEF Carried
  <2>5. Sets'
    BY Zenon, <1>1, <1>2, <1>3, <1>5 DEF Sets
  <2>6. Kept
    BY ZenonT(30), <1>1, <1>5, RemovalKept
  <2> QED BY Zenon, <2>1, <2>3, <2>4, <2>5, <2>6, SoundStep DEF Carried
<1>6. CASE p \notin up[n]
  <2>1. Carried
    BY Zenon, <1>1, <1>6, SilenceCarries
  <2>2. QueueOK(q, n, p, app', asked')
    BY Zenon, <1>1, <1>6
  <2>3. LinksOK(link', app', asked')
    BY Zenon, <1>1, <1>6, <2>1, <2>2, QueueCut, ClosedOK DEF Carried
  <2>4. StablesOK(stables', app', asked') /\ TmpsOK(tmps', app', asked')
    BY Zenon, <1>1, <1>6, <2>1, StableRemoved, TmpRemoved DEF Carried
  <2>5. Sets'
    BY SMTT(30), <1>1, <1>2, <1>3, <1>6, OrphanedType DEF Sets
  <2>6. Kept
    <3>2. dhts' = [dhts EXCEPT ![n] = @ \ {p}]
      BY Zenon, <1>1, <1>6
    <3>1. \A m \in Nodes : dhts'[m] \subseteq dhts[m]
      BY Zenon, <1>3, <3>2
    <3> QED BY Zenon, <1>1, <1>6, <3>1, RemovalKept
  <2> QED BY Zenon, <2>1, <2>3, <2>4, <2>5, <2>6, SoundStep DEF Carried
<1> QED BY Zenon, <1>5, <1>6

(* Session::close of a relayed session: the tables. *)
LEMMA CloseEntrySound ==
    ASSUME Inv, Asks, NEW n \in Nodes, NEW p \in Nodes, NEW s, CloseEntry(n, p, s)
    PROVE  /\ Carried
           /\ StablesOK(stables', app', asked') /\ TmpsOK(tmps', app', asked')
           /\ UNCHANGED dhts => Kept
<1>3. CASE s.st = "relayed"
  <2>1. Carried
    BY Zenon, <1>3, TellCarries, LeaveHonest DEF CloseEntry
  <2>2. UNCHANGED dhts => Kept
    BY Zenon, <1>3, RemovalKept DEF CloseEntry
  <2> QED BY Zenon, <1>3, <2>1, <2>2, StableRemoved, TmpRemoved DEF CloseEntry, Carried
<1>4. CASE s.st # "relayed"
  <2>1. Carried
    BY Zenon, <1>4, SilenceCarries DEF CloseEntry
  <2>2. UNCHANGED dhts => Kept
    BY Zenon, <1>4, RemovalKept DEF CloseEntry
  <2> QED BY Zenon, <1>4, <2>1, <2>2, StableRemoved, TmpRemoved DEF CloseEntry, Carried
<1> QED BY Zenon, <1>3, <1>4

(* Session::close of a relayed session. *)
LEMMA CloseRelayedSound ==
    ASSUME Inv, Asks, NEW n \in Nodes, NEW p \in Nodes, NEW s, CloseRelayed(n, p, s)
    PROVE  Sound' /\ Kept
<1>1. CloseEntry(n, p, s) /\ UNCHANGED <<open, up, dhts, orphans, link>>
  BY Zenon DEF CloseRelayed, direct
<1>2. /\ Carried /\ StablesOK(stables', app', asked') /\ TmpsOK(tmps', app', asked')
      /\ Kept
  BY Zenon, <1>1, CloseEntrySound
<1>3. Sets' /\ LinksOK(link', app', asked')
  BY Zenon, <1>1, <1>2 DEF Inv, Sound, Sets, Carried
<1> QED BY Zenon, <1>2, <1>3, SoundStep DEF Carried

(* The links after a session sent a core of its own. *)
LEMMA PutSent ==
    ASSUME Inv, Carried, NEW n \in Nodes, NEW p \in Nodes, NEW s, Usable(s, p),
           NEW core \in Cores, Own(core, n, p, app', asked')
    PROVE  LinksOK(Put(link, n, Carrier(p, s), <<send_core_data(n, p, s, core)>>), app', asked')
<1>1. QueueOK(<<send_core_data(n, p, s, core)>>, n, Carrier(p, s), app', asked')
  BY Zenon, SendFine, QueueOne
<1> QED BY Zenon, <1>1, PutOK DEF Carried, Inv, Sound

(* A session sends, or ends because its carrier has. *)
LEMMA SendOverSound ==
    ASSUME Inv, Asks, NEW n \in Nodes, NEW p \in Nodes, NEW s, Usable(s, p),
           NEW core \in Cores, Own(core, n, p, app, asked'), SendOver(n, p, s, core)
    PROVE  Sound' /\ Kept
<1>1. CASE s # Direct /\ s.via \notin open[n]
  BY Zenon, <1>1, CloseRelayedSound DEF SendOver
<1>2. CASE ~(s # Direct /\ s.via \notin open[n])
  <2>1. /\ link' = Put(link, n, Carrier(p, s), <<send_core_data(n, p, s, core)>>)
        /\ UNCHANGED <<open, up, dhts, stables, tmps, orphans, app>>
    BY Zenon, <1>2 DEF SendOver, direct
  <2>2. Carried
    BY Zenon, <2>1, SilenceCarries
  <2>3. LinksOK(link', app', asked')
    BY Zenon, <2>1, <2>2, PutSent
  <2>4. Kept
    BY Zenon, <2>1, RemovalKept
  <2>5. Sets' /\ StablesOK(stables', app', asked') /\ TmpsOK(tmps', app', asked')
    BY Zenon, <2>1, <2>2 DEF Sets, Inv, Sound, Carried
  <2> QED BY Zenon, <2>2, <2>3, <2>4, <2>5, SoundStep DEF Carried
<1> QED BY ZenonT(40), <1>1, <1>2

(* The entry that Session::upgrade lists is fine. *)
LEMMA StabilisedFine ==
    ASSUME NEW n \in Nodes, NEW p \in Nodes, NEW A, NEW Q, stables[n][p] \in StableEntries,
           tmps[n][p] \in TmpEntries, TmpFine(tmps[n][p], n, p, A, Q),
           tmps[n][p] = None \/ tmps[n][p].st = "waiting"
    PROVE  /\ Stabilised(n, p) \in StableEntries
           /\ StableFine(Stabilised(n, p), n, p, A, Q)
           /\ Stabilised(n, p) = Direct => tmps[n][p] = None
<1>1. CASE tmps[n][p] = None
  BY Zenon, <1>1 DEF Stabilised, Direct, StableEntries, StableFine
<1>2. CASE tmps[n][p] # None
  <2> DEFINE e == tmps[n][p]
  <2>1. /\ e.st = "waiting" /\ e.via \in Nodes /\ e.key \in Seq(Nat)
        /\ e.stream \in Seq(Payloads)
    BY Zenon, <1>2, WaitingIs
  <2>2. stables[n][p].st \in {"none", "direct", "relayed"}
    BY Zenon, RelayedIs
  <2>3. Stabilised(n, p) = Relayed(e.via, e.key, e.stream, stables[n][p].st)
    BY Zenon, <1>2 DEF Stabilised
  <2>4. e.key # <<>> /\ e.via \notin {n, p} /\ Streamed(e.stream, n, p, A, Q)
    BY Zenon, <2>1 DEF TmpFine
  <2> HIDE DEF e
  <2>5. /\ Stabilised(n, p) \in StableEntries /\ Stabilised(n, p) # Direct
        /\ Stabilised(n, p).via = e.via /\ Stabilised(n, p).key = e.key
        /\ Stabilised(n, p).stream = e.stream
    BY SMTT(30), <2>1, <2>2, <2>3, RelayedIn
  <2>6. StableFine(Stabilised(n, p), n, p, A, Q)
    BY Zenon, <2>4, <2>5 DEF StableFine
  <2> QED BY Zenon, <2>5, <2>6
<1> QED BY Zenon, <1>1, <1>2

(* Session::upgrade. *)
LEMMA UpgradeSound ==
    ASSUME Inv, Asks, NEW n \in Nodes, NEW p \in Nodes, NEW s, Upgrade(n, p, s),
           tmps[n][p] = None \/ tmps[n][p].st = "waiting",
           tmps[n][p] = None => p \in dhts[n] \/ stables[n][p] = Direct
    PROVE  /\ Carried /\ Sets' /\ Kept
           /\ StablesOK(stables', app', asked') /\ TmpsOK(tmps', app', asked')
<1>1. Carried
  BY Zenon, SilenceCarries DEF Upgrade
<1>2. /\ stables \in [Nodes -> [Nodes -> StableEntries]]
      /\ tmps \in [Nodes -> [Nodes -> TmpEntries]]
      /\ stables[n][p] \in StableEntries /\ tmps[n][p] \in TmpEntries
      /\ TmpFine(tmps[n][p], n, p, app', asked')
  <2>1. StablesOK(stables, app', asked') /\ TmpsOK(tmps, app', asked')
    BY Zenon, <1>1 DEF Carried
  <2> QED BY Zenon, <2>1 DEF StablesOK, TmpsOK
<1>3. /\ Stabilised(n, p) \in StableEntries
      /\ StableFine(Stabilised(n, p), n, p, app', asked')
      /\ Stabilised(n, p) = Direct => tmps[n][p] = None
  BY Zenon, <1>2, StabilisedFine
<1>4. StablesOK(stables', app', asked')
  BY Zenon, <1>1, <1>3, StablesSet DEF Carried, Upgrade
<1>5. TmpsOK(tmps', app', asked')
  BY Zenon, <1>1, TmpRemoved DEF Carried, Upgrade
<1>6. Sets'
  BY Zenon DEF Upgrade, Inv, Sound, Sets
<1>7. Kept
  <2>1. \A i, j \in Nodes : stables'[i][j] = IF i = n /\ j = p THEN Stabilised(n, p) ELSE stables[i][j]
    BY ZenonT(40), <1>2, <1>3, TableSet DEF Upgrade
  <2>2. \A i, j \in Nodes : tmps'[i][j] \in {tmps[i][j], None}
    BY Zenon, <1>2 DEF Upgrade
  <2>3. \A i \in Nodes : dhts'[i] \subseteq dhts[i]
    BY Zenon DEF Upgrade, Inv, Sound, Sets
  <2>4. None.st = "none"
    BY Zenon DEF None
  <2> QED BY ZenonT(40), <1>3, <2>1, <2>2, <2>3, <2>4 DEF Kept
<1> QED BY Zenon, <1>1, <1>4, <1>5, <1>6, <1>7

(* A session that a request of n for p is given to. *)
Serves(n, p, s) ==
    \/ s = It(n, p) /\ IsIt(n, p)
    \/ s = tmps[n][p] /\ s.st = "waiting"

(* The session that serves a request of the application can send. *)
LEMMA ServesUsable ==
    ASSUME Inv, NEW n \in Nodes, NEW p \in Nodes, NEW s, Serves(n, p, s)
    PROVE  /\ Usable(s, p)
           /\ s = Direct \/ s.st = "relayed" \/ (s = tmps[n][p] /\ s.st = "waiting")
           /\ s = Direct => p \in dhts[n] \/ stables[n][p] = Direct
           /\ s = Direct => tmps[n][p] = None \/ tmps[n][p].st = "waiting"
<1>1. /\ stables[n][p] \in StableEntries /\ tmps[n][p] \in TmpEntries
      /\ StableFine(stables[n][p], n, p, app, asked) /\ TmpFine(tmps[n][p], n, p, app, asked)
  BY Zenon DEF Inv, Sound, StablesOK, TmpsOK
<1>2. Direct.st = "direct"
  BY Zenon DEF Direct
<1>3. CASE s = tmps[n][p] /\ s.st = "waiting"
  <2>1. s.via \in Nodes /\ s.key \in Seq(Nat)
    BY Zenon, <1>1, <1>3, WaitingIs
  <2> QED BY Zenon, <1>1, <1>2, <1>3, <2>1 DEF Usable, TmpFine
<1>4. CASE s = It(n, p) /\ IsIt(n, p)
  <2>1. s = Direct \/ (s.st = "relayed" /\ s.via \in Nodes /\ s.key \in Seq(Nat) /\ s = stables[n][p])
    BY Zenon, <1>1, <1>4 DEF It, StableEntries
  <2>2. Usable(s, p)
    BY Zenon, <1>1, <2>1 DEF Usable, StableFine
  <2>3. s = Direct => p \in dhts[n] \/ stables[n][p] = Direct
    BY Zenon, <1>4 DEF It, IsIt
  <2>4. s = Direct => tmps[n][p].st \notin {"asking", "dead"}
    BY Zenon, <2>3 DEF Inv, Unknown
  <2>5. tmps[n][p].st \notin {"asking", "dead"} => tmps[n][p] = None \/ tmps[n][p].st = "waiting"
    BY SMTT(30), <1>1 DEF TmpEntries, Dead
  <2> QED BY Zenon, <2>1, <2>2, <2>3, <2>4, <2>5
<1> QED BY Zenon, <1>3, <1>4 DEF Serves

(* Session::handle_outside, StableConnect. *)
LEMMA SendAndUpgradeSound ==
    ASSUME Inv, Asks, NEW n \in Nodes, NEW p \in Nodes, NEW s, Serves(n, p, s),
           NEW core \in Cores, Own(core, n, p, app, asked'), SendAndUpgrade(n, p, s, core)
    PROVE  Sound' /\ Kept
<1> DEFINE plain == \/ s = Direct /\ p \notin open[n]
                    \/ s = Direct /\ p \in up[n]
                    \/ s # Direct /\ (s.st = "relayed" \/ s.via \notin open[n])
<1>1. Usable(s, p)
  BY Zenon, ServesUsable
<1>2. CASE plain
  BY Zenon, <1>1, <1>2, SendOverSound DEF SendAndUpgrade
<1>3. CASE ~plain
  <2>1. /\ link' = Put(link, n, Carrier(p, s), <<send_core_data(n, p, s, core)>>)
        /\ Upgrade(n, p, s)
    BY Zenon, <1>3 DEF SendAndUpgrade
  <2>2. tmps[n][p] = None \/ tmps[n][p].st = "waiting"
    BY SMTT(60), <1>3, ServesUsable
  <2>3. tmps[n][p] = None => p \in dhts[n] \/ stables[n][p] = Direct
    BY SMTT(60), <1>3, ServesUsable DEF None
  <2>4. /\ Carried /\ Sets' /\ Kept
        /\ StablesOK(stables', app', asked') /\ TmpsOK(tmps', app', asked')
    BY Zenon, <2>1, <2>2, <2>3, UpgradeSound
  <2>5. app' = app
    BY Zenon, <2>1 DEF Upgrade
  <2>6. LinksOK(link', app', asked')
    BY Zenon, <1>1, <2>1, <2>4, <2>5, PutSent
  <2> QED BY Zenon, <2>4, <2>6, SoundStep DEF Carried
<1> QED BY Zenon, <1>2, <1>3

(* relay_stable gives up. *)
LEMMA GiveUpSound ==
    ASSUME Inv, Asks, NEW n \in Nodes, NEW p \in Nodes, tmps[n][p].st = "asking", GiveUp(n, p)
    PROVE  Sound' /\ Kept
<1>1. /\ Tell(n, <<Delivery("StableConnect", tmps[n][p].tid, FALSE)>>)
      /\ tmps' = [tmps EXCEPT ![n][p] = None]
      /\ UNCHANGED <<open, up, dhts, stables, orphans, link>>
  BY Zenon DEF GiveUp, direct
<1>2. tmps[n][p] \in TmpEntries
  BY Zenon DEF Inv, Sound, TmpsOK
<1>3. tmps[n][p].tid \in Nat /\ "StableConnect" \in Kinds
  BY <1>2 DEF TmpEntries, None, Dead, Kinds
<1>4. Carried
  BY Zenon, <1>1, <1>3, TellCarries, FailureHonest
<1>5. Kept
  BY Zenon, <1>1, RemovalKept
<1>6. TmpsOK(tmps', app', asked')
  BY Zenon, <1>1, <1>4, TmpRemoved DEF Carried
<1>7. Sets' /\ StablesOK(stables', app', asked') /\ LinksOK(link', app', asked')
  BY Zenon, <1>1, <1>4 DEF Sets, Inv, Sound, Carried
<1> QED BY Zenon, <1>4, <1>5, <1>6, <1>7, SoundStep DEF Carried

(* Nothing changes but what an application is told. *)
LEMMA TellSound ==
    ASSUME Inv, Carried, UNCHANGED <<open, up, dhts, stables, tmps, orphans, link>>
    PROVE  Sound' /\ Kept
<1>2. Kept
  BY Zenon DEF Kept
<1>3. Sets'
  BY Zenon DEF Inv, Sound, Sets
<1> QED BY Zenon, <1>2, <1>3, SoundStep DEF Carried

(* The server reports a failure. *)
LEMMA RefuseSound ==
    ASSUME Inv, Asks, NEW n \in Nodes, NEW kind \in Kinds, Refuse(n, kind)
    PROVE  Sound' /\ Kept
<1>1. Next1 \in Nat
  BY DEF Next1, Inv, Rest
<1>2. Carried
  BY ZenonT(30), <1>1, TellCarries, FailureHonest DEF Refuse
<1> QED BY Zenon, <1>2, TellSound DEF Refuse, direct

(* A request for the session in tmps. *)
LEMMA ToTmpSound ==
    ASSUME Inv, Asks, NEW n \in Nodes, NEW p \in Nodes, NEW core \in Cores,
           Own(core, n, p, app, asked'), ToTmp(n, p, core)
    PROVE  Sound' /\ Kept
<1>1. CASE tmps[n][p].st = "asking" /\ GiveUp(n, p)
  BY Zenon, <1>1, GiveUpSound
<1>2. CASE tmps[n][p].st = "waiting" /\ SendAndUpgrade(n, p, tmps[n][p], core)
  BY Zenon, <1>2, SendAndUpgradeSound DEF Serves
<1>3. CASE Ignored
  BY Zenon, <1>3, SilenceCarries, TellSound DEF Ignored, direct
<1> QED BY Zenon, <1>1, <1>2, <1>3 DEF ToTmp

(* Session::handle_outside, StableResult that refuses. *)
LEMMA SendAndCloseSound ==
    ASSUME Inv, Asks, NEW n \in Nodes, NEW p \in Nodes, NEW s, Serves(n, p, s),
           NEW core \in Cores, Own(core, n, p, app, asked'), NEW force,
           SendAndClose(n, p, s, core, force)
    PROVE  Sound' /\ Kept
<1> DEFINE one == <<send_core_data(n, p, s, core)>>
           q == Put(link, n, p, one)[n][p]
<1>1. Usable(s, p)
  BY Zenon, ServesUsable
<1>2. CASE SendOver(n, p, s, core)
  BY Zenon, <1>1, <1>2, SendOverSound
<1>3. CASE s = Direct /\ CloseDirect(n, p, q)
  <2>1. QueueOK(one, n, p, app, asked')
    BY Zenon, <1>1, <1>3, SendFine, QueueOne DEF Carrier
  <2>2. LinksOK(link, app, asked')
    BY Zenon, AsksGrow, TablesGrow DEF Inv, Sound
  <2>3. LinksOK(Put(link, n, p, one), app, asked')
    BY Zenon, <2>1, <2>2, PutOK DEF Inv, Sound
  <2>4. QueueOK(q, n, p, app, asked')
    BY Zenon, <2>3, LinksAre
  <2> HIDE DEF q
  <2> QED BY Zenon, <1>3, <2>4, CloseDirectSound
<1>4. CASE /\ s # Direct /\ CloseEntry(n, p, s)
           /\ link' = Put(link, n, s.via, one)
           /\ UNCHANGED <<direct, orphans>>
  <2>1. /\ Carried /\ StablesOK(stables', app', asked') /\ TmpsOK(tmps', app', asked')
        /\ Kept
    BY Zenon, <1>4, CloseEntrySound DEF direct
  <2>2. Grows(app, app', asked', asked')
    <3>1. Grows(app, app', asked, asked')
      BY Zenon, <2>1 DEF Carried
    <3>2. asked' \in Seq(Requests)
      BY Zenon, <3>1 DEF Grows
    <3>3. Longer(asked', asked')
      BY SMTT(30), <3>2 DEF Longer
    <3> QED BY Zenon, <3>1, <3>2, <3>3 DEF Grows
  <2>3. Own(core, n, p, app', asked')
    BY Zenon, <2>2, OwnGrows
  <2>4. LinksOK(link', app', asked')
    BY Zenon, <1>1, <1>4, <2>1, <2>3, PutSent DEF Carrier
  <2>5. Sets'
    BY Zenon, <1>4 DEF direct, Inv, Sound, Sets
  <2> QED BY Zenon, <2>1, <2>4, <2>5, SoundStep DEF Carried
<1> QED BY ZenonT(30), <1>2, <1>3, <1>4 DEF SendAndClose

(* Session::handle_outside, StableResult. *)
LEMMA AnswerSound ==
    ASSUME Inv, Asks, NEW n \in Nodes, NEW p \in Nodes, NEW s, Serves(n, p, s),
           NEW core \in Cores, Own(core, n, p, app, asked'), NEW ok, NEW force,
           Answer(n, p, s, core, ok, force)
    PROVE  Sound' /\ Kept
BY Zenon, SendAndUpgradeSound, SendAndCloseSound DEF Answer
----------------------------------------------------------------------------
(* What remains of the invariant after a step *)

(* A step that keeps the parts of the invariant keeps the whole. *)
LEMMA StepInv ==
    ASSUME Inv, Sound', Kept, Rest', Queues', starting' \subseteq starting
    PROVE  Inv'
<1>1. Unknown'
  BY DEF Inv, Unknown, Kept
<1> QED BY Zenon, <1>1 DEF Inv

Less(T, U) == \A i, j \in Nodes : U[i][j] \in {T[i][j], <<>>}

(* Types and queues after a step that only empties queues. *)
LEMMA RestStep ==
    ASSUME Inv, Asks, starting' \subseteq starting,
           connects' \in [Nodes -> [Nodes -> Seq(Nat)]], Less(connects, connects'),
           results' \in [Nodes -> [Nodes -> Seq(Nat)]], Less(results, results'),
           casting' \in [Nodes -> SUBSET [req : Nat, to : Nodes]],
           \A n \in Nodes : \A c \in casting'[n] : c \in casting[n] \/ AskedFrom(c.req, n, asked'),
           breaks' \in 0 .. BREAKS, keys' \in Nat
    PROVE  Rest' /\ Queues'
<1>1. Rest'
  BY Zenon DEF Inv, Rest, Asks
<1>2. Grows(app, app, asked, asked')
  BY Zenon, AsksGrow
<1>3. ASSUME NEW i \in Nodes, NEW j \in Nodes, NEW q, Queued(q, i, j, asked)
      PROVE  Queued(q, i, j, asked')
  <2>1. \A r : AskedFrom(r, i, asked) => AskedFrom(r, i, asked') /\ asked'[r] = asked[r]
    BY ZenonT(40), <1>2, AskedGrows
  <2> QED BY ZenonT(40), <1>3, <2>1 DEF Queued, AskedBy
<1>4. \A i, j \in Nodes : Queued(<<>>, i, j, asked')
  BY DEF Queued
<1>5. \A i, j \in Nodes : Queued(connects'[i][j], i, j, asked') /\ Queued(results'[i][j], i, j, asked')
  BY ZenonT(40), <1>3, <1>4 DEF Less, Inv, Queues
<1>6. \A n \in Nodes : \A c \in casting'[n] : AskedFrom(c.req, n, asked')
  BY ZenonT(40), <1>2, AskedGrows DEF Inv, Queues
<1>7. Queues'
  BY Zenon, <1>5, <1>6 DEF Queues
<1> QED BY ZenonT(40), <1>1, <1>7

(* Queues that stay the same have not grown. *)
LEMMA SameLess ==
    ASSUME Inv
    PROVE  Less(connects, connects) /\ Less(results, results)
BY Zenon DEF Less

(* Steps that make no request and leave the queues alone. *)
LEMMA QuietInv ==
    ASSUME Inv, Sound', Kept, starting' \subseteq starting,
           UNCHANGED <<connects, results, asked>>,
           casting' \in [Nodes -> SUBSET [req : Nat, to : Nodes]],
           \A n \in Nodes : casting'[n] \subseteq casting[n],
           breaks' \in 0 .. BREAKS, keys' \in Nat
    PROVE  Inv'
<1>1. Asks
  BY DEF Asks, Longer, Inv, Rest
<1>2. Rest' /\ Queues'
  BY Zenon, <1>1, RestStep, SameLess DEF Inv, Rest
<1> QED BY Zenon, <1>2, StepInv

(* A step that makes no request. *)
LEMMA SameAsks ==
    ASSUME Inv, asked' = asked
    PROVE  Asks
BY DEF Asks, Longer, Inv, Rest
----------------------------------------------------------------------------
(* Lookups and paths *)

(* A set of numbers has a least one. The library has the proof; NetworkProofs
   takes it from there at the end, and the lemmas before assume it. *)
WellOrdered == \A T : T \subseteq Nat /\ T # {} => \E x \in T : \A y \in T : x <= y

(* Closest yields the member of a set with the least distance. *)
LEMMA ClosestIs ==
    ASSUME WellOrdered, NEW S, S \subseteq Nodes, S # {}, NEW to \in Nodes
    PROVE  Closest(S, to) \in S /\ \A e \in S : Dist[to][Closest(S, to)] <= Dist[to][e]
<1> DEFINE D == {Dist[to][e] : e \in S}
<1>1. D \subseteq Nat /\ D # {}
  BY NetworkAssumption
<1> HIDE DEF D
<1>2. PICK d \in D : \A e \in D : d <= e
  BY Zenon, <1>1 DEF WellOrdered
<1>3. PICK c \in S : Dist[to][c] = d
  BY Zenon, <1>2 DEF D
<1>4. \A e \in S : Dist[to][c] <= Dist[to][e]
  BY ZenonT(40), <1>2, <1>3 DEF D
<1> QED BY Zenon, <1>4 DEF Closest

(* A lookup that answers yields the closest of the peers in the DHT. *)
LEMMA LookupIs ==
    ASSUME WellOrdered, Inv, NEW n \in Nodes, NEW to \in Nodes, NEW c \in dht_get(n, to), c # Nobody
    PROVE  c \in dhts[n] /\ c \in Nodes /\ \A e \in dhts[n] : Dist[to][c] <= Dist[to][e]
<1>1. dhts[n] \subseteq Nodes
  BY Zenon DEF Inv, Sound, Sets
<1>2. CASE to \in dhts[n]
  <2>1. c = to
    BY Zenon, <1>2 DEF dht_get
  <2>2. Dist[to][to] = 0 /\ \A e \in Nodes : Dist[to][e] \in Nat
    BY NetworkAssumption
  <2> QED BY SMTT(30), <1>1, <1>2, <2>1, <2>2
<1>3. CASE to \notin dhts[n]
  <2>1. dhts[n] # {} /\ c = Closest(dhts[n], to)
    BY Zenon, <1>3 DEF dht_get
  <2> QED BY Zenon, <1>1, <2>1, ClosestIs
<1> QED BY Zenon, <1>2, <1>3

(* The peer a message is passed on to is closer to its receiver than the one
   it came from, when that one was among those to choose from. *)
LEMMA Closer ==
    ASSUME WellOrdered, Inv, NEW n \in Nodes, NEW to \in Nodes, NEW w \in dhts[n], stables[n][to] = None,
           NEW c \in next_closest(n, to, w), c # Nobody
    PROVE  c \in Nodes /\ Dist[to][c] < Dist[to][w]
<1>1. stables[n][to] # Direct
  BY DEF None, Direct
<1>2. c \in dht_get(n, to) /\ c # w
  BY Zenon, <1>1 DEF next_closest
<1>3. c \in Nodes /\ Dist[to][c] <= Dist[to][w]
  BY ZenonT(40), <1>2, LookupIs
<1>4. w \in Nodes
  BY ZenonT(40) DEF Inv, Sound, Sets
<1>5. Dist[to][c] # Dist[to][w] /\ Dist[to][c] \in Nat /\ Dist[to][w] \in Nat
  BY SMTT(30), <1>2, <1>3, <1>4, NetworkAssumption
<1> QED BY <1>3, <1>5

(* A path stays straight when the next node is closer than the last but one. *)
LEMMA NearingOn ==
    ASSUME NEW h \in Seq(Nodes), h # <<>>, NEW w, NEW n \in Nodes, NEW c \in Nodes,
           NEW to \in Nodes, h[Len(h)] = w, Nearing(Append(h, n), to), Dist[to][c] < Dist[to][w]
    PROVE  Nearing(Append(Append(h, n), c), to)
<1> DEFINE g == Append(h, n)
           f == Append(g, c)
           L == Len(h)
<1>1. L \in Nat /\ L > 0
  OBVIOUS
<1>2. /\ g \in Seq(Nodes) /\ Len(g) = L + 1 /\ f \in Seq(Nodes) /\ Len(f) = L + 2
      /\ \A i \in 1 .. L : g[i] = h[i]
      /\ \A i \in 1 .. L + 1 : f[i] = g[i]
      /\ f[L + 2] = c
  OBVIOUS
<1>3. f[L] = w
  BY SMTT(30), <1>1, <1>2
<1> HIDE DEF g, f, L
<1>4. \A i, j, k \in 1 .. L + 1 : j = i + 2 * k => Dist[to][g[j]] < Dist[to][g[i]]
  BY ZenonT(40), <1>2 DEF Nearing, g
<1>5. \A i \in 1 .. L + 2 : f[i] \in Nodes /\ Dist[to][f[i]] \in Nat
  BY SMTT(30), <1>2, NetworkAssumption
<1>6. ASSUME NEW i \in 1 .. L + 2, NEW j \in 1 .. L + 2, NEW k \in 1 .. L + 2, j = i + 2 * k
      PROVE  Dist[to][f[j]] < Dist[to][f[i]]
  <2>1. CASE j <= L + 1
    <3>1. i \in 1 .. L + 1 /\ j \in 1 .. L + 1 /\ k \in 1 .. L + 1
      BY SMTT(30), <1>1, <1>6, <2>1
    <3>2. Dist[to][g[j]] < Dist[to][g[i]]
      BY Zenon, <1>4, <1>6, <3>1
    <3> QED BY ZenonT(40), <1>2, <3>1, <3>2
  <2>2. CASE j = L + 2 /\ k = 1
    <3>1. i = L
      BY SMTT(30), <1>1, <1>6, <2>2
    <3> QED BY ZenonT(40), <1>2, <1>3, <2>2, <3>1
  <2>3. CASE j = L + 2 /\ k # 1
    <3>1. k - 1 \in 1 .. L + 1 /\ i \in 1 .. L + 1 /\ L \in 1 .. L + 1 /\ L = i + 2 * (k - 1)
      BY SMTT(30), <1>1, <1>6, <2>3
    <3>2. Dist[to][g[L]] < Dist[to][g[i]]
      BY ZenonT(30), <1>4, <3>1
    <3>3. g[L] = w /\ g[i] = f[i] /\ f[j] = c
      BY ZenonT(40), <1>2, <1>3, <2>3, <3>1
    <3>4. Dist[to][f[j]] \in Nat /\ Dist[to][f[L]] \in Nat /\ Dist[to][f[i]] \in Nat
      BY SMTT(30), <1>5, <1>1
    <3> QED BY SMTT(30), <1>3, <3>2, <3>3, <3>4
  <2> QED BY SMTT(30), <1>1, <2>1, <2>2, <2>3
<1>7. Nearing(f, to)
  BY Zenon, <1>2, <1>6 DEF Nearing
<1> QED BY Zenon, <1>7 DEF f, g

(* A path on which every second node is closer has no edge twice. *)
LEMMA NoEdgeTwice ==
    ASSUME NEW h \in Seq(Nodes), NEW to \in Nodes, Nearing(h, to),
           NEW i \in 1 .. Len(h) - 1, NEW j \in 1 .. Len(h) - 1,
           h[i] = h[j], h[i + 1] = h[j + 1]
    PROVE  i = j
<1>1. Len(h) \in Nat /\ \A k \in 1 .. Len(h) : h[k] \in Nodes
  OBVIOUS
<1>2. \A k \in 1 .. Len(h) : Dist[to][h[k]] \in Nat
  <2>1. \A e \in Nodes : Dist[to][e] \in Nat
    BY NetworkAssumption
  <2> QED BY ZenonT(40), <1>1, <2>1
<1>3. ASSUME NEW a \in 1 .. Len(h) - 1, NEW b \in 1 .. Len(h) - 1, a < b,
             h[a] = h[b], h[a + 1] = h[b + 1]
      PROVE  FALSE
  <2>1. PICK k \in Nat : b = a + 2 * k \/ b = a + 2 * k + 1
    <3> DEFINE m == b - a
    <3>1. m \in Nat
      BY <1>3
    <3>2. m = 2 * (m \div 2) \/ m = 2 * (m \div 2) + 1
      BY <3>1
    <3>3. m \div 2 \in Nat
      BY <3>1
    <3> QED BY SMTT(30), <1>3, <3>2, <3>3
  <2>2. /\ a \in 1 .. Len(h) /\ a + 1 \in 1 .. Len(h)
        /\ b \in 1 .. Len(h) /\ b + 1 \in 1 .. Len(h) /\ 1 \in 1 .. Len(h)
    BY <1>1
  <2>3. CASE b = a + 2 * k
    <3>1. k \in 1 .. Len(h)
      BY SMTT(30), <1>1, <1>3, <2>2, <2>3
    <3>2. Dist[to][h[b]] < Dist[to][h[a]]
      BY ZenonT(40), <2>2, <2>3, <3>1 DEF Nearing
    <3> QED BY SMTT(30), <1>2, <1>3, <2>2, <3>2
  <2>4. CASE b = a + 2 * k + 1 /\ k # 0
    <3>1. k \in 1 .. Len(h) /\ k + 1 \in 1 .. Len(h)
      BY SMTT(30), <1>1, <2>2, <2>4
    <3>2. b = (a + 1) + 2 * k /\ b + 1 = a + 2 * (k + 1)
      BY <2>4
    <3>3. Dist[to][h[b]] < Dist[to][h[a + 1]]
      BY Zenon, <2>2, <3>1, <3>2 DEF Nearing
    <3>4. Dist[to][h[b + 1]] < Dist[to][h[a]]
      BY Zenon, <2>2, <3>1, <3>2 DEF Nearing
    <3>5. Dist[to][h[a]] \in Nat /\ Dist[to][h[a + 1]] \in Nat
      BY Zenon, <1>2, <2>2
    <3>6. Dist[to][h[a]] < Dist[to][h[a + 1]] /\ Dist[to][h[a + 1]] < Dist[to][h[a]]
      BY ZenonT(40), <1>3, <3>3, <3>4
    <3> QED BY SMTT(30), <3>5, <3>6
  <2>5. CASE b = a + 1
    <3>1. b + 1 = a + 2 * 1
      BY <2>5
    <3>2. Dist[to][h[b + 1]] < Dist[to][h[a]]
      BY Zenon, <2>2, <3>1 DEF Nearing
    <3>3. h[b + 1] = h[a]
      BY Zenon, <1>3, <2>5
    <3> QED BY SMTT(60), <1>2, <2>2, <3>2, <3>3
  <2> QED BY SMTT(30), <1>3, <2>1, <2>3, <2>4, <2>5
<1>4. ~(i < j) /\ ~(j < i)
  BY Zenon, <1>3
<1>5. i \in Nat /\ j \in Nat
  OBVIOUS
<1> QED BY <1>4, <1>5
----------------------------------------------------------------------------
(* Requests of the application *)

(* A request is recorded under the next number. *)
LEMMA RequestAsks ==
    ASSUME Inv, NEW n \in Nodes, NEW to \in Nodes,
           NEW kind \in Kinds \cup {"StableDisconnect", "Broadcast"}, Request(kind, n, to)
    PROVE  /\ Asks /\ Next1 \in Nat /\ AskedBy(Next1, n, to, asked')
           /\ breaks' \in 0 .. BREAKS /\ keys' \in Nat
<1>1. asked \in Seq(Requests) /\ breaks \in 0 .. BREAKS /\ keys \in Nat
  BY Zenon DEF Inv, Rest
<1> DEFINE r == [kind |-> kind, from |-> n, to |-> to]
<1>2. r \in Requests /\ r.from = n /\ r.to = to /\ asked' = Append(asked, r)
  BY Zenon DEF Requests, Request
<1> HIDE DEF r
<1>3. /\ asked' \in Seq(Requests) /\ Len(asked') = Len(asked) + 1 /\ asked'[Len(asked) + 1] = r
      /\ \A i \in 1 .. Len(asked) : asked'[i] = asked[i]
  BY <1>1, <1>2
<1>4. Asks
  BY SMTT(30), <1>1, <1>3 DEF Asks, Longer
<1>5. Next1 \in Nat /\ AskedBy(Next1, n, to, asked')
  BY SMTT(30), <1>1, <1>2, <1>3 DEF Next1, AskedBy, AskedFrom
<1> QED BY Zenon, <1>1, <1>4, <1>5 DEF Request

(* The core made for a request is one of its node. *)
LEMMA NewOwn ==
    ASSUME NEW n, NEW to, NEW what \in Whats, NEW r \in Nat, NEW tid \in BOOLEAN,
           NEW A, NEW Q, AskedBy(r, n, to, Q)
    PROVE  CoreData(what, r, tid) \in Cores /\ Own(CoreData(what, r, tid), n, to, A, Q)
BY Zenon DEF CoreData, Cores, Own, AskedBy, Whats

(* The rest of the invariant after a request that is not queued. *)
LEMMA RequestInv ==
    ASSUME Inv, NEW n \in Nodes, NEW to \in Nodes, NEW kind \in Kinds \cup {"StableDisconnect"},
           Request(kind, n, to), Sound', Kept, UNCHANGED <<starting, connects, results>>
    PROVE  Inv'
<1>1. Asks /\ breaks' \in 0 .. BREAKS /\ keys' \in Nat
  BY Zenon, RequestAsks
<1>2. casting' = casting
  BY Zenon DEF Request, Kinds
<1>3. Rest' /\ Queues'
  BY Zenon, <1>1, <1>2, RestStep, SameLess DEF Inv, Rest
<1> QED BY Zenon, <1>3, StepInv

(* SendMessage::Data preserves the invariant. *)
LEMMA SendDataInv ==
    ASSUME WellOrdered, Inv, NEW n \in Nodes, NEW to \in Nodes, SendData(n, to)
    PROVE  Inv'
<1> DEFINE r == Next1
<1>1. Request("Data", n, to) /\ UNCHANGED <<starting, orphans, connects, results>>
  BY Zenon DEF SendData, tasks
<1>2. /\ Asks /\ r \in Nat /\ AskedBy(r, n, to, asked')
      /\ CoreData("Data", r, TRUE) \in Cores /\ Own(CoreData("Data", r, TRUE), n, to, app, asked')
  BY Zenon, <1>1, RequestAsks, NewOwn DEF Kinds, Whats
<1> HIDE DEF r
<1>3. CASE /\ to = n
           /\ Tell(n, <<Delivery("Data", r, TRUE), Event("Data", n, r)>>)
           /\ UNCHANGED <<direct, stables, tmps, link>>
  <2> DEFINE d == Delivery("Data", r, TRUE)
             e == Event("Data", n, r)
  <2>1. /\ d \in ReceiveMessages /\ e \in ReceiveMessages /\ d.ev = "Delivery" /\ d.req = r
        /\ e.ev = "Data" /\ e.data = r
    BY Zenon, <1>2 DEF Delivery, Event, ReceiveMessages, Kinds, Whats
  <2>2. app' = [app EXCEPT ![n] = @ \o <<d, e>>] /\ app \in [Nodes -> Seq(ReceiveMessages)]
    BY Zenon, <1>3 DEF Tell, Inv, Sound, AppOK
  <2> HIDE DEF d, e
  <2>3. app[n] \in Seq(ReceiveMessages) /\ <<d, e>> \in Seq(ReceiveMessages) /\ Len(<<d, e>>) = 2
    BY <2>1, <2>2
  <2>4. app'[n] = app[n] \o <<d, e>>
    BY Zenon, <2>2
  <2>5. Len(app[n]) + 2 \in DOMAIN app'[n] /\ app'[n][Len(app[n]) + 2] = e
    BY <2>3, <2>4
  <2>6. Has(app', n, r)
    BY Zenon, <2>1, <2>5 DEF Has
  <2>7. Honest(<<d, e>>, n, app', asked')
    <3>1. \A i \in DOMAIN <<d, e>> : <<d, e>>[i] \in {d, e}
      BY SMTT(30), <2>3
    <3>2. AskedFrom(r, n, asked') /\ asked'[r].to = n
      BY Zenon, <1>2, <1>3 DEF AskedBy
    <3> QED BY ZenonT(40), <2>1, <2>6, <3>1, <3>2 DEF Honest
  <2>8. Carried
    BY ZenonT(30), <1>2, <1>3, <2>3, <2>7, TellCarries DEF d, e
  <2>9. Sound' /\ Kept
    BY Zenon, <1>1, <1>3, <2>8, TellSound DEF direct
  <2> QED BY Zenon, <1>1, <2>9, RequestInv DEF Kinds
<1>4. CASE IsIt(n, to) /\ SendOver(n, to, It(n, to), CoreData("Data", r, TRUE))
  <2>1. Usable(It(n, to), to)
    BY Zenon, <1>4, ServesUsable DEF Serves
  <2>2. Sound' /\ Kept
    BY Zenon, <1>2, <1>4, <2>1, SendOverSound
  <2> QED BY ZenonT(40), <1>1, <2>2, RequestInv DEF Kinds
<1>5. CASE Refuse(n, "Data")
  <2>1. Sound' /\ Kept
    BY Zenon, <1>2, <1>5, RefuseSound DEF Kinds
  <2> QED BY Zenon, <1>1, <2>1, RequestInv DEF Kinds
<1>6. CASE /\ ~IsIt(n, to)
           /\ \E c \in dht_get(n, to) :
                c # Nobody /\ link' = Put(link, n, c, <<RelayData(n, to, Plain(r))>>)
           /\ UNCHANGED <<direct, stables, tmps, app>>
  <2>1. PICK c \in dht_get(n, to) :
            c # Nobody /\ link' = Put(link, n, c, <<RelayData(n, to, Plain(r))>>)
    BY ZenonT(40), <1>6
  <2>12. c # to
    BY Zenon, <1>6, <2>1, LookupIs DEF IsIt
  <2>2. Plain(r) \in Payloads /\ Plain(r).key = <<>>
    BY <1>2 DEF Plain, Payloads, CoreData, Cores, Whats
  <2>3. Carried
    BY Zenon, <1>2, <1>6, SilenceCarries
  <2>4. Sealed(Plain(r), n, to, app', asked')
    BY Zenon, <2>2 DEF Sealed
  <2>5. /\ RelayData(n, to, Plain(r)) \in Messages /\ Straight(RelayData(n, to, Plain(r)), n, c)
        /\ Aside(RelayData(n, to, Plain(r)), n, c)
    BY Zenon, <2>2, <2>12, NewRelay
  <2>6. Fine(RelayData(n, to, Plain(r)), n, c, app', asked')
    BY Zenon, <2>4, <2>5 DEF Fine, RelayData
  <2>7. QueueOK(<<RelayData(n, to, Plain(r))>>, n, c, app', asked')
    BY Zenon, <2>5, <2>6, QueueOne
  <2>8. LinksOK(link', app', asked')
    BY ZenonT(40), <2>1, <2>3, <2>7, PutOK DEF Carried, Inv, Sound
  <2>9. Sets' /\ StablesOK(stables', app', asked') /\ TmpsOK(tmps', app', asked')
    BY Zenon, <1>1, <1>6, <2>3 DEF Carried, direct, Sets, Inv, Sound
  <2>10. Sound'
    BY Zenon, <2>3, <2>8, <2>9, SoundStep DEF Carried
  <2>11. Kept
    BY ZenonT(40), <1>6, RemovalKept DEF direct
  <2> QED BY ZenonT(40), <1>1, <2>10, <2>11, RequestInv DEF Kinds
<1> QED BY ZenonT(40), <1>3, <1>4, <1>5, <1>6 DEF SendData, r

(* What is queued stays asked for when more requests are made. *)
LEMMA SameQueues ==
    ASSUME Inv, Asks
    PROVE  \A i, j \in Nodes : /\ Queued(connects[i][j], i, j, asked')
                               /\ Queued(results[i][j], i, j, asked')
<1>1. Grows(app, app, asked, asked')
  BY Zenon, AsksGrow
<1>2. \A r, n : AskedFrom(r, n, asked) => AskedFrom(r, n, asked') /\ asked'[r] = asked[r]
  BY Zenon, <1>1, AskedGrows
<1> QED BY <1>2 DEF Inv, Queues, Queued, AskedBy

(* A queue after one more request was added. *)
LEMMA QueuedMore ==
    ASSUME NEW n, NEW to, NEW r \in Nat, NEW Q, AskedBy(r, n, to, Q),
           NEW s \in Seq(Nat), Queued(s, n, to, Q)
    PROVE  Append(s, r) \in Seq(Nat) /\ Queued(Append(s, r), n, to, Q)
<1> DEFINE q == Append(s, r)
<1>1. q \in Seq(Nat) /\ Len(q) = Len(s) + 1
  OBVIOUS
<1>2. ASSUME NEW k \in DOMAIN q PROVE AskedBy(q[k], n, to, Q)
  <2>1. CASE k \in 1 .. Len(s)
    <3>1. q[k] = s[k] /\ k \in DOMAIN s
      BY <2>1
    <3> QED BY Zenon, <3>1 DEF Queued
  <2>2. CASE k = Len(s) + 1
    BY <2>2
  <2>3. k \in 1 .. Len(s) + 1
    BY <1>1
  <2> QED BY SMTT(30), <2>1, <2>2, <2>3
<1> QED BY Zenon, <1>1, <1>2 DEF Queued

(* The queues after one of them was set. *)
LEMMA QueuesSet ==
    ASSUME NEW n \in Nodes, NEW to \in Nodes, NEW Q, NEW q \in Seq(Nat), Queued(q, n, to, Q),
           NEW T \in [Nodes -> [Nodes -> Seq(Nat)]], \A i, j \in Nodes : Queued(T[i][j], i, j, Q),
           NEW U, U = [T EXCEPT ![n][to] = q]
    PROVE  U \in [Nodes -> [Nodes -> Seq(Nat)]] /\ \A i, j \in Nodes : Queued(U[i][j], i, j, Q)
<1>1. /\ U \in [Nodes -> [Nodes -> Seq(Nat)]]
      /\ \A i, j \in Nodes : U[i][j] = IF i = n /\ j = to THEN q ELSE T[i][j]
  BY ZenonT(30), TableSet
<1> QED BY Zenon, <1>1

(* A request that is queued preserves the invariant. *)
LEMMA EnqueueInv ==
    ASSUME WellOrdered, Inv, NEW n \in Nodes, NEW to \in Nodes, NEW kind \in Kinds, Request(kind, n, to),
           ~IsIt(n, to), NEW c \in dht_get(n, to), c # Nobody, NEW queue, Enqueue(queue, n, to, c),
           \/ connects' = [connects EXCEPT ![n][to] = Append(@, Next1)] /\ results' = results
           \/ results' = [results EXCEPT ![n][to] = Append(@, Next1)] /\ connects' = connects
    PROVE  Inv'
<1> DEFINE r == Next1
           task == [at |-> n, to |-> to, via |-> c, tid |-> r]
<1>1. /\ Asks /\ r \in Nat /\ AskedBy(r, n, to, asked')
      /\ breaks' \in 0 .. BREAKS /\ keys' \in Nat /\ casting' = casting
  BY Zenon, RequestAsks DEF Request, Kinds
<1>2. /\ UNCHANGED <<open, up, dhts, stables, tmps, orphans, link, app>>
      /\ starting' \subseteq starting \cup {task}
  BY Zenon DEF Enqueue, Ignored, direct
<1>3. c \in Nodes /\ c # to
  BY Zenon, LookupIs DEF IsIt
<1>4. Sound' /\ Kept
  BY Zenon, <1>1, <1>2, SilenceCarries, TellSound
<1>5. /\ task \in [at : Nodes, to : Nodes, via : Nodes, tid : Nat] /\ task.at = n /\ task.to = to
      /\ task.via # task.to
  BY Zenon, <1>1, <1>3
<1> HIDE DEF r, task
<1>6. /\ connects' \in [Nodes -> [Nodes -> Seq(Nat)]] /\ results' \in [Nodes -> [Nodes -> Seq(Nat)]]
      /\ \A i, j \in Nodes : /\ Queued(connects'[i][j], i, j, asked')
                             /\ Queued(results'[i][j], i, j, asked')
  <2>1. connects \in [Nodes -> [Nodes -> Seq(Nat)]] /\ results \in [Nodes -> [Nodes -> Seq(Nat)]]
    BY Zenon DEF Inv, Rest
  <2>2. /\ \A i, j \in Nodes : Queued(connects[i][j], i, j, asked')
        /\ \A i, j \in Nodes : Queued(results[i][j], i, j, asked')
    BY Zenon, <1>1, SameQueues
  <2>3. CASE connects' = [connects EXCEPT ![n][to] = Append(@, r)] /\ results' = results
    <3> DEFINE q == Append(connects[n][to], r)
    <3>1. q \in Seq(Nat) /\ Queued(q, n, to, asked')
      BY SMTT(30), <1>1, <2>1, <2>2, QueuedMore
    <3>2. connects' = [connects EXCEPT ![n][to] = q]
      BY Zenon, <2>1, <2>3
    <3> HIDE DEF q
    <3>3. /\ connects' \in [Nodes -> [Nodes -> Seq(Nat)]]
          /\ \A i, j \in Nodes : Queued(connects'[i][j], i, j, asked')
      BY ZenonT(40), <2>1, <2>2, <3>1, <3>2, QueuesSet
    <3> QED BY ZenonT(40), <2>1, <2>2, <2>3, <3>3
  <2>4. CASE results' = [results EXCEPT ![n][to] = Append(@, r)] /\ connects' = connects
    <3> DEFINE q == Append(results[n][to], r)
    <3>1. q \in Seq(Nat) /\ Queued(q, n, to, asked')
      BY SMTT(30), <1>1, <2>1, <2>2, QueuedMore
    <3>2. results' = [results EXCEPT ![n][to] = q]
      BY Zenon, <2>1, <2>4
    <3> HIDE DEF q
    <3>3. /\ results' \in [Nodes -> [Nodes -> Seq(Nat)]]
          /\ \A i, j \in Nodes : Queued(results'[i][j], i, j, asked')
      BY ZenonT(40), <2>1, <2>2, <3>1, <3>2, QueuesSet
    <3> QED BY ZenonT(40), <2>1, <2>2, <2>4, <3>3
  <2> QED BY Zenon, <2>3, <2>4 DEF r
<1>7. Rest'
  BY ZenonT(40), <1>1, <1>2, <1>5, <1>6 DEF Inv, Rest, Asks
<1>8. Queues'
  <2>1. \A m, q : AskedFrom(q, m, asked) => AskedFrom(q, m, asked')
    BY Zenon, <1>1, AsksGrow, AskedGrows
  <2> QED BY Zenon, <1>1, <1>6, <2>1 DEF Inv, Queues
<1>9. Unknown'
  <2>1. to \notin dhts[n] /\ stables[n][to] # Direct
    BY SMTT(30) DEF IsIt, None, Direct
  <2> QED BY ZenonT(40), <1>2, <1>5, <2>1 DEF Inv, Unknown
<1> QED BY Zenon, <1>4, <1>7, <1>8, <1>9 DEF Inv

(* SendMessage::StableConnect preserves the invariant. *)
LEMMA SendStableConnectInv ==
    ASSUME WellOrdered, Inv, NEW n \in Nodes, NEW to \in Nodes, SendStableConnect(n, to)
    PROVE  Inv'
<1> DEFINE core == CoreData("StableConnect", Next1, TRUE)
           kept == UNCHANGED <<starting, connects>>
<1>1. Request("StableConnect", n, to) /\ UNCHANGED results
  BY Zenon DEF SendStableConnect
<1>2. Asks /\ core \in Cores /\ Own(core, n, to, app, asked')
  BY Zenon, <1>1, RequestAsks, NewOwn DEF Kinds, Whats
<1> HIDE DEF core
<1>3. CASE Refuse(n, "StableConnect") /\ kept
  <2>1. Sound' /\ Kept
    BY Zenon, <1>2, <1>3, RefuseSound DEF Kinds
  <2> QED BY ZenonT(40), <1>1, <1>3, <2>1, RequestInv DEF Kinds
<1>4. CASE IsIt(n, to) /\ SendAndUpgrade(n, to, It(n, to), core) /\ kept
  <2>1. Sound' /\ Kept
    BY Zenon, <1>2, <1>4, SendAndUpgradeSound DEF Serves
  <2> QED BY Zenon, <1>1, <1>4, <2>1, RequestInv DEF Kinds
<1>5. CASE ToTmp(n, to, core) /\ kept
  <2>1. Sound' /\ Kept
    BY ZenonT(40), <1>2, <1>5, ToTmpSound
  <2> QED BY Zenon, <1>1, <1>5, <2>1, RequestInv DEF Kinds
<1>6. CASE /\ ~IsIt(n, to)
           /\ \E c \in dht_get(n, to) :
                /\ c # Nobody /\ Enqueue(connects, n, to, c)
                /\ connects' = [connects EXCEPT ![n][to] = Append(@, Next1)]
  BY ZenonT(30), <1>1, <1>6, EnqueueInv DEF Kinds
<1> QED BY ZenonT(30), <1>3, <1>4, <1>5, <1>6 DEF SendStableConnect, core

(* SendMessage::StableResult preserves the invariant. *)
LEMMA SendStableResultInv ==
    ASSUME WellOrdered, Inv, NEW n \in Nodes, NEW to \in Nodes, NEW ok, NEW force,
           SendStableResult(n, to, ok, force)
    PROVE  Inv'
<1> DEFINE core == CoreData("StableResult", Next1, TRUE)
           kept == UNCHANGED <<starting, results>>
<1>1. Request("StableResult", n, to) /\ UNCHANGED connects
  BY Zenon DEF SendStableResult
<1>2. Asks /\ core \in Cores /\ Own(core, n, to, app, asked')
  BY Zenon, <1>1, RequestAsks, NewOwn DEF Kinds, Whats
<1> HIDE DEF core
<1>3. CASE Refuse(n, "StableResult") /\ kept
  <2>1. Sound' /\ Kept
    BY Zenon, <1>2, <1>3, RefuseSound DEF Kinds
  <2> QED BY Zenon, <1>1, <1>3, <2>1, RequestInv DEF Kinds
<1>4. CASE tmps[n][to].st = "asking" /\ GiveUp(n, to) /\ kept
  <2>1. Sound' /\ Kept
    BY Zenon, <1>2, <1>4, GiveUpSound
  <2> QED BY Zenon, <1>1, <1>4, <2>1, RequestInv DEF Kinds
<1>5. CASE \E s : Serves(n, to, s) /\ Answer(n, to, s, core, ok, force) /\ kept
  <2>1. Sound' /\ Kept
    BY Zenon, <1>2, <1>5, AnswerSound
  <2> QED BY Zenon, <1>1, <1>5, <2>1, RequestInv DEF Kinds
<1>6. CASE /\ ~IsIt(n, to)
           /\ \E c \in dht_get(n, to) :
                /\ c # Nobody /\ Enqueue(results, n, to, c)
                /\ results' = [results EXCEPT ![n][to] = Append(@, Next1)]
  BY ZenonT(30), <1>1, <1>6, EnqueueInv DEF Kinds
<1>7. ASSUME tmps[n][to].st = "waiting", Answer(n, to, tmps[n][to], core, ok, force), kept
      PROVE  Inv'
  BY ZenonT(40), <1>5, <1>7 DEF Serves
<1>8. ASSUME IsIt(n, to), Answer(n, to, It(n, to), core, ok, force), kept
      PROVE  Inv'
  BY Zenon, <1>5, <1>8 DEF Serves
<1>9. CASE Ignored /\ kept
  <2>1. Sound' /\ Kept
    BY Zenon, <1>2, <1>9, SilenceCarries, TellSound DEF Ignored, direct
  <2> QED BY ZenonT(40), <1>1, <1>9, <2>1, RequestInv DEF Kinds
<1> QED BY ZenonT(40), <1>3, <1>4, <1>6, <1>7, <1>8, <1>9 DEF SendStableResult, core
----------------------------------------------------------------------------
(* Steps that end sessions, and broadcasts *)

(* The session that PeerList::get finds can send. *)
LEMMA ItUsable ==
    ASSUME Inv, NEW n \in Nodes, NEW p \in Nodes
    PROVE  Usable(It(n, p), p)
<1>1. stables[n][p] \in StableEntries /\ StableFine(stables[n][p], n, p, app, asked)
  BY Zenon DEF Inv, Sound, StablesOK
<1> QED BY Zenon, <1>1 DEF It, Usable, StableEntries, StableFine

(* A queue stays in order when a request is made. *)
LEMMA LinkGrown ==
    ASSUME Inv, Asks, NEW n \in Nodes, NEW p \in Nodes
    PROVE  QueueOK(link[n][p], n, p, app, asked')
BY Zenon, AsksGrow, TablesGrow, LinksAre DEF Inv, Sound

(* The links after a session cut its queue short and closed. *)
LEMMA ClosedLink ==
    ASSUME Inv, Carried, NEW n \in Nodes, NEW p \in Nodes, NEW k \in 0 .. Len(link[n][p]),
           link' = [link EXCEPT ![n][p] = Append(SubSeq(@, 1, k), Close), ![p][n] = <<>>]
    PROVE  LinksOK(link', app', asked')
<1>1. LinksOK(link, app', asked') /\ link \in [Nodes -> [Nodes -> Seq(Messages)]]
  BY Zenon DEF Carried, LinksOK
<1>2. QueueOK(link[n][p], n, p, app', asked')
  BY Zenon, <1>1, LinksAre
<1> DEFINE q == Append(SubSeq(link[n][p], 1, k), Close)
<1>3. QueueOK(q, n, p, app', asked')
  BY Zenon, <1>2, QueueCut
<1>4. link' = [link EXCEPT ![n][p] = q, ![p][n] = <<>>]
  BY Zenon, <1>1
<1> HIDE DEF q
<1> QED BY ZenonT(30), <1>1, <1>3, <1>4, ClosedOK

(* The queued requests of n for p are dropped. *)
LEMMA Dropped ==
    ASSUME Inv, NEW n \in Nodes, NEW p \in Nodes,
           connects' = [connects EXCEPT ![n][p] = <<>>],
           results' = [results EXCEPT ![n][p] = <<>>]
    PROVE  /\ connects' \in [Nodes -> [Nodes -> Seq(Nat)]] /\ Less(connects, connects')
           /\ results' \in [Nodes -> [Nodes -> Seq(Nat)]] /\ Less(results, results')
BY SMTT(30) DEF Inv, Rest, Less

(* SendMessage::StableDisconnect preserves the invariant. *)
LEMMA SendStableDisconnectInv ==
    ASSUME Inv, NEW n \in Nodes, NEW p \in Nodes, SendStableDisconnect(n, p)
    PROVE  Inv'
<1>1. Request("StableDisconnect", n, p) /\ casting' = casting
  BY Zenon DEF SendStableDisconnect, Request
<1>2. Asks /\ breaks' \in 0 .. BREAKS /\ keys' \in Nat
  BY Zenon, <1>1, RequestAsks
<1>3. CASE IsIt(n, p) /\ CloseRelayed(n, p, It(n, p)) /\ UNCHANGED tasks
  BY ZenonT(40), <1>1, <1>2, <1>3, CloseRelayedSound, RequestInv DEF tasks
<1>4. CASE CloseDirect(n, p, link[n][p]) /\ UNCHANGED <<starting, connects, results>>
  BY ZenonT(40), <1>1, <1>2, <1>4, CloseDirectSound, LinkGrown, RequestInv
<1>5. CASE /\ IsIt(n, p) /\ It(n, p) = Direct
           /\ open' = [open EXCEPT ![n] = @ \ {p}]
           /\ up' = [up EXCEPT ![n] = @ \ {p}]
           /\ dhts' = [dhts EXCEPT ![n] = @ \cup {p}]
           /\ stables' = [stables EXCEPT ![n][p] = None]
           /\ tmps' = [tmps EXCEPT ![n][p] = None]
           /\ orphans' = orphans \cup Orphaned(n, p)
           /\ connects' = [connects EXCEPT ![n][p] = <<>>]
           /\ results' = [results EXCEPT ![n][p] = <<>>]
           /\ Tell(n, <<Leave(p), Leave(p)>>)
           /\ \E k \in 0 .. Len(link[n][p]) :
                link' = [link EXCEPT ![n][p] = Append(SubSeq(@, 1, k), Close), ![p][n] = <<>>]
           /\ UNCHANGED starting
  <2>1. Carried
    BY Zenon, <1>2, <1>5, TellCarries, LeaveHonest
  <2>2. LinksOK(link', app', asked')
    BY Zenon, <1>5, <2>1, ClosedLink
  <2>3. StablesOK(stables', app', asked') /\ TmpsOK(tmps', app', asked')
    BY ZenonT(40), <1>5, <2>1, StableRemoved, TmpRemoved DEF Carried
  <2>4. Sets'
    BY Zenon, <1>5, OrphanedType DEF Inv, Sound, Sets
  <2>5. Sound'
    BY ZenonT(40), <2>1, <2>2, <2>3, <2>4, SoundStep DEF Carried
  <2>6. Kept
    <3>1. /\ stables \in [Nodes -> [Nodes -> StableEntries]]
          /\ tmps \in [Nodes -> [Nodes -> TmpEntries]] /\ dhts \in [Nodes -> SUBSET Nodes]
      BY Zenon DEF Inv, Sound, StablesOK, TmpsOK, Sets
    <3>2. \A i, j \in Nodes : stables'[i][j] \in {stables[i][j], None}
      BY Zenon, <1>5, <3>1
    <3>3. \A i, j \in Nodes : tmps'[i][j] \in {tmps[i][j], None}
      BY Zenon, <1>5, <3>1
    <3>4. \A i, j \in Nodes : j \in dhts'[i] => j \in dhts[i] \/ (i = n /\ j = p)
      BY Zenon, <1>5, <3>1
    <3>5. p \in dhts[n] \/ stables[n][p] = Direct
      BY Zenon, <1>1, <1>5 DEF It, IsIt
    <3>6. None # Direct /\ None.st = "none"
      BY Zenon DEF None, Direct
    <3> QED BY ZenonT(40), <3>2, <3>3, <3>4, <3>5, <3>6 DEF Kept
  <2>7. Rest' /\ Queues'
    <3>1. casting' \in [Nodes -> SUBSET [req : Nat, to : Nodes]]
      BY Zenon, <1>1 DEF Inv, Rest
    <3> QED BY Zenon, <1>1, <1>2, <1>5, <3>1, Dropped, RestStep
  <2> QED BY ZenonT(40), <1>5, <2>5, <2>6, <2>7, StepInv
<1>6. CASE Ignored /\ UNCHANGED tasks
  <2>1. Sound' /\ Kept
    BY ZenonT(40), <1>2, <1>6, SilenceCarries, TellSound DEF Ignored, direct
  <2> QED BY Zenon, <1>1, <1>6, <2>1, RequestInv DEF tasks
<1> QED BY ZenonT(40), <1>3, <1>4, <1>5, <1>6 DEF SendStableDisconnect

(* SendMessage::Broadcast preserves the invariant. *)
LEMMA SendBroadcastInv ==
    ASSUME Inv, NEW n \in Nodes, NEW gossip \in BOOLEAN, SendBroadcast(n, gossip)
    PROVE  Inv'
<1> DEFINE P == {p \in Nodes : stables[n][p] # None \/ (gossip /\ p \in dhts[n])}
<1>1. /\ Asks /\ Next1 \in Nat /\ AskedBy(Next1, n, n, asked')
      /\ breaks' \in 0 .. BREAKS /\ keys' \in Nat
  BY Zenon, RequestAsks DEF SendBroadcast
<1>2. Sound' /\ Kept
  BY Zenon, <1>1, SilenceCarries, TellSound DEF SendBroadcast, direct, tasks
<1>3. /\ casting' = [casting EXCEPT ![n] = [req : {Next1}, to : P]] /\ P \subseteq Nodes
      /\ casting \in [Nodes -> SUBSET [req : Nat, to : Nodes]]
      /\ UNCHANGED <<starting, connects, results>>
  BY Zenon DEF SendBroadcast, Inv, Rest, tasks
<1> HIDE DEF P
<1>4. /\ casting' \in [Nodes -> SUBSET [req : Nat, to : Nodes]]
      /\ \A m \in Nodes : \A c \in casting'[m] : c \in casting[m] \/ AskedFrom(c.req, m, asked')
  BY Zenon, <1>1, <1>3 DEF AskedBy
<1>5. Rest' /\ Queues'
  BY ZenonT(30), <1>1, <1>3, <1>4, RestStep, SameLess DEF Inv, Rest
<1> QED BY Zenon, <1>2, <1>3, <1>5, StepInv

(* A step of a broadcast preserves the invariant. *)
LEMMA CastInv ==
    ASSUME Inv, NEW n \in Nodes, NEW c, Cast(n, c)
    PROVE  Inv'
<1> DEFINE core == CoreData("Data", c.req, FALSE)
<1>1. c \in casting[n] /\ casting \in [Nodes -> SUBSET [req : Nat, to : Nodes]]
  BY Zenon DEF Cast, Inv, Rest
<1>2. c.req \in Nat /\ c.to \in Nodes /\ AskedFrom(c.req, n, asked)
  BY <1>1 DEF Inv, Queues
<1>3. asked' = asked /\ Asks
  BY Zenon, SameAsks DEF Cast
<1>4. core \in Cores /\ Own(core, n, c.to, app, asked')
  BY Zenon, <1>2, <1>3 DEF CoreData, Cores, Own, Whats
<1>5. SendOver(n, c.to, It(n, c.to), core)
  BY Zenon DEF Cast
<1> HIDE DEF core
<1>6. Sound' /\ Kept
  BY ZenonT(40), <1>2, <1>3, <1>4, <1>5, ItUsable, SendOverSound
<1>7. /\ casting' \in [Nodes -> SUBSET [req : Nat, to : Nodes]]
      /\ \A m \in Nodes : casting'[m] \subseteq casting[m]
  BY Zenon, <1>1 DEF Cast
<1>8. breaks' \in 0 .. BREAKS /\ keys' \in Nat
  BY Zenon DEF Cast, Inv, Rest
<1> QED BY Zenon, <1>6, <1>7, <1>8, QuietInv DEF Cast
----------------------------------------------------------------------------
(* What a session does with what it received *)

(* The fields of a core. *)
LEMMA CoreIs ==
    ASSUME NEW core \in Cores
    PROVE  /\ core.req \in Nat
           /\ core.what = "Delivery" => core.kind \in Kinds
           /\ core.what # "Delivery" => core.what \in Whats /\ core.tid \in BOOLEAN
BY Zenon DEF Cores, Whats

(* Honest events, one after the other. *)
LEMMA HonestConcat ==
    ASSUME NEW a \in Seq(ReceiveMessages), NEW b \in Seq(ReceiveMessages), NEW n, NEW A, NEW Q,
           Honest(a, n, A, Q), Honest(b, n, A, Q)
    PROVE  a \o b \in Seq(ReceiveMessages) /\ Honest(a \o b, n, A, Q)
<1>1. \A i \in DOMAIN (a \o b) :
        \/ i \in DOMAIN a /\ (a \o b)[i] = a[i]
        \/ i - Len(a) \in DOMAIN b /\ (a \o b)[i] = b[i - Len(a)]
  OBVIOUS
<1> QED BY <1>1 DEF Honest

(* A sequence of at most one event. *)
LEMMA OneEvent ==
    ASSUME NEW e \in ReceiveMessages, NEW s, s = <<>> \/ s = <<e>>
    PROVE  s \in Seq(ReceiveMessages) /\ \A i \in DOMAIN s : s[i] = e
<1>1. CASE s = <<>>
  BY <1>1
<1>2. CASE s = <<e>>
  BY SMTT(30), <1>2
<1> QED BY Zenon, <1>1, <1>2

(* An application that is told of a request has it. *)
LEMMA HasTold ==
    ASSUME NEW A \in [Nodes -> Seq(ReceiveMessages)], NEW n \in Nodes,
           NEW events \in Seq(ReceiveMessages), NEW B, B = [A EXCEPT ![n] = @ \o events],
           NEW j \in DOMAIN events, events[j].ev \notin {"Delivery", "StableLeave"}
    PROVE  Has(B, n, events[j].data)
<1>1. A[n] \in Seq(ReceiveMessages) /\ B[n] = A[n] \o events
  BY Zenon
<1>2. Len(A[n]) + j \in DOMAIN B[n] /\ B[n][Len(A[n]) + j] = events[j]
  BY <1>1
<1> QED BY Zenon, <1>2 DEF Has

(* What the application is told of what p sent is true ... *)
LEMMA ToldHonest ==
    ASSUME NEW n \in Nodes, NEW p \in Nodes, NEW core \in Cores, NEW recv, NEW A, NEW B, NEW Q,
           Own(core, p, n, A, Q), Grows(A, B, Q, Q)
    PROVE  Told(p, core, recv) \in Seq(ReceiveMessages) /\ Honest(Told(p, core, recv), n, B, Q)
<1>1. CASE core.what = "Delivery"
  <2> DEFINE e == Delivery(core.kind, core.req, TRUE)
  <2>1. e \in ReceiveMessages /\ e.req = core.req
    BY Zenon, <1>1, CoreIs DEF Delivery, ReceiveMessages
  <2>2. AskedFrom(core.req, n, Q) /\ Q[core.req].to = p /\ Has(B, p, core.req)
    BY Zenon, <1>1, HasGrows DEF Own, AskedBy
  <2>3. Told(p, core, recv) = <<>> \/ Told(p, core, recv) = <<e>>
    BY Zenon, <1>1 DEF Told
  <2> HIDE DEF e
  <2>4. /\ Told(p, core, recv) \in Seq(ReceiveMessages)
        /\ \A i \in DOMAIN Told(p, core, recv) : Told(p, core, recv)[i] = e
    BY Zenon, <2>1, <2>3, OneEvent
  <2> QED BY Zenon, <2>1, <2>2, <2>4 DEF Honest
<1>2. CASE core.what # "Delivery"
  <2> DEFINE e == Event(core.what, p, core.req)
  <2>1. e \in ReceiveMessages /\ e.ev # "Delivery"
    BY Zenon, <1>2, CoreIs DEF Event, ReceiveMessages
  <2>2. Told(p, core, recv) = <<>> \/ Told(p, core, recv) = <<e>>
    BY Zenon, <1>2 DEF Told
  <2> HIDE DEF e
  <2>3. /\ Told(p, core, recv) \in Seq(ReceiveMessages)
        /\ \A i \in DOMAIN Told(p, core, recv) : Told(p, core, recv)[i] = e
    BY Zenon, <2>1, <2>2, OneEvent
  <2> QED BY Zenon, <2>1, <2>3 DEF Honest
<1> QED BY Zenon, <1>1, <1>2

(* ... and what is sent back is a reply to what it was told. *)
LEMMA RepliedOwn ==
    ASSUME NEW n \in Nodes, NEW p \in Nodes, NEW core \in Cores, NEW recv, NEW A, NEW B, NEW Q,
           A \in [Nodes -> Seq(ReceiveMessages)], Own(core, p, n, A, Q),
           NEW events \in Seq(ReceiveMessages), B = [A EXCEPT ![n] = @ \o events],
           \A i \in DOMAIN Told(p, core, recv) :
               \E j \in DOMAIN events : events[j] = Told(p, core, recv)[i]
    PROVE  /\ Replied(core, recv) \in Seq(Cores)
           /\ \A i \in DOMAIN Replied(core, recv) : Own(Replied(core, recv)[i], n, p, B, Q)
<1>1. CASE core.what = "Delivery" \/ (core.what = "Data" /\ ~recv) \/ ~core.tid
  <2>1. Replied(core, recv) = <<>>
    BY Zenon, <1>1 DEF Replied
  <2> QED BY <2>1
<1>2. CASE ~(core.what = "Delivery" \/ (core.what = "Data" /\ ~recv) \/ ~core.tid)
  <2> DEFINE d == [what |-> "Delivery", kind |-> Kind(core.what), req |-> core.req]
             e == Event(core.what, p, core.req)
  <2>1. Replied(core, recv) = <<d>>
    BY Zenon, <1>2 DEF Replied
  <2>2. core.what \in Whats /\ core.req \in Nat
    BY Zenon, <1>2, CoreIs
  <2>3. d \in Cores
    BY Zenon, <1>2, <2>2 DEF Cores, Kind, Kinds, Whats
  <2>4. Told(p, core, recv) = <<e>>
    BY Zenon, <1>2 DEF Told
  <2>5. e.ev \notin {"Delivery", "StableLeave"} /\ e.data = core.req
    BY Zenon, <2>2 DEF Event, Whats
  <2> HIDE DEF e
  <2>6. PICK j \in DOMAIN events : events[j] = e
    BY SMTT(30), <2>4
  <2>7. Has(B, n, core.req)
    BY ZenonT(30), <2>5, <2>6, HasTold
  <2>8. AskedBy(core.req, p, n, Q)
    BY Zenon, <1>2 DEF Own, AskedBy
  <2>9. Own(d, n, p, B, Q)
    BY Zenon, <2>7, <2>8 DEF Own
  <2> HIDE DEF d
  <2> QED BY SMTT(60), <2>1, <2>3, <2>9
<1> QED BY Zenon, <1>1, <1>2

(* Data over a direct session preserves the invariant. *)
LEMMA HandleDataInv ==
    ASSUME Inv, NEW n \in Nodes, NEW w \in Nodes, HandleData(n, w)
    PROVE  Inv'
<1> DEFINE m == Head(link[w][n])
           told == Told(w, m.core, RecvData(n, w))
           reply == Replied(m.core, RecvData(n, w))
<1>1. /\ link[w][n] # <<>> /\ m.t = "Data" /\ Tell(n, told) /\ asked' = asked
      /\ link' = Put(Taken(n, w), n, w, Sent(n, w, Direct, reply))
  BY Zenon DEF HandleData, Received, server
<1>2. UNCHANGED <<open, up, dhts, stables, tmps, starting, orphans, connects, results, casting,
                  asked, breaks, keys>>
  BY Zenon DEF HandleData, Received, direct, tasks, server
<1>3. m \in Messages /\ Fine(m, w, n, app, asked)
  BY Zenon, <1>1, TakenOK DEF Inv, Sound
<1>4. m.core \in Cores /\ Own(m.core, w, n, app, asked)
  BY Zenon, <1>1, <1>3, DataIs DEF Fine
<1>5. Asks /\ AppOK(app, asked) /\ asked \in Seq(Requests)
  <2>1. AppOK(app, asked) /\ asked \in Seq(Requests)
    BY Zenon DEF Inv, Sound, Rest
  <2> QED BY Zenon, <1>1, <2>1, SameAsks
<1> HIDE DEF m
<1>6. told \in Seq(ReceiveMessages)
  <2>1. Grows(app, app, asked, asked)
    BY ZenonT(40), <1>1, <1>5, AsksGrow
  <2> QED BY ZenonT(40), <1>4, <2>1, ToldHonest
<1>7. app' = [app EXCEPT ![n] = @ \o told]
  BY Zenon, <1>1 DEF Tell
<1>8. Grows(app, app', asked, asked)
  <2>1. Longer(asked, asked)
    BY SMTT(30), <1>5 DEF Longer
  <2> QED BY ZenonT(40), <1>5, <1>6, <1>7, <2>1, TellGrows
<1>9. Honest(told, n, app', asked')
  BY Zenon, <1>1, <1>4, <1>8, ToldHonest
<1>10. reply \in Seq(Cores) /\ \A i \in DOMAIN reply : Own(reply[i], n, w, app', asked')
  BY ZenonT(40), <1>1, <1>4, <1>5, <1>6, <1>7, RepliedOwn DEF AppOK
<1> HIDE DEF told, reply
<1>11. Carried
  BY ZenonT(40), <1>1, <1>5, <1>6, <1>9, TellCarries
<1>12. LinksOK(Taken(n, w), app', asked')
  BY Zenon, <1>1, <1>11, TakenOK DEF Carried
<1>13. QueueOK(Sent(n, w, Direct, reply), n, w, app', asked')
  BY ZenonT(30), <1>10, SentOK DEF Usable, Carrier
<1>14. LinksOK(link', app', asked')
  BY ZenonT(40), <1>1, <1>12, <1>13, PutOK DEF Inv, Sound
<1>15. Sets' /\ StablesOK(stables', app', asked') /\ TmpsOK(tmps', app', asked')
  BY Zenon, <1>2, <1>11 DEF Carried, Inv, Sound, Sets
<1>16. Sound'
  BY ZenonT(40), <1>11, <1>14, <1>15, SoundStep DEF Carried
<1>17. Kept
  BY Zenon, <1>2 DEF Kept
<1> QED BY ZenonT(40), <1>2, <1>16, <1>17, QuietInv DEF Inv, Rest
----------------------------------------------------------------------------

(* The fields of a relayed message. *)
LEMMA RelayIs ==
    ASSUME NEW m \in Messages, m.t \in Relays
    PROVE  /\ m.from \in Nodes /\ m.to \in Nodes /\ m.path \in Seq(Nodes) /\ m.odd \in BOOLEAN
           /\ m.t = "RelayData" => m.data \in Payloads
           /\ m.t = "RelayHandshake" => m.half \in Nat
BY SMTT(40) DEF Messages, Close, Relays

(* A payload is added to what a session received. *)
LEMMA HeldStable ==
    ASSUME NEW e \in StableEntries, e.st = "relayed", NEW d \in Payloads, NEW n, NEW p,
           NEW A, NEW Q, StableFine(e, n, p, A, Q), Sealed(d, p, n, A, Q)
    PROVE  LET f == [e EXCEPT !.stream = Append(@, d)]
           IN  f \in StableEntries /\ StableFine(f, n, p, A, Q)
<1> DEFINE s == Append(e.stream, d)
           f == [e EXCEPT !.stream = Append(@, d)]
<1>1. e \in [st : {"relayed"}, via : Nodes, key : Seq(Nat), stream : Seq(Payloads),
             old : {"none", "direct", "relayed"}]
  BY DEF StableEntries, None, Direct
<1>2. e.stream \in Seq(Payloads) /\ s \in Seq(Payloads)
  BY <1>1
<1>3. Streamed(s, n, p, A, Q)
  <2>1. Streamed(e.stream, n, p, A, Q)
    BY Zenon DEF StableFine
  <2>2. \A k \in DOMAIN s : (k \in DOMAIN e.stream /\ s[k] = e.stream[k]) \/ s[k] = d
    BY <1>2
  <2> QED BY Zenon, <2>1, <2>2 DEF Streamed
<1>4. f.stream = s /\ f.key = e.key /\ f.via = e.via /\ f.st = e.st /\ f \in StableEntries
  BY Zenon, <1>1, <1>2 DEF StableEntries
<1> HIDE DEF f, s
<1>5. StableFine(f, n, p, A, Q)
  BY Zenon, <1>3, <1>4 DEF StableFine
<1> QED BY Zenon, <1>4, <1>5 DEF f

(* An entry of tmps after its stream got one more payload. *)
LEMMA HeldTmp ==
    ASSUME NEW e \in TmpEntries, e # None, e # Dead, NEW d \in Payloads, NEW n, NEW p,
           NEW A, NEW Q, TmpFine(e, n, p, A, Q), Sealed(d, p, n, A, Q)
    PROVE  LET f == [e EXCEPT !.stream = Append(@, d)]
           IN  f \in TmpEntries /\ TmpFine(f, n, p, A, Q)
<1> DEFINE s == Append(e.stream, d)
           f == [e EXCEPT !.stream = Append(@, d)]
<1>1. \/ e \in [st : {"asking"}, half : Nat, tid : Nat, cq : Seq(Nat), rq : Seq(Nat),
                stream : Seq(Payloads)]
      \/ e \in [st : {"waiting"}, via : Nodes, key : Seq(Nat), stream : Seq(Payloads)]
  BY Zenon DEF TmpEntries
<1>2. e.stream \in Seq(Payloads) /\ s \in Seq(Payloads) /\ e.st \in {"asking", "waiting"}
  BY <1>1
<1>3. Streamed(s, n, p, A, Q)
  <2>1. Streamed(e.stream, n, p, A, Q)
    BY Zenon, <1>2 DEF TmpFine
  <2>2. \A k \in DOMAIN s : (k \in DOMAIN e.stream /\ s[k] = e.stream[k]) \/ s[k] = d
    BY <1>2
  <2> QED BY Zenon, <2>1, <2>2 DEF Streamed
<1>4. CASE e.st = "asking"
  <2>1. /\ f.stream = s /\ f.st = e.st /\ f.cq = e.cq /\ f.rq = e.rq /\ f \in TmpEntries
    BY ZenonT(30), <1>1, <1>2, <1>4 DEF TmpEntries
  <2> HIDE DEF f, s
  <2>2. TmpFine(f, n, p, A, Q)
    BY Zenon, <1>3, <1>4, <2>1 DEF TmpFine
  <2> QED BY Zenon, <2>1, <2>2 DEF f
<1>5. CASE e.st = "waiting"
  <2>1. /\ f.stream = s /\ f.st = e.st /\ f.key = e.key /\ f.via = e.via /\ f \in TmpEntries
    BY Zenon, <1>1, <1>2, <1>5 DEF TmpEntries
  <2> HIDE DEF f, s
  <2>2. TmpFine(f, n, p, A, Q)
    BY Zenon, <1>3, <1>5, <2>1 DEF TmpFine
  <2> QED BY Zenon, <2>1, <2>2 DEF f
<1> QED BY ZenonT(40), <1>2, <1>4, <1>5

(* Passing on a relayed message preserves the invariant. *)
LEMMA HandleForwardInv ==
    ASSUME WellOrdered, Inv, NEW n \in Nodes, NEW w \in Nodes, HandleForward(n, w)
    PROVE  Inv'
<1> DEFINE m == Head(link[w][n])
           f == PassedOn(n, w, m)
<1>1. /\ link[w][n] # <<>> /\ m.t \in Relays
      /\ UNCHANGED <<open, up, dhts, stables, tmps, starting, orphans, connects, results, app,
                     casting, asked, breaks, keys>>
  BY ZenonT(40) DEF HandleForward, Received, direct, tasks, server, Relays
<1>2. PICK c \in next_closest(n, m.to, w) :
         link' = IF c = Nobody \/ (m.from = n /\ IsIt(n, m.to)) THEN Taken(n, w)
                 ELSE Put(Taken(n, w), n, c, <<f>>)
  BY Zenon DEF HandleForward
<1>3. m \in Messages /\ Fine(m, w, n, app, asked) /\ LinksOK(Taken(n, w), app, asked)
  BY Zenon, <1>1, TakenOK DEF Inv, Sound
<1>4. /\ m.from \in Nodes /\ m.to \in Nodes /\ m.path \in Seq(Nodes) /\ m.odd \in BOOLEAN
  BY Zenon, <1>1, <1>3, RelayIs
<1>5. /\ f \in Messages /\ f.t = m.t /\ f.from = m.from /\ f.to = m.to /\ f.path = Append(m.path, n)
      /\ f.odd = (m.odd \/ w \notin dhts[n] \/ stables[n][m.to] # None)
      /\ m.t = "RelayData" => f.data = m.data
  <2>1. Append(m.path, n) \in Seq(Nodes)
    BY <1>4
  <2>2. CASE m.t = "RelayData"
    <3>1. m \in [t : {"RelayData"}, from : Nodes, to : Nodes, data : Payloads,
                 path : Seq(Nodes), odd : BOOLEAN]
      BY SMTT(40), <1>3, <2>2 DEF Messages, Close
    <3> HIDE DEF m
    <3> QED BY ZenonT(40), <2>1, <2>2, <3>1 DEF PassedOn, Messages
  <2>3. CASE m.t = "RelayHandshake"
    <3>1. m \in [t : {"RelayHandshake"}, from : Nodes, half : Nat, to : Nodes,
                 path : Seq(Nodes), odd : BOOLEAN]
      BY SMTT(40), <1>3, <2>3 DEF Messages, Close
    <3> HIDE DEF m
    <3> QED BY ZenonT(40), <2>1, <2>3, <3>1 DEF PassedOn, Messages
  <2> QED BY ZenonT(40), <1>1, <2>2, <2>3 DEF Relays
<1> HIDE DEF f, m
<1>6. ASSUME c # Nobody, c \in open[n], ~(m.from = n /\ IsIt(n, m.to))
      PROVE  Fine(f, n, c, app, asked)
  <2>3. Aside(f, n, c)
    <3>1. ASSUME m.from = n PROVE c # m.to
      <4>1. m.to \notin dhts[n] /\ stables[n][m.to] = None
        BY Zenon, <1>6, <3>1 DEF IsIt
      <4>2. stables[n][m.to] # Direct
        BY <4>1 DEF None, Direct
      <4>3. c \in dht_get(n, m.to)
        BY ZenonT(40), <1>2, <1>6, <4>1, <4>2 DEF next_closest
      <4> QED BY ZenonT(40), <1>4, <1>6, <4>1, <4>3, LookupIs
    <3> QED BY Zenon, <1>5, <3>1 DEF Aside
  <2>1. CASE f.odd
    BY ZenonT(40), <1>1, <1>3, <1>5, <2>1, <2>3 DEF Fine, Straight, Relays
  <2>2. CASE ~f.odd
    <3>1. ~m.odd /\ w \in dhts[n] /\ stables[n][m.to] = None
      BY ZenonT(30), <1>4, <1>5, <2>2
    <3>2. m.path # <<>> /\ m.path[Len(m.path)] = w /\ Nearing(Append(m.path, n), m.to)
      BY Zenon, <1>1, <1>3, <3>1 DEF Fine, Straight
    <3>3. c \in Nodes /\ Dist[m.to][c] < Dist[m.to][w]
      BY ZenonT(40), <1>2, <1>4, <1>6, <3>1, Closer
    <3>4. Nearing(Append(f.path, c), f.to)
      BY ZenonT(40), <1>4, <1>5, <3>2, <3>3, NearingOn
    <3>5. f.path # <<>> /\ f.path[Len(f.path)] = n
      BY <1>4, <1>5
    <3> QED BY ZenonT(40), <1>1, <1>3, <1>5, <2>3, <3>4, <3>5 DEF Fine, Straight, Relays
  <2> QED BY Zenon, <2>1, <2>2
<1>7. LinksOK(link', app, asked)
  <2>1. CASE c = Nobody \/ (m.from = n /\ IsIt(n, m.to))
    BY Zenon, <1>2, <1>3, <2>1
  <2>2. CASE ~(c = Nobody \/ (m.from = n /\ IsIt(n, m.to)))
    <3>1. c \in open[n] => QueueOK(<<f>>, n, c, app, asked)
      BY ZenonT(40), <1>5, <1>6, <2>2, QueueOne
    <3> QED BY ZenonT(40), <1>2, <1>3, <2>2, <3>1, PutOK DEF Inv, Sound
  <2> QED BY Zenon, <2>1, <2>2
<1>8. Sound'
  BY Zenon, <1>1, <1>7 DEF Inv, Sound, Sets
<1>9. Kept
  BY Zenon, <1>1 DEF Kept
<1> QED BY ZenonT(40), <1>1, <1>8, <1>9, QuietInv DEF Inv, Rest

(* Taking a relayed message preserves the invariant. *)
LEMMA HandleRelayDataInv ==
    ASSUME Inv, NEW n \in Nodes, NEW w \in Nodes, HandleRelayData(n, w)
    PROVE  Inv'
<1> DEFINE m == Head(link[w][n])
           p == m.from
           held(e) == [e EXCEPT !.stream = Append(@, m.data)]
<1>1. /\ link[w][n] # <<>> /\ m.t = "RelayData" /\ m.to = n /\ link' = Taken(n, w)
      /\ UNCHANGED <<open, up, dhts, starting, orphans, connects, results,
                     casting, asked, breaks, keys>>
  BY ZenonT(30) DEF HandleRelayData, Received, direct, tasks, server
<1>2. m \in Messages /\ Fine(m, w, n, app, asked)
  BY Zenon, <1>1, TakenOK DEF Inv, Sound
<1>3. p \in Nodes /\ m.data \in Payloads /\ Sealed(m.data, p, n, app, asked)
  BY Zenon, <1>1, <1>2, RelayIs DEF Fine, Relays
<1> HIDE DEF m
<1>4. Asks
  BY Zenon, <1>1, SameAsks
<1>5. ASSUME Carried PROVE LinksOK(link', app', asked')
  BY Zenon, <1>1, <1>5, TakenOK DEF Carried
<1>6. Sets'
  BY Zenon, <1>1 DEF Inv, Sound, Sets
<1>7. /\ stables \in [Nodes -> [Nodes -> StableEntries]] /\ tmps \in [Nodes -> [Nodes -> TmpEntries]]
      /\ stables[n][p] \in StableEntries /\ StableFine(stables[n][p], n, p, app, asked)
      /\ tmps[n][p] \in TmpEntries /\ TmpFine(tmps[n][p], n, p, app, asked)
  BY Zenon, <1>3 DEF Inv, Sound, StablesOK, TmpsOK
<1>8. ASSUME Sound', Kept PROVE Inv'
  BY ZenonT(30), <1>1, <1>8, QuietInv DEF Inv, Rest
<1>9. CASE UNCHANGED <<stables, tmps, app>>
  <2>1. Carried
    BY Zenon, <1>4, <1>9, SilenceCarries
  <2>2. Kept
    BY Zenon, <1>1, <1>9 DEF Kept
  <2> QED BY ZenonT(40), <1>5, <1>6, <1>8, <1>9, <2>1, <2>2, SoundStep DEF Carried
<1>10. CASE /\ stables[n][p] # Direct /\ stables[n][p] # None
            /\ stables' = [stables EXCEPT ![n][p] = held(@)] /\ UNCHANGED <<tmps, app>>
  <2> DEFINE f == held(stables[n][p])
  <2>1. Carried
    BY ZenonT(40), <1>4, <1>10, SilenceCarries
  <2>2. stables[n][p].st = "relayed"
    BY Zenon, <1>7, <1>10 DEF StableEntries
  <2>3. f \in StableEntries /\ StableFine(f, n, p, app, asked) /\ f # Direct
    <3>1. f \in StableEntries /\ StableFine(f, n, p, app, asked)
      BY ZenonT(30), <1>3, <1>7, <2>2, HeldStable
    <3>2. f.st = "relayed" /\ Direct.st = "direct"
      BY Zenon, <1>7, <2>2 DEF Direct, StableEntries, None
    <3> HIDE DEF f
    <3> QED BY Zenon, <3>1, <3>2
  <2>4. stables' = [stables EXCEPT ![n][p] = f]
    BY Zenon, <1>3, <1>7, <1>10
  <2> HIDE DEF f, p
  <2>5. StablesOK(stables', app', asked')
    <3>1. StablesOK(stables, app, asked) /\ app' = app /\ asked' = asked /\ p \in Nodes
      BY ZenonT(40), <1>1, <1>3, <1>10 DEF Inv, Sound, p
    <3> QED BY ZenonT(40), <2>3, <2>4, <3>1, StablesSet
  <2>6. \A i, j \in Nodes : stables'[i][j] = IF i = n /\ j = p THEN f ELSE stables[i][j]
    BY ZenonT(40), <1>3, <1>7, <2>3, <2>4, TableSet
  <2>7. Kept
    <3>1. UNCHANGED <<dhts, tmps>>
      BY ZenonT(40), <1>1, <1>10
    <3> QED BY ZenonT(40), <2>3, <2>6, <3>1 DEF Kept
  <2> QED BY ZenonT(40), <1>5, <1>6, <1>8, <1>10, <2>1, <2>5, <2>7, SoundStep DEF Carried
<1>11. CASE /\ tmps[n][p] # None
            /\ tmps' = [tmps EXCEPT ![n][p] = IF @ = Dead THEN @ ELSE held(@)]
            /\ UNCHANGED <<stables, app>>
  <2> DEFINE f == IF tmps[n][p] = Dead THEN tmps[n][p] ELSE held(tmps[n][p])
  <2>1. Carried
    BY Zenon, <1>4, <1>11, SilenceCarries
  <2>2. f \in TmpEntries /\ TmpFine(f, n, p, app, asked)
    BY ZenonT(40), <1>3, <1>7, <1>11, HeldTmp
  <2>3. f.st = tmps[n][p].st
    <3>1. CASE tmps[n][p] = Dead
      BY Zenon, <3>1
    <3>2. CASE tmps[n][p] # Dead
      BY ZenonT(40), <1>7, <1>11, <3>2 DEF TmpEntries
    <3> QED BY Zenon, <3>1, <3>2
  <2>4. tmps' = [tmps EXCEPT ![n][p] = f]
    BY Zenon, <1>3, <1>7, <1>11
  <2> HIDE DEF f, p
  <2>5. TmpsOK(tmps', app', asked')
    <3>1. TmpsOK(tmps, app, asked) /\ app' = app /\ asked' = asked /\ p \in Nodes
      BY ZenonT(40), <1>1, <1>3, <1>11 DEF Inv, Sound, p
    <3> QED BY ZenonT(40), <2>2, <2>4, <3>1, TmpsSet
  <2>6. \A i, j \in Nodes : tmps'[i][j] = IF i = n /\ j = p THEN f ELSE tmps[i][j]
    BY ZenonT(40), <1>3, <1>7, <2>2, <2>4, TableSet
  <2>7. Kept
    <3>1. UNCHANGED <<dhts, stables>>
      BY Zenon, <1>1, <1>11
    <3> QED BY Zenon, <2>3, <2>6, <3>1 DEF Kept
  <2> QED BY ZenonT(40), <1>5, <1>6, <1>8, <1>11, <2>1, <2>5, <2>7, SoundStep DEF Carried
<1>12. CASE /\ Tell(n, IF RecvData(n, w) THEN <<Event("Data", p, Bytes(m.data))>> ELSE <<>>)
            /\ UNCHANGED <<stables, tmps>>
  <2> DEFINE e == Event("Data", p, Bytes(m.data))
             s == IF RecvData(n, w) THEN <<e>> ELSE <<>>
  <2>1. m.data.core \in Cores
    BY Zenon, <1>3 DEF Payloads
  <2>2. Bytes(m.data) \in Nat
    BY ZenonT(40), <2>1, CoreIs DEF Bytes, Unread
  <2>3. e \in ReceiveMessages /\ e.ev # "Delivery"
    BY Zenon, <1>3, <2>2 DEF Event, ReceiveMessages, Whats
  <2>4. s = <<>> \/ s = <<e>>
    BY Zenon
  <2> HIDE DEF e
  <2>5. s \in Seq(ReceiveMessages) /\ \A i \in DOMAIN s : s[i] = e
    BY ZenonT(40), <2>3, <2>4, OneEvent
  <2>6. Tell(n, s)
    BY Zenon, <1>12 DEF e
  <2> HIDE DEF s
  <2>7. Honest(s, n, app', asked')
    BY Zenon, <2>3, <2>5 DEF Honest
  <2>8. Carried
    BY ZenonT(40), <1>4, <2>5, <2>6, <2>7, TellCarries
  <2>9. Kept
    BY Zenon, <1>1, <1>12 DEF Kept
  <2> QED BY ZenonT(40), <1>5, <1>6, <1>8, <1>12, <2>8, <2>9, SoundStep DEF Carried
<1> QED BY ZenonT(40), <1>9, <1>10, <1>11, <1>12 DEF HandleRelayData, m
=============================================================================
