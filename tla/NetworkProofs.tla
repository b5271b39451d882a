--------------------------- MODULE NetworkProofs ---------------------------
(***************************************************************************)
(* Proofs about Network, for any set of nodes, any network to start with   *)
(* and any number of requests: no relayed message goes round (NoRing),     *)
(* none is relayed that needs no relay (NeverRelayToSelf), and "delivered" *)
(* is only reported of what was given (DeliveredGiven).  All follow from   *)
(* Inv (RequestProofs), shown here to be inductive.                        *)
(***************************************************************************)
EXTENDS RequestProofs

(* Handshakes over a relay *)

(* The cores made of what was queued are of their node. *)
LEMMA QueuedCores ==
    ASSUME NEW n \in Nodes, NEW p \in Nodes, NEW what \in Whats, NEW q \in Seq(Nat), NEW A, NEW Q,
           Queued(q, n, p, Q)
    PROVE  LET c == [i \in DOMAIN q |-> CoreData(what, q[i], TRUE)]
           IN  c \in Seq(Cores) /\ \A i \in DOMAIN c : Own(c[i], n, p, A, Q)
<1> DEFINE c == [i \in DOMAIN q |-> CoreData(what, q[i], TRUE)]
<1>1. \A i \in DOMAIN q :
        CoreData(what, q[i], TRUE) \in Cores /\ Own(CoreData(what, q[i], TRUE), n, p, A, Q)
  <2> TAKE i \in DOMAIN q
  <2>1. q[i] \in Nat /\ AskedBy(q[i], n, p, Q)
    BY DEF Queued
  <2> QED BY Zenon, <2>1, NewOwn
<1>2. DOMAIN q = 1 .. Len(q) /\ Len(q) \in Nat
  OBVIOUS
<1>3. c \in Seq(Cores)
  <2>1. c \in [1 .. Len(q) -> Cores]
    BY Zenon, <1>1, <1>2
  <2> HIDE DEF c
  <2> QED BY <1>2, <2>1
<1> QED BY Zenon, <1>1, <1>3

(* Cores of a node, one after the other. *)
LEMMA CoresConcat ==
    ASSUME NEW a \in Seq(Cores), NEW b \in Seq(Cores), NEW n, NEW p, NEW A, NEW Q,
           \A i \in DOMAIN a : Own(a[i], n, p, A, Q), \A i \in DOMAIN b : Own(b[i], n, p, A, Q)
    PROVE  a \o b \in Seq(Cores) /\ \A i \in DOMAIN (a \o b) : Own((a \o b)[i], n, p, A, Q)
<1>1. \A i \in DOMAIN (a \o b) :
        \/ i \in DOMAIN a /\ (a \o b)[i] = a[i]
        \/ i - Len(a) \in DOMAIN b /\ (a \o b)[i] = b[i - Len(a)]
  OBVIOUS
<1> QED BY <1>1

(* The answer to a relayed handshake: what was queued is sent. *)
LEMMA RelayDoneSound ==
    ASSUME Inv, NEW n \in Nodes, NEW p \in Nodes, NEW half \in Nat, NEW w \in Nodes,
           link[w][n] # <<>>, w \notin {n, p},
           tmps[n][p].st = "asking", RelayDone(n, p, half, w),
           UNCHANGED <<open, up, dhts, orphans, app, asked>>
    PROVE  Sound' /\ Kept
<1> DEFINE e == tmps[n][p]
           s == Relayed(w, <<e.half, half>>, e.stream, stables[n][p].st)
           a == [i \in DOMAIN e.cq |-> CoreData("StableConnect", e.cq[i], TRUE)]
           b == [i \in DOMAIN e.rq |-> CoreData("ResultConnect", e.rq[i], TRUE)]
<1>1. /\ stables' = [stables EXCEPT ![n][p] = s]
      /\ tmps' = [tmps EXCEPT ![n][p] = None]
      /\ link' = Put(Taken(n, w), n, w, Sent(n, p, s, a \o b))
  BY Zenon DEF RelayDone, Taken
<1>2. /\ stables \in [Nodes -> [Nodes -> StableEntries]] /\ tmps \in [Nodes -> [Nodes -> TmpEntries]]
      /\ stables[n][p] \in StableEntries
      /\ e \in TmpEntries /\ TmpFine(e, n, p, app, asked)
  BY Zenon DEF Inv, Sound, StablesOK, TmpsOK
<1>3. /\ e.half \in Nat /\ e.cq \in Seq(Nat) /\ e.rq \in Seq(Nat) /\ e.stream \in Seq(Payloads)
  BY <1>2 DEF TmpEntries, None, Dead
<1>4. Streamed(e.stream, n, p, app, asked) /\ Queued(e.cq, n, p, asked) /\ Queued(e.rq, n, p, asked)
  BY Zenon, <1>2 DEF TmpFine
<1>5. a \in Seq(Cores) /\ \A i \in DOMAIN a : Own(a[i], n, p, app, asked)
  BY Zenon, <1>3, <1>4, QueuedCores DEF Whats
<1>6. b \in Seq(Cores) /\ \A i \in DOMAIN b : Own(b[i], n, p, app, asked)
  BY Zenon, <1>3, <1>4, QueuedCores DEF Whats
<1>7. stables[n][p].st \in {"none", "direct", "relayed"}
  BY SMTT(30), <1>2 DEF StableEntries, None, Direct
<1>8. /\ s \in StableEntries /\ s.st = "relayed" /\ s.via = w /\ s.key = <<e.half, half>>
      /\ s.stream = e.stream /\ s.key \in Seq(Nat) /\ s.key # <<>> /\ s # Direct
  BY SMTT(30), <1>3, <1>7 DEF Relayed, StableEntries, Direct
<1> HIDE DEF s, a, b
<1>9. StableFine(s, n, p, app, asked) /\ Usable(s, p) /\ Carrier(p, s) = w
  BY Zenon, <1>4, <1>8 DEF StableFine, Usable, Carrier
<1>10. QueueOK(Sent(n, p, s, a \o b), n, w, app, asked)
  <2>1. a \o b \in Seq(Cores) /\ \A i \in DOMAIN (a \o b) : Own((a \o b)[i], n, p, app, asked)
    BY Zenon, <1>5, <1>6, CoresConcat
  <2> DEFINE cores == a \o b
  <2> HIDE DEF cores
  <2>2. QueueOK(Sent(n, p, s, cores), n, Carrier(p, s), app, asked)
    BY ZenonT(30), <1>9, <2>1, SentOK DEF cores
  <2> QED BY Zenon, <1>9, <2>2 DEF cores
<1>11. LinksOK(link', app, asked)
  BY ZenonT(40), <1>1, <1>10, TakenOK, PutOK DEF Inv, Sound
<1>12. StablesOK(stables', app, asked) /\ TmpsOK(tmps', app, asked)
  BY ZenonT(30), <1>1, <1>8, <1>9, StablesSet, TmpRemoved DEF Inv, Sound
<1>13. Sound'
  BY Zenon, <1>11, <1>12 DEF Inv, Sound, Sets
<1>14. Kept
  <2>1. \A i, j \in Nodes : stables'[i][j] = IF i = n /\ j = p THEN s ELSE stables[i][j]
    BY ZenonT(30), <1>1, <1>2, <1>8, TableSet
  <2>2. \A i, j \in Nodes : tmps'[i][j] \in {tmps[i][j], None}
    BY Zenon, <1>1, <1>2
  <2>3. None.st = "none"
    BY Zenon DEF None
  <2> QED BY ZenonT(40), <1>8, <2>1, <2>2, <2>3 DEF Kept
<1> QED BY Zenon, <1>13, <1>14

(* A relayed handshake preserves the invariant. *)
LEMMA HandleHandshakeInv ==
    ASSUME Inv, NEW n \in Nodes, NEW w \in Nodes, HandleHandshake(n, w)
    PROVE  Inv'
<1> DEFINE m == Head(link[w][n])
           p == m.from
<1>1. /\ link[w][n] # <<>> /\ w \in open[n] /\ m.t = "RelayHandshake" /\ m.to = n
      /\ UNCHANGED <<open, up, dhts, starting, orphans, connects, results, app,
                     casting, asked, breaks>>
  BY Zenon DEF HandleHandshake, Received, direct, tasks, server
<1>2. m \in Messages /\ Fine(m, w, n, app, asked) /\ LinksOK(Taken(n, w), app, asked)
  BY Zenon, <1>1, TakenOK DEF Inv, Sound
<1>3. p \in Nodes /\ m.half \in Nat
  BY Zenon, <1>1, <1>2, RelayIs DEF Relays
<1>9. w \notin {n, p}
  BY Zenon, <1>1, <1>2 DEF Fine, Aside, Relays, Inv, Sound, Sets
<1> HIDE DEF m
<1>4. keys \in Nat
  BY Zenon DEF Inv, Rest
<1>5. ASSUME Sound', Kept, keys' \in Nat PROVE Inv'
  BY ZenonT(30), <1>1, <1>5, QuietInv DEF Inv, Rest
<1>6. CASE tmps[n][p].st = "asking" /\ RelayDone(n, p, m.half, w)
  <2>1. Sound' /\ Kept
    BY Zenon, <1>1, <1>3, <1>6, <1>9, RelayDoneSound
  <2>2. keys' = keys
    BY Zenon, <1>6 DEF RelayDone
  <2> QED BY Zenon, <1>4, <1>5, <2>1, <2>2
<1>7. CASE /\ keys' = keys + 1
           /\ tmps' = [tmps EXCEPT ![n][p] = Waiting(w, <<m.half, keys + 1>>)]
           /\ link' = Put(Taken(n, w), n, w, <<RelayHandshake(n, keys + 1, p)>>)
           /\ UNCHANGED stables
  <2> DEFINE e == Waiting(w, <<m.half, keys + 1>>)
  <2>1. e \in TmpEntries /\ e.st = "waiting"
    <3>1. <<m.half, keys + 1>> \in Seq(Nat)
      BY SMTT(30), <1>3, <1>4
    <3> QED BY Zenon, <3>1, WaitingIn
  <2>2. TmpFine(e, n, p, app, asked)
    BY <1>9 DEF Waiting, TmpFine, Streamed
  <2> HIDE DEF e, p
  <2>3. TmpsOK(tmps', app, asked)
    BY ZenonT(30), <1>3, <1>7, <2>1, <2>2, TmpsSet DEF Inv, Sound, e, p
  <2>4. QueueOK(<<RelayHandshake(n, keys + 1, p)>>, n, w, app, asked)
    BY SMTT(30), <1>3, <1>4, <1>9, HandshakeFine DEF p
  <2>5. LinksOK(link', app, asked)
    BY ZenonT(40), <1>2, <1>7, <2>4, PutOK DEF Inv, Sound, p
  <2>6. Sound'
    BY ZenonT(40), <1>1, <1>7, <2>3, <2>5 DEF Inv, Sound, Sets
  <2>7. Kept
    <3>1. tmps \in [Nodes -> [Nodes -> TmpEntries]] /\ p \in Nodes /\ tmps' = [tmps EXCEPT ![n][p] = e]
      BY Zenon, <1>3, <1>7 DEF Inv, Sound, TmpsOK, e, p
    <3>2. \A i, j \in Nodes : tmps'[i][j] = IF i = n /\ j = p THEN e ELSE tmps[i][j]
      BY ZenonT(30), <2>1, <3>1, TableSet
    <3> QED BY SMTT(30), <1>1, <1>7, <2>1, <3>2 DEF Kept
  <2> QED BY SMTT(30), <1>4, <1>5, <1>7, <2>6, <2>7
<1>8. CASE link' = Taken(n, w) /\ UNCHANGED <<stables, tmps, keys>>
  <2>1. Sound'
    BY ZenonT(40), <1>1, <1>2, <1>8 DEF Inv, Sound, Sets
  <2>2. Kept
    BY Zenon, <1>1, <1>8 DEF Kept
  <2> QED BY Zenon, <1>4, <1>5, <1>8, <2>1, <2>2
<1> QED BY ZenonT(30), <1>6, <1>7, <1>8 DEF HandleHandshake, m
----------------------------------------------------------------------------
(* The steps that end sessions and attempts *)

(* The invariant after a session ended, from the parts that it changes. *)
LEMMA EndInv ==
    ASSUME Inv, Sound', Kept,
           UNCHANGED <<starting, connects, results, casting, asked, keys>>, breaks' \in 0 .. BREAKS
    PROVE  Inv'
BY Zenon, QuietInv DEF Inv, Rest

(* The end of a direct session preserves the invariant. *)
LEMMA CloseDirectInv ==
    ASSUME Inv, NEW n \in Nodes, NEW p \in Nodes, CloseDirect(n, p, link[n][p]),
           UNCHANGED <<starting, connects, results, casting, asked, keys>>, breaks' \in 0 .. BREAKS
    PROVE  Inv'
<1>1. Asks
  BY Zenon, SameAsks
<1>2. Sound' /\ Kept
  BY Zenon, <1>1, LinkGrown, CloseDirectSound
<1> QED BY Zenon, <1>2, EndInv

(* So does each of the reasons for it. *)
LEMMA DirectEndsInv ==
    ASSUME Inv, NEW n \in Nodes, NEW p \in Nodes,
           HandleClose(n, p) \/ DirectBreaks(n, p) \/ OtherEndGone(n, p)
    PROVE  Inv'
<1>1. /\ CloseDirect(n, p, link[n][p])
      /\ UNCHANGED <<starting, connects, results, casting, asked, keys>>
  BY Zenon DEF HandleClose, DirectBreaks, OtherEndGone, Received, server
<1>2. breaks' \in 0 .. BREAKS
  <2>1. breaks \in 0 .. BREAKS
    BY Zenon DEF Inv, Rest
  <2>2. breaks' = breaks \/ (breaks < BREAKS /\ breaks' = breaks + 1)
    BY Zenon DEF HandleClose, DirectBreaks, OtherEndGone, Received
  <2> QED BY SMTT(30), <2>1, <2>2, NetworkAssumption
<1> QED BY Zenon, <1>1, <1>2, CloseDirectInv

(* The end of a relayed session preserves the invariant. *)
LEMMA RelayedEndsInv ==
    ASSUME Inv, NEW n \in Nodes, NEW p \in Nodes, NEW s,
           CarrierLost(n, p, s) \/ RelayedBreaks(n, p, s)
    PROVE  Inv'
<1>1. /\ CloseRelayed(n, p, s)
      /\ UNCHANGED <<starting, connects, results, casting, asked, keys>>
  BY Zenon DEF CarrierLost, RelayedBreaks, server
<1>2. breaks' \in 0 .. BREAKS
  <2>1. breaks \in 0 .. BREAKS
    BY Zenon DEF Inv, Rest
  <2>2. breaks' = breaks \/ (breaks < BREAKS /\ breaks' = breaks + 1)
    BY Zenon DEF CarrierLost, RelayedBreaks
  <2> QED BY SMTT(30), <2>1, <2>2, NetworkAssumption
<1>3. Sound' /\ Kept
  BY ZenonT(40), <1>1, SameAsks, CloseRelayedSound
<1> QED BY Zenon, <1>1, <1>2, <1>3, EndInv

(* The timeout of relay_stable preserves the invariant. *)
LEMMA RelayTimeoutInv ==
    ASSUME Inv, NEW n \in Nodes, NEW to \in Nodes, RelayTimeout(n, to)
    PROVE  Inv'
<1>1. UNCHANGED <<starting, connects, results, casting, asked, breaks, keys>>
  BY Zenon DEF RelayTimeout, tasks, server
<1>2. Sound' /\ Kept
  BY Zenon, <1>1, SameAsks, GiveUpSound DEF RelayTimeout
<1> QED BY ZenonT(30), <1>1, <1>2, EndInv DEF Inv, Rest

(* So does that of a task that lost its entry. *)
LEMMA OrphanTimeoutInv ==
    ASSUME Inv, NEW o, OrphanTimeout(o)
    PROVE  Inv'
<1>1. /\ o \in orphans /\ Tell(o.at, <<Delivery("StableConnect", o.tid, FALSE)>>)
      /\ tmps' = [tmps EXCEPT ![o.at][o.to] = None]
      /\ orphans' = (orphans \ {o}) \cup Orphaned(o.at, o.to)
      /\ UNCHANGED <<open, up, dhts, stables, starting, connects, results, link, casting, asked,
                     breaks, keys>>
  BY Zenon DEF OrphanTimeout, direct, server
<1>2. o.at \in Nodes /\ o.to \in Nodes /\ o.tid \in Nat
  BY Zenon, <1>1 DEF Inv, Sound, Sets
<1>3. Carried
  BY ZenonT(30), <1>1, <1>2, SameAsks, FailureHonest, TellCarries DEF Kinds
<1>4. TmpsOK(tmps', app', asked')
  BY ZenonT(30), <1>1, <1>2, <1>3, TmpRemoved DEF Carried
<1>5. Sets'
  BY ZenonT(40), <1>1, <1>2, OrphanedType DEF Inv, Sound, Sets
<1>6. Sound'
  BY ZenonT(40), <1>1, <1>3, <1>4, <1>5, SoundStep DEF Carried
<1>7. Kept
  BY Zenon, <1>1, <1>2, RemovalKept
<1> QED BY ZenonT(30), <1>1, <1>6, <1>7, EndInv DEF Inv, Rest

(* Buffer::timer_clear preserves the invariant. *)
LEMMA ClearDeadInv ==
    ASSUME Inv, NEW n \in Nodes, NEW p \in Nodes, ClearDead(n, p)
    PROVE  Inv'
<1>1. /\ tmps' = [tmps EXCEPT ![n][p] = None]
      /\ UNCHANGED <<open, up, dhts, stables, starting, orphans, connects, results, link, app,
                     casting, asked, breaks, keys>>
  BY Zenon DEF ClearDead, direct, tasks, server
<1>2. TmpsOK(tmps', app', asked')
  BY ZenonT(30), <1>1, TmpRemoved DEF Inv, Sound
<1>3. Sound'
  BY Zenon, <1>1, <1>2 DEF Inv, Sound, Sets
<1>4. Kept
  BY Zenon, <1>1, RemovalKept
<1> QED BY ZenonT(30), <1>1, <1>3, <1>4, EndInv DEF Inv, Rest

(* The end of a session that was replaced preserves the invariant. *)
LEMMA ReplacedClosesInv ==
    ASSUME Inv, NEW n \in Nodes, NEW p \in Nodes, ReplacedCloses(n, p)
    PROVE  Inv'
<1>1. /\ stables' = [stables EXCEPT ![n][p] = None]
      /\ Tell(n, <<Leave(p), Leave(p), Leave(p)>>)
      /\ UNCHANGED <<dhts, starting, casting, asked, breaks, keys>>
  BY Zenon DEF ReplacedCloses, direct, server
<1>2. Carried
  BY Zenon, <1>1, SameAsks, TellCarries, LeaveHonest
<1>3. StablesOK(stables', app', asked')
  BY Zenon, <1>1, <1>2, StableRemoved DEF Carried
<1>4. CASE UNCHANGED <<direct, tmps, orphans, connects, results, link>>
  <2>1. Sound'
    BY ZenonT(40), <1>2, <1>3, <1>4, SoundStep DEF Carried, Inv, Sound, Sets, direct
  <2>2. Kept
    BY ZenonT(30), <1>1, <1>4, RemovalKept
  <2> QED BY ZenonT(30), <1>1, <1>4, <2>1, <2>2, EndInv DEF Inv, Rest
<1>5. CASE /\ open' = [open EXCEPT ![n] = @ \ {p}]
           /\ up' = [up EXCEPT ![n] = @ \ {p}]
           /\ tmps' = [tmps EXCEPT ![n][p] = None]
           /\ orphans' = orphans \cup Orphaned(n, p)
           /\ connects' = [connects EXCEPT ![n][p] = <<>>]
           /\ results' = [results EXCEPT ![n][p] = <<>>]
           /\ \E k \in 0 .. Len(link[n][p]) :
                link' = [link EXCEPT ![n][p] = Append(SubSeq(@, 1, k), Close), ![p][n] = <<>>]
  <2>1. LinksOK(link', app', asked')
    BY ZenonT(30), <1>2, <1>5, ClosedLink
  <2>2. TmpsOK(tmps', app', asked')
    BY ZenonT(30), <1>2, <1>5, TmpRemoved DEF Carried
  <2>3. Sets'
    BY ZenonT(40), <1>1, <1>5, OrphanedType DEF Inv, Sound, Sets
  <2>4. Sound'
    BY ZenonT(40), <1>2, <1>3, <2>1, <2>2, <2>3, SoundStep DEF Carried
  <2>5. Kept
    BY ZenonT(30), <1>1, <1>5, RemovalKept
  <2>6. Rest' /\ Queues'
    BY ZenonT(30), <1>1, <1>5, SameAsks, Dropped, RestStep DEF Inv, Rest
  <2> QED BY ZenonT(40), <1>1, <2>4, <2>5, <2>6, StepInv
<1> QED BY ZenonT(30), <1>4, <1>5 DEF ReplacedCloses
----------------------------------------------------------------------------
(* relay_stable, and what arrives at a session over a relay *)

(* The start of relay_stable preserves the invariant. *)
LEMMA RelayStableInv ==
    ASSUME Inv, NEW n \in Nodes, NEW task, RelayStable(n, task)
    PROVE  Inv'
<1> DEFINE to == task.to
           e == IF task.via \in open[n]
                THEN Asking(keys + 1, task.tid, connects[n][to], results[n][to])
                ELSE Dead
<1>1. /\ task \in starting /\ task.at = n
      /\ keys' = keys + 1
      /\ starting' = starting \ {task}
      /\ connects' = [connects EXCEPT ![n][to] = <<>>]
      /\ results' = [results EXCEPT ![n][to] = <<>>]
      /\ orphans' = orphans \cup Orphaned(n, to)
      /\ tmps' = [tmps EXCEPT ![n][to] = e]
      /\ link' = Put(link, n, task.via, <<RelayHandshake(n, keys + 1, to)>>)
  BY Zenon DEF RelayStable
<1>2. UNCHANGED <<open, up, dhts, stables, app, casting, asked, breaks>>
  BY Zenon DEF RelayStable, direct, server
<1>3. /\ to \in Nodes /\ task.via \in Nodes \ {to} /\ task.tid \in Nat /\ keys \in Nat
      /\ connects[n][to] \in Seq(Nat) /\ results[n][to] \in Seq(Nat)
  BY Zenon, <1>1 DEF Inv, Rest
<1>4. Queued(connects[n][to], n, to, asked) /\ Queued(results[n][to], n, to, asked)
  BY Zenon, <1>3 DEF Inv, Queues
<1>5. to \notin dhts[n] /\ stables[n][to] # Direct
  BY Zenon, <1>1, <1>3 DEF Inv, Unknown
<1>6. e \in TmpEntries /\ TmpFine(e, n, to, app, asked)
  <2>1. CASE task.via \in open[n]
    <3>1. keys + 1 \in Nat
      BY SMTT(30), <1>3
    <3>2. e = Asking(keys + 1, task.tid, connects[n][to], results[n][to])
      BY Zenon, <2>1
    <3> HIDE DEF e, to
    <3>3. /\ e \in TmpEntries /\ e.st = "asking" /\ e.stream = <<>>
          /\ e.cq = connects[n][to] /\ e.rq = results[n][to]
      BY SMTT(60), <1>3, <3>1, <3>2, AskingIn
    <3>4. Streamed(e.stream, n, to, app, asked)
      BY SMTT(30), <3>3 DEF Streamed
    <3> QED BY Zenon, <1>4, <3>3, <3>4 DEF TmpFine
  <2>2. CASE task.via \notin open[n]
    BY Zenon, <2>2 DEF Dead, TmpEntries, TmpFine
  <2> QED BY ZenonT(40), <2>1, <2>2
<1> HIDE DEF e, to
<1>7. TmpsOK(tmps', app', asked')
  BY ZenonT(30), <1>1, <1>2, <1>3, <1>6, TmpsSet DEF Inv, Sound
<1>8. LinksOK(link', app', asked')
  <2>1. QueueOK(<<RelayHandshake(n, keys + 1, to)>>, n, task.via, app, asked)
    BY SMTT(30), <1>3, HandshakeFine
  <2> QED BY ZenonT(40), <1>1, <1>2, <2>1, PutOK DEF Inv, Sound
<1>9. Sets'
  BY ZenonT(40), <1>1, <1>2, <1>3, OrphanedType DEF Inv, Sound, Sets
<1>10. Sound'
  BY ZenonT(40), <1>2, <1>7, <1>8, <1>9 DEF Inv, Sound
<1>11. Rest' /\ Queues'
  <2>1. starting' \subseteq starting /\ keys' \in Nat
    BY SMTT(30), <1>1, <1>3
  <2>2. casting' \in [Nodes -> SUBSET [req : Nat, to : Nodes]] /\ breaks' \in 0 .. BREAKS
    BY Zenon, <1>2 DEF Inv, Rest
  <2> QED BY ZenonT(30), <1>1, <1>2, <1>3, <2>1, <2>2, SameAsks, Dropped, RestStep
<1>12. Unknown'
  <2>1. \A i, j \in Nodes : tmps'[i][j] = IF i = n /\ j = to THEN e ELSE tmps[i][j]
    <3>1. tmps \in [Nodes -> [Nodes -> TmpEntries]] /\ tmps' = [tmps EXCEPT ![n][to] = e]
      BY Zenon, <1>1 DEF Inv, Sound, TmpsOK
    <3> QED BY ZenonT(30), <1>3, <1>6, <3>1, TableSet
  <2>2. starting' \subseteq starting
    BY Zenon, <1>1
  <2> QED BY ZenonT(40), <1>2, <1>5, <2>1, <2>2 DEF Inv, Unknown
<1> QED BY Zenon, <1>10, <1>11, <1>12 DEF Inv

(* The head and the rest of the stream of a relayed session. *)
LEMMA RestStreamed ==
    ASSUME NEW s \in Seq(Payloads), s # <<>>, NEW n, NEW p, NEW A, NEW Q, Streamed(s, n, p, A, Q)
    PROVE  /\ Tail(s) \in Seq(Payloads) /\ Streamed(Tail(s), n, p, A, Q)
           /\ Head(s) \in Payloads /\ Sealed(Head(s), p, n, A, Q)
<1>1. \A k \in DOMAIN Tail(s) : k + 1 \in DOMAIN s /\ Tail(s)[k] = s[k + 1]
  OBVIOUS
<1>2. 1 \in DOMAIN s /\ Head(s) = s[1]
  BY SMTT(30)
<1> QED BY SMTT(30), <1>1, <1>2 DEF Streamed

(* What the invariant says of a session over a relay. *)
LEMMA OverIs ==
    ASSUME Inv, NEW n \in Nodes, NEW p \in Nodes, NEW s, Over(n, p, s)
    PROVE  /\ Usable(s, p) /\ s # Direct /\ s.via \in Nodes /\ s.via \notin {n, p} /\ s.key # <<>>
           /\ s.stream \in Seq(Payloads) /\ Streamed(s.stream, n, p, app, asked)
           /\ \/ s.st = "relayed" /\ s = stables[n][p] /\ s \in StableEntries
              \/ s.st = "waiting" /\ s = tmps[n][p] /\ s \in TmpEntries
<1>1. /\ stables[n][p] \in StableEntries /\ StableFine(stables[n][p], n, p, app, asked)
      /\ tmps[n][p] \in TmpEntries /\ TmpFine(tmps[n][p], n, p, app, asked)
  BY Zenon DEF Inv, Sound, StablesOK, TmpsOK
<1>2. CASE s = stables[n][p] /\ s.st = "relayed"
  <2>1. s # Direct
    BY SMTT(30), <1>2 DEF Direct
  <2> QED BY Zenon, <1>1, <1>2, <2>1, RelayedIs DEF StableFine, Usable
<1>3. CASE s = tmps[n][p] /\ s.st = "waiting"
  <2>1. s # Direct
    BY SMTT(30), <1>3 DEF Direct
  <2> QED BY Zenon, <1>1, <1>3, <2>1, WaitingIs DEF TmpFine, Usable
<1> QED BY Zenon, <1>2, <1>3 DEF Over

(* The entry after the head of its stream was taken. *)
LEMMA RestFine ==
    ASSUME NEW n, NEW p, NEW A, NEW Q, NEW s, s.stream \in Seq(Payloads), s.stream # <<>>,
           Streamed(s.stream, n, p, A, Q), s.key # <<>>, s.via # n, s.via # p,
           NEW r, r = [s EXCEPT !.stream = Tail(@)]
    PROVE  /\ s.st = "relayed" /\ s \in StableEntries => r \in StableEntries /\ StableFine(r, n, p, A, Q)
           /\ s.st = "waiting" /\ s \in TmpEntries => r \in TmpEntries /\ TmpFine(r, n, p, A, Q)
<1>1. Tail(s.stream) \in Seq(Payloads) /\ Streamed(Tail(s.stream), n, p, A, Q)
  BY Zenon, RestStreamed
<1>2. ASSUME s.st = "relayed", s \in StableEntries
      PROVE  r \in StableEntries /\ StableFine(r, n, p, A, Q)
  BY ZenonT(30), <1>1, <1>2 DEF StableEntries, None, Direct, StableFine
<1>3. ASSUME s.st = "waiting", s \in TmpEntries
      PROVE  r \in TmpEntries /\ TmpFine(r, n, p, A, Q)
  BY ZenonT(30), <1>1, <1>3 DEF TmpEntries, None, Dead, TmpFine
<1> QED BY Zenon, <1>2, <1>3

(* A payload for a relayed session preserves the invariant. *)
LEMMA HandleStreamInv ==
    ASSUME Inv, NEW n \in Nodes, NEW p \in Nodes, NEW s, HandleStream(n, p, s)
    PROVE  Inv'
<1> DEFINE data == Head(s.stream)
           recv == s.st = "relayed"
           readable == data.key = s.key
           told == IF readable THEN Told(p, data.core, recv) ELSE <<>>
           reply == IF readable THEN Replied(data.core, recv) ELSE <<>>
           fails == reply # <<>> /\ s.via \notin open[n]
           last == IF fails /\ recv THEN <<Leave(p)>> ELSE <<>>
           events == told \o last
           rest == IF fails THEN None ELSE [s EXCEPT !.stream = Tail(@)]
<1>1. Over(n, p, s) /\ s.stream # <<>>
  BY Zenon DEF HandleStream
<1>2. UNCHANGED <<open, up, dhts, starting, orphans, connects, results, casting, asked, breaks, keys>>
  BY Zenon DEF HandleStream, direct, tasks, server
<1>3. /\ Usable(s, p) /\ s # Direct /\ s.via \in Nodes /\ s.via \notin {n, p} /\ s.key # <<>>
      /\ s.stream \in Seq(Payloads) /\ Streamed(s.stream, n, p, app, asked)
      /\ \/ recv /\ s = stables[n][p] /\ s \in StableEntries
         \/ s.st = "waiting" /\ s = tmps[n][p] /\ s \in TmpEntries
  BY Zenon, <1>1, OverIs
<1>4. data \in Payloads /\ Sealed(data, p, n, app, asked)
  BY Zenon, <1>1, <1>3, RestStreamed
<1>5. data.core \in Cores /\ (readable => Own(data.core, p, n, app, asked))
  BY Zenon, <1>3, <1>4 DEF Payloads, Sealed
<1>6. Asks /\ AppOK(app, asked) /\ asked \in Seq(Requests) /\ Longer(asked, asked)
  <2>1. asked \in Seq(Requests) /\ AppOK(app, asked)
    BY Zenon DEF Inv, Sound, Rest
  <2>2. Longer(asked, asked)
    BY SMTT(30), <2>1 DEF Longer
  <2> QED BY Zenon, <1>2, <2>1, <2>2, SameAsks
<1>7. last \in Seq(ReceiveMessages) /\ Honest(last, n, app', asked')
  <2>1. CASE last = <<>>
    BY SMTT(30), <2>1 DEF Honest
  <2>2. CASE last = <<Leave(p)>>
    BY ZenonT(30), <2>2, LeaveHonest
  <2> QED BY Zenon, <2>1, <2>2
<1>8. told \in Seq(ReceiveMessages)
  <2>1. Grows(app, app, asked, asked)
    BY ZenonT(40), <1>2, <1>6, AsksGrow
  <2>2. readable => Told(p, data.core, recv) \in Seq(ReceiveMessages)
    BY ZenonT(30), <1>5, <2>1, ToldHonest
  <2> QED BY SMTT(30), <2>2
<1>9. /\ app' = [app EXCEPT ![n] = @ \o events]
      /\ stables' = IF recv THEN [stables EXCEPT ![n][p] = rest] ELSE stables
      /\ tmps' = IF recv THEN tmps ELSE [tmps EXCEPT ![n][p] = rest]
      /\ link' = IF fails THEN link ELSE Put(link, n, s.via, Sent(n, p, s, reply))
  <2>1. CASE fails
    BY ZenonT(30), <2>1 DEF HandleStream, Tell
  <2>2. CASE ~fails
    <3>1. told \o <<>> = told
      BY SMTT(30), <1>8
    <3> QED BY ZenonT(30), <2>2, <3>1 DEF HandleStream, Tell
  <2> QED BY Zenon, <2>1, <2>2
<1> HIDE DEF data, fails
<1>10. events \in Seq(ReceiveMessages)
  BY SMTT(30), <1>7, <1>8
<1> HIDE DEF last, rest, readable, recv
<1>11. Grows(app, app', asked, asked)
  BY ZenonT(30), <1>6, <1>9, <1>10, TellGrows
<1>12. Honest(told, n, app', asked')
  <2>1. CASE readable
    BY ZenonT(40), <1>2, <1>5, <1>11, <2>1, ToldHonest
  <2>2. CASE ~readable
    BY SMTT(30), <2>2 DEF Honest
  <2> QED BY ZenonT(40), <2>1, <2>2
<1>13. Honest(events, n, app', asked')
  BY ZenonT(30), <1>7, <1>8, <1>12, HonestConcat
<1>14. Carried
  BY ZenonT(30), <1>6, <1>9, <1>10, <1>13, TellCarries DEF Tell
<1>15. reply \in Seq(Cores) /\ \A i \in DOMAIN reply : Own(reply[i], n, p, app', asked')
  <2>1. CASE readable
    <3>1. told = Told(p, data.core, recv) /\ reply = Replied(data.core, recv)
      BY Zenon, <2>1
    <3> HIDE DEF told, reply
    <3>2. \A i \in DOMAIN told : i \in DOMAIN events /\ events[i] = told[i]
      BY SMTT(30), <1>7, <1>8
    <3> HIDE DEF events
    <3>3. \A i \in DOMAIN Told(p, data.core, recv) :
            \E j \in DOMAIN events : events[j] = Told(p, data.core, recv)[i]
      BY ZenonT(40), <3>1, <3>2
    <3>4. app \in [Nodes -> Seq(ReceiveMessages)] /\ Own(data.core, p, n, app, asked)
      BY ZenonT(40), <1>5, <1>6, <2>1 DEF AppOK
    <3>5. /\ Replied(data.core, recv) \in Seq(Cores)
          /\ \A i \in DOMAIN Replied(data.core, recv) :
                Own(Replied(data.core, recv)[i], n, p, app', asked)
      <4>1. app' = [app EXCEPT ![n] = @ \o events] /\ data.core \in Cores
        BY ZenonT(40), <1>5, <1>9
      <4>2. ASSUME NEW B, B = [app EXCEPT ![n] = @ \o events]
            PROVE  /\ Replied(data.core, recv) \in Seq(Cores)
                   /\ \A i \in DOMAIN Replied(data.core, recv) :
                        Own(Replied(data.core, recv)[i], n, p, B, asked)
        <5> DEFINE c == data.core
                   q == recv
        <5>1. /\ c \in Cores /\ Own(c, p, n, app, asked)
              /\ \A i \in DOMAIN Told(p, c, q) : \E j \in DOMAIN events : events[j] = Told(p, c, q)[i]
          BY ZenonT(40), <3>3, <3>4, <4>1
        <5> HIDE DEF c, q
        <5>2. /\ Replied(c, q) \in Seq(Cores)
              /\ \A i \in DOMAIN Replied(c, q) : Own(Replied(c, q)[i], n, p, B, asked)
          BY <1>10, <3>4, <4>2, <5>1, RepliedOwn, ZenonT(30)
        <5> QED BY Zenon, <5>2 DEF c, q
      <4> QED BY <4>1, <4>2, ZenonT(30)
    <3> QED BY ZenonT(40), <1>2, <3>1, <3>5
  <2>2. CASE ~readable
    BY SMTT(60), <2>2
  <2> QED BY Zenon, <2>1, <2>2
<1> HIDE DEF told, reply, events
<1>16. LinksOK(link', app', asked')
  <2>1. QueueOK(Sent(n, p, s, reply), n, s.via, app', asked')
    BY ZenonT(30), <1>3, <1>15, SentOK DEF Carrier
  <2>2. LinksOK(Put(link, n, s.via, Sent(n, p, s, reply)), app', asked')
    BY ZenonT(30), <1>14, <2>1, PutOK DEF Carried, Inv, Sound
  <2> QED BY ZenonT(40), <1>9, <1>14, <2>2 DEF Carried
<1>17. /\ recv => rest \in StableEntries /\ StableFine(rest, n, p, app', asked')
       /\ ~recv => rest \in TmpEntries /\ TmpFine(rest, n, p, app', asked')
       /\ rest = None \/ rest.st = s.st
  <2>1. CASE fails
    BY Zenon, <2>1, NoneFine DEF rest
  <2>2. CASE ~fails
    <3>1. rest = [s EXCEPT !.stream = Tail(@)]
      BY Zenon, <2>2 DEF rest
    <3>2. Streamed(s.stream, n, p, app', asked')
      BY SMTT(60), <1>2, <1>3, <1>11, OwnGrows DEF Streamed, Sealed
    <3>3. rest.st = s.st
      BY Zenon, <1>3, <3>1 DEF StableEntries, TmpEntries, None, Dead, Direct, recv
    <3>4. /\ recv /\ s \in StableEntries => rest \in StableEntries /\ StableFine(rest, n, p, app', asked')
          /\ s.st = "waiting" /\ s \in TmpEntries => rest \in TmpEntries /\ TmpFine(rest, n, p, app', asked')
      <4> HIDE DEF rest
      <4>1. s.key # <<>> /\ s.via # n /\ s.via # p /\ s.stream \in Seq(Payloads) /\ s.stream # <<>>
        BY Zenon, <1>1, <1>3
      <4> QED BY ZenonT(30), <3>1, <3>2, <4>1, RestFine DEF recv
    <3>5. recv => s \in StableEntries
      BY Zenon, <1>3 DEF recv
    <3>6. ~recv => s.st = "waiting" /\ s \in TmpEntries
      BY Zenon, <1>3
    <3> HIDE DEF rest, recv
    <3> QED BY Zenon, <3>3, <3>4, <3>5, <3>6
  <2> QED BY Zenon, <2>1, <2>2
<1>18. StablesOK(stables', app', asked') /\ TmpsOK(tmps', app', asked')
  <2>1. CASE recv
    BY Zenon, <1>9, <1>14, <1>17, <2>1, StablesSet DEF Carried
  <2>2. CASE ~recv
    BY Zenon, <1>9, <1>14, <1>17, <2>2, TmpsSet DEF Carried
  <2> QED BY Zenon, <2>1, <2>2
<1>19. Sound'
  <2>1. Sets'
    BY Zenon, <1>2 DEF Inv, Sound, Sets
  <2> QED BY ZenonT(40), <1>14, <1>16, <1>18, <2>1, SoundStep DEF Carried
<1>20. Kept
  <2>1. stables \in [Nodes -> [Nodes -> StableEntries]] /\ tmps \in [Nodes -> [Nodes -> TmpEntries]]
    BY Zenon DEF Inv, Sound, StablesOK, TmpsOK
  <2>2. None # Direct /\ None.st = "none" /\ Direct.st = "direct"
    BY Zenon DEF None, Direct
  <2>3. CASE recv
    <3>1. \A i, j \in Nodes : stables'[i][j] = IF i = n /\ j = p THEN rest ELSE stables[i][j]
      BY ZenonT(30), <1>9, <1>17, <2>1, <2>3, TableSet
    <3>2. rest # Direct
      BY ZenonT(40), <1>17, <2>2, <2>3 DEF recv
    <3> QED BY SMTT(30), <1>2, <1>9, <2>3, <3>1, <3>2 DEF Kept
  <2>4. CASE ~recv
    <3>1. \A i, j \in Nodes : tmps'[i][j] = IF i = n /\ j = p THEN rest ELSE tmps[i][j]
      BY ZenonT(30), <1>9, <1>17, <2>1, <2>4, TableSet
    <3>2. rest.st \notin {"asking", "dead"}
      BY ZenonT(40), <1>3, <1>17, <2>2, <2>4 DEF recv
    <3> QED BY SMTT(60), <1>2, <1>9, <2>4, <3>1, <3>2 DEF Kept
  <2> QED BY Zenon, <2>3, <2>4
<1> QED BY ZenonT(30), <1>2, <1>19, <1>20, EndInv DEF Inv, Rest
----------------------------------------------------------------------------
(* The whole *)

(* The invariant holds initially. *)
LEMMA InitInv ==
    ASSUME Init
    PROVE  Inv
<1>1. open \in [Nodes -> SUBSET Nodes] /\ \A n \in Nodes : n \notin open[n]
  <2>1. PICK T \in Topologies : open = [n \in Nodes |-> {m \in Nodes : {n, m} \in T}]
    BY Zenon DEF Init
  <2>2. ASSUME NEW n \in Nodes PROVE {n, n} \notin T
    <3>1. {n, n} = {n}
      OBVIOUS
    <3>2. \A a, b \in Nodes : a # b => {n} # {a, b}
      OBVIOUS
    <3>3. \A e \in T : \E a, b \in Nodes : a # b /\ e = {a, b}
      BY Zenon, <2>1, NetworkAssumption
    <3> QED BY Zenon, <3>1, <3>2, <3>3
  <2> QED BY Zenon, <2>1, <2>2
<1>2. Sets
  BY Zenon, <1>1 DEF Init, Sets
<1> DEFINE none == [n \in Nodes |-> [m \in Nodes |-> None]]
           empty == [n \in Nodes |-> [m \in Nodes |-> <<>>]]
<1>3. StablesOK(none, app, asked) /\ TmpsOK(none, app, asked)
  BY Zenon, NoneFine DEF StablesOK, TmpsOK
<1>4. LinksOK(empty, app, asked)
  <2>1. \A n, p \in Nodes : QueueOK(empty[n][p], n, p, app, asked)
    BY Zenon, QueueEmpty
  <2> QED BY Zenon, <2>1 DEF LinksOK, QueueOK
<1>5. AppOK(app, asked)
  <2>1. \A n \in Nodes : app[n] = <<>>
    BY Zenon DEF Init
  <2>2. \A n \in Nodes : Honest(<<>>, n, app, asked)
    BY DEF Honest
  <2>3. app \in [Nodes -> Seq(ReceiveMessages)]
    BY SMTT(30) DEF Init
  <2> QED BY ZenonT(40), <2>1, <2>2, <2>3 DEF AppOK
<1>6. Sound
  BY ZenonT(40), <1>2, <1>3, <1>4, <1>5 DEF Init, Sound
<1>7. Rest
  BY SMTT(30), NetworkAssumption DEF Init, Rest
<1>8. Queues
  BY SMTT(30) DEF Init, Queues, Queued
<1>9. Unknown
  BY Zenon DEF Init, Unknown, None
<1> QED BY ZenonT(40), <1>6, <1>7, <1>8, <1>9 DEF Inv

(* Requests of applications preserve the invariant. *)
LEMMA AppInv ==
    ASSUME WellOrdered, Inv, App
    PROVE  Inv'
<1>1. PICK n \in Nodes, p \in Nodes :
        \/ SendData(n, p)
        \/ SendStableConnect(n, p)
        \/ \E ok, force \in BOOLEAN : SendStableResult(n, p, ok, force)
        \/ SendStableDisconnect(n, p)
        \/ \E gossip \in BOOLEAN : SendBroadcast(n, gossip)
  BY Zenon DEF App
<1> QED BY ZenonT(40), <1>1, SendDataInv, SendStableConnectInv, SendStableResultInv, SendStableDisconnectInv,
           SendBroadcastInv

(* Messages preserve the invariant. *)
LEMMA ReceiveInv ==
    ASSUME WellOrdered, Inv, NEW n \in Nodes, NEW w \in Nodes, Receive(n, w)
    PROVE  Inv'
BY ZenonT(40), HandleDataInv, HandleRelayDataInv, HandleForwardInv, HandleHandshakeInv, DirectEndsInv DEF Receive

(* The steps of a node by itself preserve the invariant. *)
LEMMA WorkInv ==
    ASSUME Inv, NEW n \in Nodes, NEW p \in Nodes, Work(n, p)
    PROVE  Inv'
BY ZenonT(30), CastInv, RelayStableInv, RelayTimeoutInv, OrphanTimeoutInv, HandleStreamInv, RelayedEndsInv,
   ReplacedClosesInv, ClearDeadInv, DirectEndsInv DEF Work

(* Sessions that break preserve the invariant. *)
LEMMA BreakInv ==
    ASSUME Inv, Break
    PROVE  Inv'
BY Zenon, RelayedEndsInv, DirectEndsInv DEF Break

(* The invariant is inductive. *)
LEMMA NextInv ==
    ASSUME WellOrdered, Inv, [Next]_vars
    PROVE  Inv'
<1>1. CASE Next
  BY ZenonT(40), <1>1, AppInv, BreakInv, ReceiveInv, WorkInv DEF Next
<1>2. CASE UNCHANGED vars
  <2>1. UNCHANGED <<open, up, dhts, stables, tmps, starting, orphans, connects, results, link,
                    casting, asked, app, breaks, keys>>
    BY Zenon, <1>2 DEF vars, direct, tasks, server
  <2> QED BY ZenonT(30), <2>1 DEF Inv, Sound, Sets, Rest, Queues, Unknown
<1> QED BY Zenon, <1>1, <1>2

(* A straight path crosses no connection twice. *)
LEMMA InvNoRing ==
    ASSUME Inv
    PROVE  NoRing
<1> DEFINE P(h) == \A i, j \in 1 .. Len(h) - 1 : h[i] = h[j] /\ h[i + 1] = h[j + 1] => i = j
<1>1. ASSUME NEW n \in Nodes, NEW p \in Nodes, NEW k \in DOMAIN link[n][p],
             NEW m, m = link[n][p][k], m.t \in Relays, ~m.odd, NEW h, h = Append(m.path, p)
      PROVE  P(h)
  <2>1. m \in Messages /\ Fine(m, n, p, app, asked)
    <3>1. QueueOK(link[n][p], n, p, app, asked)
      BY Zenon, <1>1, LinksAre DEF Inv, Sound
    <3> QED BY SMTT(30), <1>1, <3>1 DEF QueueOK
  <2>2. m.path \in Seq(Nodes) /\ m.to \in Nodes
    BY ZenonT(40), <1>1, <2>1, RelayIs
  <2>3. Nearing(h, m.to) /\ h \in Seq(Nodes)
    <3>1. Nearing(h, m.to)
      BY Zenon, <1>1, <2>1 DEF Fine, Straight
    <3>2. h \in Seq(Nodes)
      BY SMTT(30), <1>1, <2>2
    <3> QED BY <3>1, <3>2
  <2> QED BY ZenonT(30), <2>2, <2>3, NoEdgeTwice
<1> HIDE DEF P
<1>2. \A n, p \in Nodes : \A k \in DOMAIN link[n][p] :
        link[n][p][k].t \in {"RelayData", "RelayHandshake"} /\ ~link[n][p][k].odd =>
            P(Append(link[n][p][k].path, p))
  BY <1>1, ZenonT(30) DEF Relays
<1> QED BY <1>2, Zenon DEF NoRing, P

----------------------------------------------------------------------------
(* Results *)

LOCAL INSTANCE WellFoundedInduction

(* A set of numbers has a least one. *)
LEMMA NumbersWellOrdered == WellOrdered
<1> SUFFICES ASSUME NEW T, T \subseteq Nat, T # {}
             PROVE  \E x \in T : \A y \in T : x <= y
  BY Zenon DEF WellOrdered
<1> DEFINE R == OpToRel(<, Nat)
<1>1. IsWellFoundedOn(R, Nat)
  BY ZenonT(40), NatLessThanWellFounded
<1>2. \A x, y \in Nat : <<y, x>> \in R <=> y < x
  BY Zenon DEF OpToRel
<1> HIDE DEF R
<1>3. PICK x \in T : \A y \in T : ~ (<<y, x>> \in R)
  BY ZenonT(40), <1>1, WFMin
<1>4. \A y \in T : ~ (y < x)
  BY ZenonT(40), <1>2, <1>3
<1>5. \A y \in T : x <= y
  BY <1>4
<1> QED BY Zenon, <1>5

(* Inv holds in every reachable state. *)
THEOREM Invariance == Spec => []Inv
<1>1. Init => Inv
  BY Zenon, InitInv
<1>2. Inv /\ [Next]_vars => Inv'
  BY Zenon, NextInv, NumbersWellOrdered
<1> QED BY <1>1, <1>2, PTL DEF Spec

(* The state of a network of any size is well typed: in particular no entry
   of a session that is still waiting or being asked for is ever listed as a
   stable one (Session::upgrade, session.rs 554-559). *)
THEOREM Typed == Spec => []TypeOK
<1>1. Inv => TypeOK
  BY ZenonT(30) DEF Inv, Sound, Sets, Rest, StablesOK, TmpsOK, LinksOK, AppOK, TypeOK, Requests
<1> QED BY <1>1, Invariance, PTL

(* In a network of any size no message goes round: one that every node passed
   on by PeerList::next_closest (peer_list.rs 126-131) crosses no connection
   twice in the same direction. *)
THEOREM NeverRound == Spec => []NoRing
<1>1. Inv => NoRing
  BY Zenon, InvNoRing
<1> QED BY <1>1, Invariance, PTL

(* In a network of any size no session over a relay is carried by one with its
   own peer, and no node sends a relayed message straight to the one it is for:
   what is on its way when connections break, and what was queued before, does
   not lead to the branch "RELAY TO SELF" (session.rs 654-658) either. *)
THEOREM NeverToSelf == Spec => []NeverRelayToSelf
<1>1. ASSUME Inv PROVE NeverRelayToSelf
  <2>1. ASSUME NEW n \in Nodes, NEW p \in Nodes, NEW s, Over(n, p, s)
        PROVE  s.via \notin {p, n}
    <3>1. s.via \notin {n, p}
      BY Zenon, <1>1, <2>1, OverIs
    <3> QED BY Zenon, <3>1
  <2>2. \A n, p \in Nodes : \A i \in DOMAIN link[n][p] : Aside(link[n][p][i], n, p)
    BY Zenon, <1>1 DEF Inv, Sound, LinksOK, Fine
  <2> QED BY ZenonT(40), <2>1, <2>2 DEF NeverRelayToSelf, Aside, Relays
<1> QED BY <1>1, Invariance, PTL

(* In a network of any size "delivered" is only reported to the application
   that made the request, of a request that the one it was for was given
   (Session::handle_core_data, session.rs 463-552). *)
THEOREM TrulyDelivered == Spec => []DeliveredGiven
<1>1. ASSUME Inv PROVE DeliveredGiven
  <2>1. \A n, r : Has(app, n, r) => Given(n, r) # {}
    BY Zenon DEF Has, Given
  <2>2. \A n \in Nodes : Honest(app[n], n, app, asked)
    BY Zenon, <1>1 DEF Inv, Sound, AppOK
  <2> QED BY ZenonT(40), <2>1, <2>2 DEF DeliveredGiven, Honest, AskedFrom
<1> QED BY <1>1, Invariance, PTL
=============================================================================
