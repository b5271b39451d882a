---------------------------- MODULE GuardProofs ----------------------------
(***************************************************************************)
(* Proofs of the invariants of PeerSessions that relate tables to the      *)
(* program of a session, on top of the invariant of PeerSessionsProofs:    *)
(* every stable peer has a session that will remove it, the only session   *)
(* of a stable peer is the one listed, no session that is over stays in    *)
(* the DHT unless a stable session closed on its peer, and a relayed       *)
(* session sends through a direct one.                                     *)
(***************************************************************************)
EXTENDS PeerSessionsProofs

Guard == {"run", "rh_add", "cf_stable1", "cf_stable2", "ct"}

Upgrading == {"up_tmp", "up_list"}

(* A session on its way to stables already calls itself stable. *)
UpgradesStable == \A s \in Session : ses[s].pc \in Upgrading => ses[s].stable

Guarded == StablesGuarded /\ UpgradesStable

(* No stable peer loses the session responsible for it, unless it is no longer
   listed; a peer listed anew has one. *)
LEMMA GuardKept ==
    ASSUME StablesGuarded, Kept,
           \A t \in Session : Responsible(t) =>
               Responsible(t)' \/ ses[t].peer \notin DOMAIN stables',
           \A p \in DOMAIN stables' : \/ p \in DOMAIN stables
                                      \/ \E t \in Session : ses'[t].peer = p /\ Responsible(t)'
    PROVE  StablesGuarded'
  <1>1. \A t \in Session : Responsible(t) => ses'[t].peer = ses[t].peer
    BY DEF Responsible, Kept, Follows, Early
  <1>. QED  BY <1>1 DEF StablesGuarded

(* A step that changes one session, which stays responsible if it was, and
   lists no peer. *)
LEMMA GuardBecomes ==
    ASSUME SessionsOK, Guarded, Kept, NEW s \in Session, NEW r, Becomes(s, r),
           Responsible(s) => \/ r.stable /\ r.pc \in Guard
                             \/ ses[s].peer \notin DOMAIN stables',
           r.pc \in Upgrading => r.stable,
           DOMAIN stables' \subseteq DOMAIN stables
    PROVE  Guarded'
  <1>1. ses'[s] = r /\ \A t \in Session \ {s} : ses'[t] = ses[t]
    BY DEF SessionsOK, Becomes
  <1>2. UpgradesStable'
    BY <1>1 DEF Guarded, UpgradesStable
  <1>3. \A t \in Session : Responsible(t) =>
            Responsible(t)' \/ ses[t].peer \notin DOMAIN stables'
    BY <1>1 DEF Responsible, Guard
  <1>. QED  BY <1>2, <1>3, GuardKept DEF Guarded

(* The same for a step to another place in the program. *)
LEMMA GuardGoto ==
    ASSUME SessionsOK, Guarded, Kept, NEW s \in Session, NEW c, Goto(s, c),
           ses[s].pc \in Guard /\ ses[s].stable =>
               c \in Guard \/ ses[s].peer \notin DOMAIN stables',
           c \in Upgrading => ses[s].stable,
           DOMAIN stables' \subseteq DOMAIN stables
    PROVE  Guarded'
  <1>. DEFINE r == [ses[s] EXCEPT !.pc = c]
  <1>1. r.pc = c /\ r.stable = ses[s].stable
    BY DEF SessionsOK, SessionState
  <1>2. Becomes(s, r)
    BY DEF Goto
  <1>. HIDE DEF r
  <1>. QED  BY Zenon, <1>1, <1>2, GuardBecomes DEF Responsible, Guard

(* Nothing happens to sessions or stables. *)
LEMMA GuardStill ==
    ASSUME Guarded, UNCHANGED <<ses, stables>>
    PROVE  Guarded'
  BY DEF Guarded, StablesGuarded, UpgradesStable, Responsible

(* Steps of sessions that are not responsible for a stable peer, and do not
   touch stables. *)
LEMMA GuardOutside ==
    ASSUME SessionsOK, Guarded, Kept, NEW s \in Session,
           \/ \E p \in Peer : IncomingDht(p, s) \/ DialAnswered(s, p)
           \/ DialRefused(s) \/ DialSilent(s) \/ DialFails(s) \/ StartStable(s) \/ FallBack(s)
           \/ AddDht(s) \/ DirectAddTmp(s) \/ RelayAddTmp(s) \/ RelayConnect(s)
           \/ RelayAnswer(s) \/ RelayTimeout(s) \/ RelayFails(s) \/ UpgradeTake(s)
           \/ UpgradeFails(s) \/ CloseTmpBuffer(s) \/ CloseTmpList(s) \/ CloseRelay(s)
           \/ LeaveDht(s)
    PROVE  Guarded'
  <1>0. ses[s] \in SessionState
    BY DEF SessionsOK
  <1>. DEFINE Fine(r) == Becomes(s, r) /\ (r.pc \in Upgrading => r.stable)
  <1>1. ASSUME NEW r, Fine(r), ses[s].pc \notin Guard, UNCHANGED stables
        PROVE  Guarded'
    BY <1>1, GuardBecomes DEF Responsible, Guard
  <1>2. ASSUME NEW c \in PC \ Upgrading, Goto(s, c), ses[s].pc \notin Guard, UNCHANGED stables
        PROVE  Guarded'
    BY <1>2, GuardGoto
  <1>3. ASSUME Ends(s), ses[s].pc \notin Guard, UNCHANGED stables
        PROVE  Guarded'
    <2>1. Over(s).pc = "dead"
      BY DEF Over, Unborn
    <2>. QED  BY <1>1, <1>3, <2>1 DEF Ends, Upgrading
  <1>4. CASE DialRefused(s) \/ DialSilent(s) \/ DialFails(s) \/ RelayAddTmp(s) \/ RelayConnect(s)
             \/ RelayTimeout(s) \/ RelayFails(s) \/ UpgradeFails(s) \/ CloseTmpBuffer(s)
             \/ CloseTmpList(s) \/ CloseRelay(s) \/ LeaveDht(s)
    <2>1. UNCHANGED stables /\ ses[s].pc \notin Guard
      BY <1>4, ZenonT(30) DEF DialRefused, DialSilent, DialFails, RelayAddTmp, RelayConnect, RelayTimeout,
         RelayFails, UpgradeFails, CloseTmpBuffer, CloseTmpList, CloseRelay, LeaveDht, Guard, tables
    <2>2. Ends(s) \/ \E c \in PC \ Upgrading : Goto(s, c)
      BY <1>4, Zenon DEF DialRefused, DialSilent, DialFails, RelayAddTmp, RelayConnect, RelayTimeout,
         RelayFails, UpgradeFails, CloseTmpBuffer, CloseTmpList, CloseRelay, LeaveDht, Exit, PC,
         Upgrading
    <2>. QED  BY <1>2, <1>3, <2>1, <2>2
  <1>5. ASSUME NEW p \in Peer, IncomingDht(p, s) \/ DialAnswered(s, p)
        PROVE  Guarded'
    <2>1. PICK c \in {"in_add", "ds_add"} : Becomes(s, [ses[s] EXCEPT !.pc = c, !.peer = p])
      BY <1>5, Zenon DEF IncomingDht, DialAnswered
    <2>2. UNCHANGED stables /\ ses[s].pc \notin Guard
      BY <1>5, Zenon DEF IncomingDht, DialAnswered, Guard, tables
    <2>3. [ses[s] EXCEPT !.pc = c, !.peer = p].pc \notin Upgrading
      BY <1>0 DEF SessionState, Upgrading
    <2>. QED  BY <1>1, <2>1, <2>2, <2>3, ZenonT(30)
  <1>6. CASE StartStable(s)
    <2>1. UNCHANGED stables /\ ses[s].pc \notin Guard
      BY <1>6 DEF StartStable, Guard
    <2>2. /\ [ses[s] EXCEPT !.pc = "ds_wait", !.peer = outside.p].pc \notin Upgrading
          /\ [ses[s] EXCEPT !.pc = "rs_add", !.peer = outside.p, !.via = outside.via].pc
                \notin Upgrading
      BY <1>0 DEF SessionState, Upgrading
    <2>. QED  BY <1>1, <1>6, <2>1, <2>2, ZenonT(30) DEF StartStable
  <1>7. CASE FallBack(s)
    <2>1. UNCHANGED stables /\ ses[s].pc \notin Guard
      BY <1>7, ZenonT(30) DEF FallBack, Guard
    <2>2. Ends(s) \/ \E g : Becomes(s, [ses[s] EXCEPT !.pc = "rs_add", !.via = g.s])
      BY <1>7, Zenon DEF FallBack
    <2>3. \A g : [ses[s] EXCEPT !.pc = "rs_add", !.via = g.s].pc \notin Upgrading
      BY <1>0 DEF SessionState, Upgrading
    <2>. QED  BY <1>1, <1>3, <2>1, <2>2, <2>3, Zenon
  <1>8. CASE AddDht(s)
    <2>1. UNCHANGED stables /\ ses[s].pc \notin Guard
      BY <1>8 DEF AddDht, Guard
    <2>2. /\ [ses[s] EXCEPT !.pc = "run", !.direct = TRUE, !.listening = TRUE].pc \notin Upgrading
          /\ Unborn.pc \notin Upgrading
      BY <1>0 DEF SessionState, Upgrading, Unborn
    <2>. QED  BY ZenonT(40), <1>1, <1>8, <2>1, <2>2 DEF AddDht
  <1>9. CASE DirectAddTmp(s)
    <2>1. UNCHANGED stables /\ ses[s].pc \notin Guard
      BY <1>9 DEF DirectAddTmp, Guard
    <2>2. /\ [ses[s] EXCEPT !.pc = "up_tmp", !.direct = TRUE, !.stable = TRUE].stable
          /\ [Over(s) EXCEPT !.direct = TRUE].pc \notin Upgrading
      BY <1>0 DEF SessionState, Upgrading, Over, Unborn
    <2>. QED  BY <1>1, <1>9, <2>1, <2>2, ZenonT(40) DEF DirectAddTmp
  <1>10. CASE RelayAnswer(s)
    <2>1. UNCHANGED stables /\ ses[s].pc \notin Guard
      BY <1>10 DEF RelayAnswer, Guard, tables
    <2>. DEFINE r == [ses[s] EXCEPT !.pc = "up_tmp", !.via = Head(inbox[s]).via, !.stable = TRUE]
    <2>2. Becomes(s, r) \/ Ends(s) \/ Goto(s, "rs_fail")
      BY <1>10 DEF RelayAnswer
    <2>3. r.stable = TRUE
      BY <1>0 DEF SessionState
    <2>. HIDE DEF r
    <2>. QED  BY ZenonT(40), <1>1, <1>2, <1>3, <2>1, <2>2, <2>3 DEF PC, Upgrading
  <1>11. CASE UpgradeTake(s)
    <2>1. UNCHANGED stables /\ ses[s].pc = "up_tmp" /\ Goto(s, "up_list")
      BY <1>11 DEF UpgradeTake
    <2>2. ses[s].stable
      BY <2>1 DEF Guarded, UpgradesStable, Upgrading
    <2>. QED  BY Zenon, <2>1, <2>2, GuardGoto DEF Guard
  <1>. QED  BY ZenonT(40), <1>4, <1>5, <1>6, <1>7, <1>8, <1>9, <1>10, <1>11

(* Steps of the loop of a session and of close(): a stable session leaves them
   only through close(true). *)
LEMMA GuardInside ==
    ASSUME SessionsOK, Guarded, Kept, NEW s \in Session,
           \/ HandleStableConnect(s) \/ HandleStableResult(s) \/ HandleClose(s)
           \/ HandleDirectIncoming(s) \/ EndpointClose(s) \/ CarrierGone(s) \/ StreamGone(s)
           \/ CloseStableBuffer(s) \/ CloseStableList(s) \/ LeaveStable(s) \/ LeaveTmp(s)
    PROVE  Guarded'
  <1>0. ses[s] \in SessionState
    BY DEF SessionsOK
  <1>1. ASSUME NEW c \in Guard, Goto(s, c), DOMAIN stables' \subseteq DOMAIN stables
        PROVE  Guarded'
    BY <1>1, GuardGoto DEF Guard, Upgrading
  <1>2. CASE EndpointClose(s) \/ CarrierGone(s) \/ StreamGone(s) \/ CloseStableBuffer(s)
             \/ CloseStableList(s)
    <2>1. DOMAIN stables' \subseteq DOMAIN stables
      BY Zenon, <1>2 DEF EndpointClose, CarrierGone, StreamGone, CloseStableBuffer, CloseStableList,
         tables, Drop, D!Drop, D!Restrict
    <2>2. \E c \in Guard : Goto(s, c)
      BY Zenon, <1>2 DEF EndpointClose, CarrierGone, StreamGone, CloseStableBuffer, CloseStableList,
         Exit, Guard
    <2>. QED  BY Zenon, <1>1, <2>1, <2>2
  <1>3. CASE LeaveStable(s)
    <2>. DEFINE r == [Over(s) EXCEPT !.told = @ + 1]
    <2>1. Becomes(s, r) /\ stables' = Drop(stables, ses[s].peer)
      BY <1>3 DEF LeaveStable
    <2>2. r.pc = "dead"
      BY DEF Over, Unborn
    <2>3. DOMAIN stables' \subseteq DOMAIN stables /\ ses[s].peer \notin DOMAIN stables'
      BY <2>1 DEF Drop, D!Drop, D!Restrict
    <2>. HIDE DEF r
    <2>. QED  BY ZenonT(40), <2>1, <2>2, <2>3, GuardBecomes DEF Upgrading
  <1>4. CASE LeaveTmp(s)
    <2>1. ~ses[s].stable /\ UNCHANGED stables
      BY <1>4 DEF LeaveTmp
    <2>2. CASE Goto(s, "ct_list")
      BY ZenonT(40), <2>1, <2>2, GuardGoto DEF Upgrading
    <2>3. CASE Ends(s)
      <3>1. Over(s).pc = "dead"
        BY DEF Over, Unborn
      <3>. QED  BY ZenonT(40), <2>1, <2>3, <3>1, GuardBecomes DEF Ends, Responsible, Upgrading
    <2>. QED  BY ZenonT(40), <1>4, <2>2, <2>3 DEF LeaveTmp
  <1>5. ASSUME CloseFalse(s), ses[s].pc = "run"
        PROVE  Guarded'
    <2>. DEFINE r1 == [ses[s] EXCEPT !.pc = "cf_stable1", !.told = @ + 1]
                r2 == [ses[s] EXCEPT !.pc = "ct", !.told = @ + 1]
    <2>1. /\ \/ Becomes(s, r1) \/ Becomes(s, r2)
             \/ ~ses[s].stable /\ (Goto(s, "cf_tmp1") \/ Goto(s, "cf_relay"))
          /\ UNCHANGED stables
      BY <1>5 DEF CloseFalse, tables
    <2>2. /\ r1.pc = "cf_stable1" /\ r1.stable = ses[s].stable
          /\ r2.pc = "ct" /\ r2.stable = ses[s].stable
      BY <1>0 DEF SessionState
    <2>. HIDE DEF r1, r2
    <2>3. CASE Becomes(s, r1) \/ Becomes(s, r2)
      BY Zenon, <2>1, <2>2, <2>3, GuardBecomes DEF Responsible, Guard, Upgrading
    <2>4. CASE ~ses[s].stable /\ (Goto(s, "cf_tmp1") \/ Goto(s, "cf_relay"))
      BY <2>1, <2>4, GuardGoto DEF Upgrading
    <2>. QED  BY <2>1, <2>3, <2>4
  <1>6. CASE HandleClose(s)
    BY <1>5, <1>6 DEF HandleClose, Take
  <1>7. CASE HandleStableConnect(s)
    <2>. DEFINE r == [ses[s] EXCEPT !.pc = "up_tmp", !.stable = TRUE]
    <2>1. UNCHANGED stables /\ (ses' = ses \/ (~ses[s].stable /\ Becomes(s, r)))
      BY <1>7 DEF HandleStableConnect, tables
    <2>2. r.stable = TRUE
      BY <1>0 DEF SessionState
    <2>. HIDE DEF r
    <2>. QED  BY <2>1, <2>2, GuardStill, GuardBecomes DEF Responsible
  <1>8. CASE HandleStableResult(s)
    <2>. DEFINE r == [ses[s] EXCEPT !.pc = "up_tmp", !.stable = TRUE,
                                    !.force = Head(inbox[s]).force]
    <2>1. /\ ses[s].pc = "run"
          /\ CloseFalse(s) \/ (~ses[s].stable /\ Becomes(s, r)) \/ Goto(s, "ct") \/ ses' = ses
      BY ZenonT(40), <1>8 DEF HandleStableResult, Exit, Take
    <2>2. UNCHANGED stables
      BY <1>8 DEF HandleStableResult, CloseFalse, tables
    <2>3. r.stable = TRUE
      BY <1>0 DEF SessionState
    <2>. HIDE DEF r
    <2>4. CASE ~ses[s].stable /\ Becomes(s, r)
      BY ZenonT(40), <2>2, <2>3, <2>4, GuardBecomes DEF Responsible
    <2>. QED  BY ZenonT(40), <1>1, <1>5, <2>1, <2>2, <2>4, GuardStill DEF Guard
  <1>9. CASE HandleDirectIncoming(s)
    <2>. DEFINE r == [ses[s] EXCEPT !.direct = TRUE, !.via = Nobody]
    <2>1. Becomes(s, r) /\ ses[s].pc = "run" /\ UNCHANGED stables
      BY <1>9 DEF HandleDirectIncoming, Take, tables
    <2>2. r.pc = "run" /\ r.stable = ses[s].stable
      BY ZenonT(40), <1>0, <2>1 DEF SessionState
    <2>. HIDE DEF r
    <2>. QED  BY ZenonT(40), <2>1, <2>2, GuardBecomes DEF Responsible, Guard, Upgrading
  <1>. QED  BY ZenonT(40), <1>2, <1>3, <1>4, <1>6, <1>7, <1>8, <1>9

(* upgrade() lists the peer for a session that is responsible from then on. *)
LEMMA GuardUpgrade ==
    ASSUME SessionsOK, Guarded, Kept, NEW s \in Session, UpgradeAdd(s) \/ UpgradeDht(s)
    PROVE  Guarded'
  <1>0. ses[s] \in SessionState
    BY DEF SessionsOK
  <1>. DEFINE r1 == [ses[s] EXCEPT !.pc = "run", !.listening = TRUE]
              r2 == [ses[s] EXCEPT !.pc = "ct"]
  <1>1. ses[s].pc = "up_list" /\ (Becomes(s, r1) \/ Becomes(s, r2))
    BY Zenon DEF UpgradeAdd, UpgradeDht, Upgraded, Goto
  <1>2. ses[s].stable
    BY <1>1 DEF Guarded, UpgradesStable, Upgrading
  <1>3. /\ r1.pc = "run" /\ r1.stable = ses[s].stable /\ r1.peer = ses[s].peer
        /\ r2.pc = "ct" /\ r2.stable = ses[s].stable /\ r2.peer = ses[s].peer
    BY <1>0 DEF SessionState
  <1>4. \A p \in DOMAIN stables' : p \in DOMAIN stables \/ p = ses[s].peer
    <2>1. CASE UpgradeAdd(s)
      <3>1. stables' = Put(stables, ses[s].peer, hold[s])
        BY Zenon, <2>1 DEF UpgradeAdd
      <3>. QED  BY Zenon, <3>1 DEF Put, D!Put
    <2>2. CASE UpgradeDht(s)
      <3>1. stables' = Put(stables, ses[s].peer, [s |-> dhts[ses[s].peer], direct |-> TRUE])
        BY ZenonT(40), <2>2 DEF UpgradeDht
      <3>. QED  BY ZenonT(40), <3>1 DEF Put, D!Put
    <2>. QED  BY <2>1, <2>2
  <1>. HIDE DEF r1, r2
  <1>5. /\ ses'[s] \in {r1, r2} /\ \A t \in Session \ {s} : ses'[t] = ses[t]
    BY <1>1 DEF SessionsOK, Becomes
  <1>6. UpgradesStable'
    BY <1>2, <1>3, <1>5, Zenon DEF Guarded, UpgradesStable
  <1>7. Responsible(s)' /\ ses'[s].peer = ses[s].peer
    BY ZenonT(40), <1>2, <1>3, <1>5 DEF Responsible
  <1>8. \A t \in Session : Responsible(t) => Responsible(t)'
    BY <1>5, <1>7 DEF Responsible
  <1>. QED  BY ZenonT(40), <1>4, <1>6, <1>7, <1>8, GuardKept DEF Guarded

(* A relayed handshake borrows a session and gives it back. *)
LEMMA GuardHandshake ==
    ASSUME SessionsOK, Guarded, Kept, NEW s \in Session,
           \/ RelaySpawn(s)
           \/ \E r \in Session : \E q \in Peer : RelayHandshakeNew(r, q, s)
    PROVE  Guarded'
  <1>1. UNCHANGED stables
    BY Zenon DEF RelaySpawn, RelayHandshakeNew, tables
  <1>. DEFINE Fine(t) == /\ Responsible(t) => Responsible(t)'
                         /\ ses'[t].pc \in Upgrading => ses'[t] = ses[t]
  <1>2. \A t \in Session : Fine(t)
    <2>1. CASE RelaySpawn(s)
      <3>1. ses[s].pc = "rh_new" /\ ses[s].via \in Session /\ ses[s].via # s
        BY ZenonT(40), <2>1 DEF RelaySpawn, SessionsOK, Early
      <3>2. /\ ses'[s].pc = "run" /\ ses'[ses[s].via].pc = "run"
            /\ ses'[ses[s].via].stable = ses[ses[s].via].stable
            /\ \A t \in Session \ {s, ses[s].via} : ses'[t] = ses[t]
        BY ZenonT(40), <2>1, <3>1 DEF RelaySpawn, SessionsOK, SessionState
      <3>. QED  BY <3>1, <3>2 DEF Responsible, Upgrading
    <2>2. ASSUME NEW r \in Session, NEW q \in Peer, RelayHandshakeNew(r, q, s)
          PROVE  \A t \in Session : Fine(t)
      <3>1. ses[s].pc = "none" /\ ses[r].pc = "run" /\ r # s
        BY <2>2, Zenon DEF RelayHandshakeNew
      <3>2. /\ ses'[s].pc = "rh_new" /\ ses'[r].pc = "rh_add"
            /\ ses'[r].stable = ses[r].stable
            /\ \A t \in Session \ {s, r} : ses'[t] = ses[t]
        <4>. DEFINE a == [ses[r] EXCEPT !.pc = "rh_add"]
                    b == [ses[s] EXCEPT !.pc = "rh_new", !.peer = q, !.via = r]
        <4>1. ses' = [ses EXCEPT ![r] = a, ![s] = [@ EXCEPT !.pc = "rh_new", !.peer = q, !.via = r]]
          BY <2>2, Zenon DEF RelayHandshakeNew
        <4>2. ses' = [t \in Session |-> IF t = s THEN b ELSE IF t = r THEN a ELSE ses[t]]
          BY <3>1, <4>1, Zenon DEF SessionsOK
        <4>3. a.pc = "rh_add" /\ a.stable = ses[r].stable /\ b.pc = "rh_new"
          BY DEF SessionsOK, SessionState
        <4>. HIDE DEF a, b
        <4>. QED  BY <3>1, <4>2, <4>3
      <3>. QED  BY <3>1, <3>2 DEF Responsible, Upgrading
    <2>. QED  BY ZenonT(40), <2>1, <2>2
  <1>3. UpgradesStable'
    BY <1>2 DEF Guarded, UpgradesStable
  <1>. QED  BY <1>1, <1>2, <1>3, GuardKept DEF Guarded

(* Every step of the node keeps it. *)
LEMMA GuardNext ==
    ASSUME IInv, Guarded, Next
    PROVE  Guarded'
  <1>. SessionsOK
    BY DEF IInv
  <1>1. ASSUME NEW s \in Session, SessionStep(s)
        PROVE  Guarded'
    <2>1. Kept
      BY ZenonT(40), <1>1, StepSessions
    <2>2. CASE HandleRelayResult(s)
      BY ZenonT(40), <2>2, GuardStill DEF HandleRelayResult, tables
    <2>. QED  BY ZenonT(40), <1>1, <2>1, <2>2, GuardOutside, GuardInside, GuardUpgrade, GuardHandshake
              DEF SessionStep, Run, Lost
  <1>2. CASE \E s \in Session : StartStable(s)
    <2>1. PICK s \in Session : StartStable(s)
      BY <1>2
    <2>2. Kept
      BY <2>1, SessionsStart DEF IInv, RequestOK
    <2>. QED  BY <2>1, <2>2, GuardOutside
  <1>3. CASE ResultGet \/ CheckTmp \/ Buffered
    BY <1>3, GuardStill, Zenon DEF ResultGet, CheckTmp, Buffered, Forward, Proceed, tables, tasks
  <1>4. CASE TimerClear
    BY ZenonT(40), <1>4, GuardStill DEF TimerClear
  <1>5. CASE Environment
    <2>1. ASSUME NEW p \in Peer,
                 \/ IncomingRelay(p) \/ StableConnect(p) \/ StableDisconnect(p)
                 \/ \E ok, force \in BOOLEAN : StableResult(p, ok, force)
                 \/ \E s \in Session : RelayHandshakeAnswer(s, p)
          PROVE  Guarded'
      BY <2>1, GuardStill, Zenon DEF IncomingRelay, StableConnect, StableDisconnect, StableResult,
         RelayHandshakeAnswer, Forward, Proceed, tables, tasks
    <2>2. \/ \E s \in Session : SessionStep(s)
          \/ \E p \in Peer :
                 \/ IncomingRelay(p) \/ StableConnect(p) \/ StableDisconnect(p)
                 \/ \E ok, force \in BOOLEAN : StableResult(p, ok, force)
                 \/ \E s \in Session : RelayHandshakeAnswer(s, p)
      BY <1>5 DEF Environment, SessionStep
    <2>. QED  BY ZenonT(40), <1>1, <2>1, <2>2
  <1>6. CASE \E s \in Session : Run(s) \/ Lost(s)
    BY <1>1, <1>6 DEF SessionStep
  <1>. QED  BY ZenonT(40), <1>2, <1>3, <1>4, <1>5, <1>6 DEF Next, Serve

(* Every peer listed as stable has a session that is not over and removes it
   when it closes: upgrade() comes before listen(), and listen() ends with
   close(true). *)
THEOREM StablePeersGuarded == Spec => []StablesGuarded
  <1>1. Init => Guarded
    BY DEF Init, Guarded, StablesGuarded, UpgradesStable, Unborn, Upgrading
  <1>2. IInv /\ Guarded /\ [Next]_vars => Guarded'
    <2>1. ASSUME Guarded, UNCHANGED vars
          PROVE  Guarded'
      BY <2>1, GuardStill DEF vars, tables, tasks
    <2>. QED  BY <2>1, GuardNext
  <1>3. Guarded => StablesGuarded
    BY DEF Guarded
  <1>. QED  BY <1>1, <1>2, <1>3, Invariance, PTL DEF Spec

----------------------------------------------------------------------------
(* What no step does to a session *)

Riding == {"rh_new", "rh_add", "up_tmp", "up_list", "run"}

Looping == {"run", "rh_add"}

Going == {"ct", "ct_list"}

(* What the place a session is at says of its flags. *)
Plain(r) ==
    /\ r.pc \in Early => ~r.stable /\ ~r.direct /\ r.told = 0
    /\ r.pc \in {"rs_send", "rs_wait", "rs_fail"} => ~r.direct
    /\ r.pc \in {"cf_stable1", "cf_stable2"} => r.told > 0
    /\ r.pc \in {"cf_tmp1", "cf_tmp2", "ct_list"} => ~r.stable /\ r.direct

AllPlain == \A s \in Session : Plain(ses[s])

(* A session that has not reached its loop as a stable one does so by an
   upgrade; one that is about to leave the DHT leaves it before it is over; a
   direct one ends in close(), or in an upgrade that failed; a relayed one
   sends where it sent since its handshake. *)
Moves(old, new) ==
    /\ Plain(new)
    /\ old.told > 0 => new.told > 0
    /\ old.pc \in Going /\ ~old.stable /\ old.direct =>
          \/ new.pc \in Going /\ ~new.stable /\ new.direct
          \/ old.pc = "ct_list" /\ new.pc = "dead"
    /\ new.pc \in Looping /\ new.stable =>
          old.pc = "up_list" \/ (old.pc \in Looping /\ old.stable)
    /\ old.direct /\ old.pc # "dead" /\ new.pc = "dead" =>
          new.told > 0 \/ old.pc \in {"ct_list", "up_list"}
    /\ new.pc \in Riding /\ ~new.direct =>
          \/ old.pc \in {"none", "rs_wait"}
          \/ old.pc \in Riding /\ ~old.direct /\ new.via = old.via /\ new.peer = old.peer

AllMove == \A t \in Session : Moves(ses[t], ses'[t])

(* It neither starts nor ends a relayed handshake. *)
Apart(old, new) ==
    /\ old.pc = "rh_add" => new.pc = "rh_add"
    /\ new.pc = "rh_new" => old.pc = "rh_new" /\ new.via = old.via

AllApart == \A t \in Session : Apart(ses[t], ses'[t])

(* A session that handles a relayed handshake does nothing else. *)
Borrowed ==
    \A s \in Session : ses[s].pc = "rh_new" =>
        /\ ses[ses[s].via].pc = "rh_add"
        /\ \A t \in Session \ {s} : ses[t].pc = "rh_new" => ses[t].via # ses[s].via

(* A step that leaves the sessions alone. *)
LEMMA MoveStill ==
    ASSUME AllPlain, UNCHANGED ses
    PROVE  AllMove /\ AllApart
  BY DEF AllPlain, AllMove, AllApart, Moves, Apart

(* A step that changes one session. *)
LEMMA MoveBecomes ==
    ASSUME SessionsOK, AllPlain, NEW s \in Session, NEW r, Becomes(s, r),
           Moves(ses[s], r), Apart(ses[s], r)
    PROVE  AllMove /\ AllApart
  <1>1. ses'[s] = r /\ \A t \in Session \ {s} : ses'[t] = ses[t]
    BY ZenonT(40) DEF SessionsOK, Becomes
  <1>2. ASSUME NEW t \in Session \ {s}
        PROVE  Moves(ses[t], ses'[t]) /\ Apart(ses[t], ses'[t])
    BY <1>1, <1>2 DEF AllPlain, Moves, Apart
  <1>. QED  BY Zenon, <1>1, <1>2 DEF AllMove, AllApart

(* The places a session goes to without another change of its state. *)
Jump(a, stable, direct, c) ==
    \/ a = "ds_wait" /\ c \in {"ds_fall", "ds_hung"}
    \/ a = "rs_add" /\ c = "rs_send"
    \/ a = "rs_send" /\ c = "rs_wait"
    \/ a = "rs_wait" /\ c = "rs_fail"
    \/ a = "up_tmp" /\ c = "up_list"
    \/ a = "up_list" /\ c = "ct"
    \/ a = "run" /\ c \in {"ct", "cf_relay"}
    \/ a = "run" /\ c = "cf_tmp1" /\ ~stable /\ direct
    \/ a = "cf_stable1" /\ c = "cf_stable2"
    \/ a = "cf_tmp1" /\ c = "cf_tmp2"
    \/ a \in {"cf_stable2", "cf_tmp2", "cf_relay"} /\ c = "ct"
    \/ a = "ct" /\ c = "ct_list" /\ ~stable /\ direct

(* Such a step. *)
LEMMA MoveGoto ==
    ASSUME SessionsOK, AllPlain, NEW s \in Session, NEW c, Goto(s, c),
           Jump(ses[s].pc, ses[s].stable, ses[s].direct, c)
    PROVE  AllMove /\ AllApart
  <1>. DEFINE r == [ses[s] EXCEPT !.pc = c]
  <1>1. /\ r.pc = c /\ r.stable = ses[s].stable /\ r.direct = ses[s].direct
        /\ r.told = ses[s].told /\ r.via = ses[s].via /\ r.peer = ses[s].peer
    BY DEF SessionsOK, SessionState
  <1>2. Becomes(s, r) /\ Plain(ses[s])
    BY ZenonT(40) DEF Goto, AllPlain
  <1>. HIDE DEF r
  <1>3. Plain(r)
    BY ZenonT(40), <1>1, <1>2 DEF Plain, Jump, Early
  <1>4. Moves(ses[s], r)
    BY ZenonT(40), <1>1, <1>2, <1>3 DEF Moves, Plain, Jump, Early, Riding, Looping, Going
  <1>5. Apart(ses[s], r)
    BY ZenonT(40), <1>1, <1>2 DEF Apart, Jump
  <1>. QED  BY ZenonT(40), <1>2, <1>4, <1>5, MoveBecomes

(* The task returns without having sent StableLeave. *)
LEMMA MoveEnds ==
    ASSUME SessionsOK, AllPlain, NEW s \in Session, Ends(s),
           \/ ses[s].pc \in Early \cup {"rs_send", "rs_wait", "rs_fail", "up_list", "ct_list"}
           \/ ses[s].pc = "ct" /\ ~ses[s].direct,
           ses[s].pc # "rh_add"
    PROVE  AllMove /\ AllApart
  <1>1. /\ Over(s).pc = "dead" /\ Over(s).direct = ses[s].direct
        /\ Over(s).told = ses[s].told /\ Over(s).stable = ses[s].stable
    BY DEF Over, Unborn
  <1>2. Becomes(s, Over(s)) /\ Plain(ses[s])
    BY DEF Ends, AllPlain
  <1>3. Plain(Over(s))
    BY ZenonT(40), <1>1 DEF Plain, Early
  <1>4. Moves(ses[s], Over(s))
    BY ZenonT(40), <1>1, <1>2, <1>3 DEF Moves, Plain, Early, Riding, Looping, Going
  <1>5. Apart(ses[s], Over(s))
    BY <1>1 DEF Apart, Early
  <1>. QED  BY ZenonT(40), <1>2, <1>4, <1>5, MoveBecomes

(* Steps to another place in the program, or to the end of the task. *)
LEMMA MovePlaces ==
    ASSUME SessionsOK, AllPlain, NEW s \in Session,
           \/ DialRefused(s) \/ DialSilent(s) \/ DialFails(s) \/ RelayAddTmp(s) \/ RelayConnect(s)
           \/ RelayTimeout(s) \/ RelayFails(s) \/ UpgradeTake(s) \/ UpgradeFails(s)
           \/ EndpointClose(s) \/ CarrierGone(s) \/ StreamGone(s)
           \/ CloseStableBuffer(s) \/ CloseStableList(s) \/ CloseTmpBuffer(s) \/ CloseTmpList(s)
           \/ CloseRelay(s) \/ LeaveTmp(s) \/ LeaveDht(s)
    PROVE  AllMove /\ AllApart
  <1>. DEFINE Jumps == \E c : Goto(s, c) /\ Jump(ses[s].pc, ses[s].stable, ses[s].direct, c)
              Stops == /\ Ends(s)
                       /\ \/ ses[s].pc \in {"ds_wait", "rs_send", "rs_wait", "rs_fail", "up_list", "ct_list"}
                          \/ ses[s].pc = "ct" /\ ~ses[s].direct
  <1>1. ASSUME \/ DialRefused(s) \/ DialSilent(s) \/ DialFails(s) \/ RelayAddTmp(s)
               \/ RelayConnect(s) \/ RelayTimeout(s) \/ RelayFails(s)
        PROVE  Jumps \/ Stops
    BY ZenonT(40), <1>1 DEF DialRefused, DialSilent, DialFails, RelayAddTmp, RelayConnect,
       RelayTimeout, RelayFails, Jump
  <1>2. ASSUME \/ UpgradeTake(s) \/ UpgradeFails(s) \/ EndpointClose(s)
               \/ CarrierGone(s) \/ StreamGone(s)
        PROVE  Jumps \/ Stops
    BY ZenonT(40), <1>2 DEF UpgradeTake, UpgradeFails, EndpointClose, CarrierGone, StreamGone,
       Exit, Jump
  <1>3. ASSUME \/ CloseStableBuffer(s) \/ CloseStableList(s) \/ CloseTmpBuffer(s)
               \/ CloseTmpList(s) \/ CloseRelay(s) \/ LeaveTmp(s) \/ LeaveDht(s)
        PROVE  Jumps \/ Stops
    BY ZenonT(40), <1>3 DEF CloseStableBuffer, CloseStableList, CloseTmpBuffer, CloseTmpList,
       CloseRelay, LeaveTmp, LeaveDht, Exit, Jump
  <1>4. CASE Jumps
    BY ZenonT(40), <1>4, MoveGoto
  <1>5. CASE Stops
    <2>1. /\ \/ ses[s].pc \in Early \cup {"rs_send", "rs_wait", "rs_fail", "up_list", "ct_list"}
             \/ ses[s].pc = "ct" /\ ~ses[s].direct
          /\ ses[s].pc # "rh_add" /\ Ends(s)
      BY <1>5 DEF Early
    <2>. QED  BY ZenonT(40), <2>1, MoveEnds
  <1>. HIDE DEF Jumps, Stops
  <1>. QED  BY ZenonT(40), <1>1, <1>2, <1>3, <1>4, <1>5

(* Steps that start a session. *)
LEMMA MoveBegin ==
    ASSUME SessionsOK, AllPlain, NEW s \in Session,
           \/ \E p \in Peer : IncomingDht(p, s) \/ DialAnswered(s, p)
           \/ StartStable(s) \/ AddDht(s) \/ DirectAddTmp(s) \/ FallBack(s) \/ RelayAnswer(s)
    PROVE  AllMove /\ AllApart
  <1>0. ses[s] \in SessionState /\ Plain(ses[s])
    BY ZenonT(40) DEF SessionsOK, AllPlain
  <1>1. ASSUME NEW r, Becomes(s, r), ses[s].pc \in Early,
               r.pc \in Early \ {"rh_new"}, ~r.stable, ~r.direct, r.told = 0
        PROVE  AllMove /\ AllApart
    <2>1. Moves(ses[s], r)
      BY ZenonT(40), <1>0, <1>1 DEF Moves, Plain, Early, Riding, Looping, Going
    <2>2. Apart(ses[s], r)
      BY <1>1 DEF Apart, Early
    <2>. QED  BY ZenonT(40), <1>1, <2>1, <2>2, MoveBecomes
  <1>2. ASSUME Ends(s), ses[s].pc \in {"ds_fall", "rs_wait"}
        PROVE  AllMove /\ AllApart
    <2>1. /\ ses[s].pc \in Early \cup {"rs_send", "rs_wait", "rs_fail", "up_list", "ct_list"}
          /\ ses[s].pc # "rh_add"
      BY ZenonT(40), <1>2 DEF Early
    <2>. QED  BY ZenonT(40), <1>2, <2>1, MoveEnds
  <1>3. ASSUME NEW p \in Peer, IncomingDht(p, s) \/ DialAnswered(s, p)
        PROVE  AllMove /\ AllApart
    <2>1. PICK c \in {"in_add", "ds_add"} : Becomes(s, [ses[s] EXCEPT !.pc = c, !.peer = p])
      BY <1>3, Zenon DEF IncomingDht, DialAnswered
    <2>2. ses[s].pc \in Early
      BY <1>3, Zenon DEF IncomingDht, DialAnswered, Early
    <2>. DEFINE r == [ses[s] EXCEPT !.pc = c, !.peer = p]
    <2>3. r.pc = c /\ r.stable = ses[s].stable /\ r.direct = ses[s].direct /\ r.told = ses[s].told
      BY <1>0 DEF SessionState
    <2>4. Becomes(s, r)
      BY ZenonT(40), <2>1
    <2>. HIDE DEF r
    <2>5. r.pc \in Early \ {"rh_new"} /\ ~r.stable /\ ~r.direct /\ r.told = 0
      BY ZenonT(40), <1>0, <2>2, <2>3 DEF Plain, Early
    <2>. QED  BY ZenonT(40), <1>1, <2>2, <2>4, <2>5
  <1>4. CASE StartStable(s)
    <2>. DEFINE r1 == [ses[s] EXCEPT !.pc = "ds_wait", !.peer = outside.p]
                r2 == [ses[s] EXCEPT !.pc = "rs_add", !.peer = outside.p, !.via = outside.via]
    <2>1. ses[s].pc = "none" /\ (Becomes(s, r1) \/ Becomes(s, r2))
      BY <1>4, Zenon DEF StartStable
    <2>2. /\ r1.pc = "ds_wait" /\ r1.stable = ses[s].stable /\ r1.direct = ses[s].direct
          /\ r1.told = ses[s].told
          /\ r2.pc = "rs_add" /\ r2.stable = ses[s].stable /\ r2.direct = ses[s].direct
          /\ r2.told = ses[s].told
      BY ZenonT(40), <1>0 DEF SessionState
    <2>. HIDE DEF r1, r2
    <2>. QED  BY ZenonT(40), <1>0, <1>1, <2>1, <2>2 DEF Plain, Early
  <1>5. CASE AddDht(s)
    <2>. DEFINE r == [ses[s] EXCEPT !.pc = "run", !.direct = TRUE, !.listening = TRUE]
    <2>1. ses[s].pc = "in_add" /\ (Becomes(s, r) \/ Becomes(s, Unborn))
      BY <1>5, Zenon DEF AddDht
    <2>2. r.pc = "run" /\ r.stable = ses[s].stable /\ r.direct = TRUE /\ r.told = ses[s].told
      BY <1>0 DEF SessionState
    <2>3. Unborn.pc = "none" /\ ~Unborn.stable /\ ~Unborn.direct /\ Unborn.told = 0
      BY ZenonT(40) DEF Unborn
    <2>. HIDE DEF r
    <2>4. Moves(ses[s], r)
      BY ZenonT(40), <1>0, <2>1, <2>2 DEF Moves, Plain, Early, Riding, Looping, Going
    <2>5. Apart(ses[s], r)
      BY ZenonT(40), <2>1, <2>2 DEF Apart
    <2>6. CASE Becomes(s, r)
      BY ZenonT(40), <2>4, <2>5, <2>6, MoveBecomes
    <2>7. CASE Becomes(s, Unborn)
      BY ZenonT(40), <1>1, <2>1, <2>3, <2>7 DEF Early
    <2>. QED  BY <2>1, <2>6, <2>7
  <1>6. CASE DirectAddTmp(s)
    <2>. DEFINE r1 == [ses[s] EXCEPT !.pc = "up_tmp", !.direct = TRUE, !.stable = TRUE]
                r2 == [Over(s) EXCEPT !.direct = TRUE]
    <2>1. ses[s].pc = "ds_add" /\ (Becomes(s, r1) \/ Becomes(s, r2))
      BY <1>6, Zenon DEF DirectAddTmp
    <2>2. /\ r1.pc = "up_tmp" /\ r1.stable = TRUE /\ r1.direct = TRUE
          /\ r1.told = ses[s].told
          /\ r2.pc = "dead" /\ r2.direct = TRUE /\ r2.told = ses[s].told
      BY ZenonT(40), <1>0 DEF SessionState, Over, Unborn
    <2>. HIDE DEF r1, r2
    <2>3. Moves(ses[s], r1) /\ Apart(ses[s], r1)
      BY ZenonT(40), <1>0, <2>1, <2>2 DEF Moves, Plain, Early, Riding, Looping, Going, Apart
    <2>4. Moves(ses[s], r2) /\ Apart(ses[s], r2)
      BY <1>0, <2>1, <2>2 DEF Moves, Plain, Early, Riding, Looping, Going, Apart
    <2>. QED  BY <2>1, <2>3, <2>4, MoveBecomes
  <1>7. CASE FallBack(s)
    <2>1. ses[s].pc = "ds_fall"
      BY ZenonT(40), <1>7 DEF FallBack
    <2>2. Ends(s) \/ \E g : Becomes(s, [ses[s] EXCEPT !.pc = "rs_add", !.via = g.s])
      BY ZenonT(40), <1>7 DEF FallBack
    <2>3. ASSUME NEW v, Becomes(s, [ses[s] EXCEPT !.pc = "rs_add", !.via = v])
          PROVE  AllMove /\ AllApart
      <3>. DEFINE r == [ses[s] EXCEPT !.pc = "rs_add", !.via = v]
      <3>1. r.pc = "rs_add" /\ r.stable = ses[s].stable /\ r.direct = ses[s].direct /\ r.told = ses[s].told
        BY <1>0 DEF SessionState
      <3>2. Becomes(s, r)
        BY ZenonT(40), <2>3
      <3>. HIDE DEF r
      <3>. QED  BY ZenonT(40), <1>0, <1>1, <2>1, <3>1, <3>2 DEF Plain, Early
    <2>. QED  BY ZenonT(40), <1>2, <2>1, <2>2, <2>3
  <1>8. CASE RelayAnswer(s)
    <2>. DEFINE r == [ses[s] EXCEPT !.pc = "up_tmp", !.via = Head(inbox[s]).via, !.stable = TRUE]
    <2>1. ses[s].pc = "rs_wait" /\ (Becomes(s, r) \/ Ends(s) \/ Goto(s, "rs_fail"))
      BY <1>8 DEF RelayAnswer
    <2>2. r.pc = "up_tmp" /\ r.direct = ses[s].direct /\ r.told = ses[s].told
      BY ZenonT(40), <1>0 DEF SessionState
    <2>. HIDE DEF r
    <2>3. Moves(ses[s], r) /\ Apart(ses[s], r)
      BY ZenonT(40), <1>0, <2>1, <2>2 DEF Moves, Plain, Early, Riding, Looping, Going, Apart
    <2>4. CASE Goto(s, "rs_fail")
      BY ZenonT(40), <2>1, <2>4, MoveGoto DEF Jump
    <2>. QED  BY ZenonT(40), <1>2, <2>1, <2>3, <2>4, MoveBecomes
  <1>. QED  BY ZenonT(40), <1>3, <1>4, <1>5, <1>6, <1>7, <1>8

(* Steps of the loop of a session, and of an upgrade. *)
LEMMA MoveLoop ==
    ASSUME SessionsOK, AllPlain, NEW s \in Session,
           \/ HandleStableConnect(s) \/ HandleStableResult(s) \/ HandleRelayResult(s)
           \/ HandleClose(s) \/ HandleDirectIncoming(s) \/ LeaveStable(s)
           \/ UpgradeAdd(s) \/ UpgradeDht(s)
    PROVE  AllMove /\ AllApart
  <1>0. ses[s] \in SessionState /\ Plain(ses[s])
    BY ZenonT(40) DEF SessionsOK, AllPlain
  <1>1. ASSUME NEW r, Becomes(s, r), ses[s].pc = "run", r.pc = "up_tmp",
               r.direct = ses[s].direct, r.told = ses[s].told, r.via = ses[s].via,
               r.peer = ses[s].peer
        PROVE  AllMove /\ AllApart
    <2>1. Moves(ses[s], r)
      BY ZenonT(40), <1>0, <1>1 DEF Moves, Plain, Early, Riding, Looping, Going
    <2>2. Apart(ses[s], r)
      BY ZenonT(40), <1>1 DEF Apart
    <2>. QED  BY ZenonT(40), <1>1, <2>1, <2>2, MoveBecomes
  <1>2. ASSUME Goto(s, "ct"), ses[s].pc \in {"run", "up_list"}
        PROVE  AllMove /\ AllApart
    BY <1>2, MoveGoto DEF Jump
  <1>3. ASSUME CloseFalse(s), ses[s].pc = "run"
        PROVE  AllMove /\ AllApart
    <2>. DEFINE r1 == [ses[s] EXCEPT !.pc = "cf_stable1", !.told = @ + 1]
                r2 == [ses[s] EXCEPT !.pc = "ct", !.told = @ + 1]
    <2>1. \/ Becomes(s, r1)
          \/ Becomes(s, r2) /\ ~ses[s].direct
          \/ ~ses[s].stable /\ ses[s].direct /\ Goto(s, "cf_tmp1")
          \/ Goto(s, "cf_relay")
      BY <1>3 DEF CloseFalse
    <2>2. /\ r1.pc = "cf_stable1" /\ r1.told = ses[s].told + 1 /\ r1.stable = ses[s].stable
          /\ r1.direct = ses[s].direct
          /\ r2.pc = "ct" /\ r2.told = ses[s].told + 1 /\ r2.stable = ses[s].stable
          /\ r2.direct = ses[s].direct
          /\ ses[s].told \in Nat
      BY ZenonT(40), <1>0 DEF SessionState
    <2>. HIDE DEF r1, r2
    <2>3. Moves(ses[s], r1) /\ Apart(ses[s], r1)
      BY SMTT(40), <1>3, <2>2 DEF Moves, Plain, Early, Riding, Looping, Going, Apart
    <2>4. Moves(ses[s], r2) /\ Apart(ses[s], r2)
      BY SMTT(40), <1>3, <2>2 DEF Moves, Plain, Early, Riding, Looping, Going, Apart
    <2>5. CASE (~ses[s].stable /\ ses[s].direct /\ Goto(s, "cf_tmp1")) \/ Goto(s, "cf_relay")
      BY ZenonT(40), <1>3, <2>5, MoveGoto DEF Jump
    <2>. QED  BY ZenonT(40), <2>1, <2>3, <2>4, <2>5, MoveBecomes
  <1>4. CASE HandleClose(s)
    BY ZenonT(40), <1>3, <1>4 DEF HandleClose, Take
  <1>5. CASE HandleStableConnect(s)
    <2>. DEFINE r == [ses[s] EXCEPT !.pc = "up_tmp", !.stable = TRUE]
    <2>1. ses[s].pc = "run" /\ (ses' = ses \/ Becomes(s, r))
      BY <1>5 DEF HandleStableConnect, Take
    <2>2. /\ r.pc = "up_tmp" /\ r.direct = ses[s].direct /\ r.told = ses[s].told
          /\ r.via = ses[s].via /\ r.peer = ses[s].peer
      BY ZenonT(40), <1>0 DEF SessionState
    <2>. HIDE DEF r
    <2>. QED  BY ZenonT(40), <1>1, <2>1, <2>2, MoveStill
  <1>6. CASE HandleStableResult(s)
    <2>. DEFINE r == [ses[s] EXCEPT !.pc = "up_tmp", !.stable = TRUE,
                                    !.force = Head(inbox[s]).force]
    <2>1. /\ ses[s].pc = "run"
          /\ CloseFalse(s) \/ Becomes(s, r) \/ Goto(s, "ct") \/ ses' = ses
      BY ZenonT(40), <1>6 DEF HandleStableResult, Exit, Take
    <2>2. /\ r.pc = "up_tmp" /\ r.direct = ses[s].direct /\ r.told = ses[s].told
          /\ r.via = ses[s].via /\ r.peer = ses[s].peer
      BY ZenonT(40), <1>0 DEF SessionState
    <2>. HIDE DEF r
    <2>. QED  BY ZenonT(40), <1>1, <1>2, <1>3, <2>1, <2>2, MoveStill
  <1>7. CASE HandleDirectIncoming(s)
    <2>. DEFINE r == [ses[s] EXCEPT !.direct = TRUE, !.via = Nobody]
    <2>1. Becomes(s, r) /\ ses[s].pc = "run"
      BY <1>7 DEF HandleDirectIncoming, Take
    <2>2. r.pc = "run" /\ r.stable = ses[s].stable /\ r.direct = TRUE /\ r.told = ses[s].told
      BY ZenonT(40), <1>0, <2>1 DEF SessionState
    <2>. HIDE DEF r
    <2>3. Moves(ses[s], r) /\ Apart(ses[s], r)
      BY ZenonT(40), <2>1, <2>2 DEF Moves, Plain, Early, Riding, Looping, Going, Apart
    <2>. QED  BY ZenonT(40), <2>1, <2>3, MoveBecomes
  <1>8. CASE LeaveStable(s)
    <2>. DEFINE r == [Over(s) EXCEPT !.told = @ + 1]
    <2>1. Becomes(s, r) /\ ses[s].pc = "ct" /\ ses[s].stable
      BY <1>8 DEF LeaveStable
    <2>2. r.pc = "dead" /\ r.told = ses[s].told + 1 /\ ses[s].told \in Nat
      BY ZenonT(40), <1>0 DEF Over, Unborn, SessionState
    <2>. HIDE DEF r
    <2>3. Moves(ses[s], r) /\ Apart(ses[s], r)
      BY SMTT(40), <2>1, <2>2 DEF Moves, Plain, Early, Riding, Looping, Going, Apart
    <2>. QED  BY ZenonT(40), <2>1, <2>3, MoveBecomes
  <1>9. CASE UpgradeAdd(s) \/ UpgradeDht(s)
    <2>. DEFINE r == [ses[s] EXCEPT !.pc = "run", !.listening = TRUE]
    <2>1. ses[s].pc = "up_list" /\ (Becomes(s, r) \/ Goto(s, "ct"))
      BY <1>9, Zenon DEF UpgradeAdd, UpgradeDht, Upgraded
    <2>2. /\ r.pc = "run" /\ r.direct = ses[s].direct /\ r.told = ses[s].told
          /\ r.via = ses[s].via /\ r.peer = ses[s].peer
      BY ZenonT(40), <1>0 DEF SessionState
    <2>. HIDE DEF r
    <2>3. Moves(ses[s], r) /\ Apart(ses[s], r)
      BY ZenonT(40), <2>1, <2>2 DEF Moves, Plain, Early, Riding, Looping, Going, Apart
    <2>. QED  BY ZenonT(40), <1>2, <2>1, <2>3, MoveBecomes
  <1>10. CASE HandleRelayResult(s)
    BY ZenonT(40), <1>10, MoveStill DEF HandleRelayResult
  <1>. QED  BY ZenonT(40), <1>4, <1>5, <1>6, <1>7, <1>8, <1>9, <1>10

(* A relayed handshake goes on while its session does nothing else. *)
LEMMA BorrowKept ==
    ASSUME SessionsOK, Borrowed, AllApart
    PROVE  Borrowed'
  <1>1. \A s \in Session : ses'[s].pc = "rh_new" =>
            ses[s].pc = "rh_new" /\ ses'[s].via = ses[s].via /\ ses[s].via \in Session
    BY DEF AllApart, Apart, SessionsOK
  <1>2. \A v \in Session : ses[v].pc = "rh_add" => ses'[v].pc = "rh_add"
    BY DEF AllApart, Apart
  <1>. QED  BY SMTT(40), <1>1, <1>2 DEF Borrowed

(* A relayed handshake starts a session and gives back the one it came
   through. *)
LEMMA MoveHandshake ==
    ASSUME SessionsOK, AllPlain, Borrowed, NEW s \in Session,
           \/ RelaySpawn(s)
           \/ \E r \in Session : \E q \in Peer : RelayHandshakeNew(r, q, s)
    PROVE  AllMove /\ Borrowed'
  <1>1. CASE RelaySpawn(s)
    <2>1. PICK v \in Session : v = ses[s].via
      BY <1>1 DEF RelaySpawn, SessionsOK
    <2>2. ses[s].pc = "rh_new" /\ ses[v].pc = "rh_add" /\ v # s
      BY <1>1, <2>1 DEF RelaySpawn, Borrowed
    <2>. DEFINE a == [ses[v] EXCEPT !.pc = "run"]
                b == [ses[s] EXCEPT !.pc = "run", !.listening = TRUE]
    <2>3. ses' = [ses EXCEPT ![v] = a, ![s] = [@ EXCEPT !.pc = "run", !.listening = TRUE]]
      BY <1>1, <2>1, Zenon DEF RelaySpawn
    <2>4. ses' = [t \in Session |-> IF t = s THEN b ELSE IF t = v THEN a ELSE ses[t]]
      BY <2>2, <2>3, Zenon DEF SessionsOK
    <2>5. /\ a.pc = "run" /\ a.stable = ses[v].stable /\ a.direct = ses[v].direct
          /\ a.told = ses[v].told /\ a.via = ses[v].via /\ a.peer = ses[v].peer
          /\ b.pc = "run" /\ b.stable = ses[s].stable /\ b.direct = ses[s].direct
          /\ b.told = ses[s].told /\ b.via = ses[s].via /\ b.peer = ses[s].peer
      BY DEF SessionsOK, SessionState
    <2>. HIDE DEF a, b
    <2>6. ses'[v] = a /\ ses'[s] = b /\ \A t \in Session \ {s, v} : ses'[t] = ses[t]
      BY <2>2, <2>4
    <2>7. Plain(ses[s]) /\ Plain(ses[v])
      BY ZenonT(40) DEF AllPlain
    <2>8. Moves(ses[v], a)
      BY ZenonT(40), <2>2, <2>5, <2>7 DEF Moves, Plain, Early, Riding, Looping, Going
    <2>9. Moves(ses[s], b)
      BY ZenonT(40), <2>2, <2>5, <2>7 DEF Moves, Plain, Early, Riding, Looping, Going
    <2>10. ASSUME NEW t \in Session \ {s, v}
           PROVE  Moves(ses[t], ses'[t])
      BY ZenonT(40), <2>6, <2>10 DEF AllPlain, Moves
    <2>11. \A t \in Session : ses'[t].pc = "rh_new" =>
               t \notin {s, v} /\ ses'[t] = ses[t] /\ ses[t].via # v
      BY SMTT(40), <2>1, <2>2, <2>5, <2>6 DEF Borrowed
    <2>12. \A t \in Session : ses[t].pc = "rh_add" /\ t # v => ses'[t].pc = "rh_add"
      BY ZenonT(40), <2>2, <2>6
    <2>13. \A t \in Session : ses[t].pc = "rh_new" => ses[t].via \in Session
      BY DEF SessionsOK
    <2>14. Borrowed'
      BY SMTT(40), <2>11, <2>12, <2>13 DEF Borrowed
    <2>. QED  BY ZenonT(40), <2>6, <2>8, <2>9, <2>10, <2>14 DEF AllMove
  <1>2. ASSUME NEW v \in Session, NEW q \in Peer, RelayHandshakeNew(v, q, s)
        PROVE  AllMove /\ Borrowed'
    <2>1. ses[s].pc = "none" /\ ses[v].pc = "run" /\ v # s
      BY <1>2, Zenon DEF RelayHandshakeNew
    <2>. DEFINE a == [ses[v] EXCEPT !.pc = "rh_add"]
                b == [ses[s] EXCEPT !.pc = "rh_new", !.peer = q, !.via = v]
    <2>2. ses' = [ses EXCEPT ![v] = a, ![s] = [@ EXCEPT !.pc = "rh_new", !.peer = q, !.via = v]]
      BY <1>2, Zenon DEF RelayHandshakeNew
    <2>3. ses' = [t \in Session |-> IF t = s THEN b ELSE IF t = v THEN a ELSE ses[t]]
      BY <2>1, <2>2, Zenon DEF SessionsOK
    <2>4. /\ a.pc = "rh_add" /\ a.stable = ses[v].stable /\ a.direct = ses[v].direct
          /\ a.told = ses[v].told /\ a.via = ses[v].via /\ a.peer = ses[v].peer
          /\ b.pc = "rh_new" /\ b.stable = ses[s].stable /\ b.direct = ses[s].direct
          /\ b.told = ses[s].told /\ b.via = v
      BY DEF SessionsOK, SessionState
    <2>. HIDE DEF a, b
    <2>5. ses'[v] = a /\ ses'[s] = b /\ \A t \in Session \ {s, v} : ses'[t] = ses[t]
      BY <2>1, <2>3
    <2>6. Plain(ses[s]) /\ Plain(ses[v])
      BY ZenonT(40) DEF AllPlain
    <2>7. Moves(ses[v], a)
      BY ZenonT(40), <2>1, <2>4, <2>6 DEF Moves, Plain, Early, Riding, Looping, Going
    <2>8. Moves(ses[s], b)
      BY ZenonT(40), <2>1, <2>4, <2>6 DEF Moves, Plain, Early, Riding, Looping, Going
    <2>9. ASSUME NEW t \in Session \ {s, v}
          PROVE  Moves(ses[t], ses'[t])
      BY ZenonT(40), <2>5, <2>9 DEF AllPlain, Moves
    <2>10. \A t \in Session : ses[t].pc = "rh_new" => ses[t].via \in Session /\ ses[t].via # v
      BY ZenonT(40), <2>1 DEF SessionsOK, Borrowed
    <2>11. \A t \in Session \ {s} : ses'[t].pc = "rh_new" => ses'[t] = ses[t] /\ t # v
      BY ZenonT(40), <2>4, <2>5
    <2>12. \A t \in Session : ses[t].pc = "rh_add" => ses'[t].pc = "rh_add"
      BY ZenonT(40), <2>1, <2>5
    <2>13. Borrowed'
      BY SMTT(40), <2>4, <2>5, <2>10, <2>11, <2>12 DEF Borrowed
    <2>. QED  BY ZenonT(40), <2>5, <2>7, <2>8, <2>9, <2>13 DEF AllMove
  <1>. QED  BY ZenonT(40), <1>1, <1>2

Settled == AllPlain /\ Borrowed

(* Every step of the node moves every session so. *)
LEMMA MoveNext ==
    ASSUME IInv, Settled, Next
    PROVE  AllMove /\ Settled'
  <1>. SessionsOK /\ AllPlain /\ Borrowed
    BY ZenonT(40) DEF IInv, Settled
  <1>1. ASSUME AllMove, AllApart \/ Borrowed'
        PROVE  AllMove /\ Settled'
    BY <1>1, BorrowKept DEF Settled, AllPlain, AllMove, Moves
  <1>2. ASSUME UNCHANGED ses
        PROVE  AllMove /\ Settled'
    BY <1>1, <1>2, MoveStill
  <1>3. ASSUME NEW s \in Session, SessionStep(s)
        PROVE  AllMove /\ Settled'
    BY ZenonT(40), <1>1, <1>3, MovePlaces, MoveBegin, MoveLoop, MoveHandshake
       DEF SessionStep, Run, Lost
  <1>4. CASE \E s \in Session : StartStable(s)
    BY ZenonT(40), <1>1, <1>4, MoveBegin
  <1>5. CASE ResultGet \/ CheckTmp \/ Buffered \/ TimerClear
    BY ZenonT(40), <1>2, <1>5 DEF ResultGet, CheckTmp, Buffered, Forward, Proceed, TimerClear, tasks
  <1>6. CASE Environment
    <2>1. ASSUME NEW p \in Peer,
                 \/ IncomingRelay(p) \/ StableConnect(p) \/ StableDisconnect(p)
                 \/ \E ok, force \in BOOLEAN : StableResult(p, ok, force)
                 \/ \E s \in Session : RelayHandshakeAnswer(s, p)
          PROVE  UNCHANGED ses
      BY <2>1, Zenon DEF IncomingRelay, StableConnect, StableDisconnect, StableResult,
         RelayHandshakeAnswer, Forward, Proceed, tasks
    <2>2. \/ \E s \in Session : SessionStep(s)
          \/ \E p \in Peer :
                 \/ IncomingRelay(p) \/ StableConnect(p) \/ StableDisconnect(p)
                 \/ \E ok, force \in BOOLEAN : StableResult(p, ok, force)
                 \/ \E s \in Session : RelayHandshakeAnswer(s, p)
      BY <1>6 DEF Environment, SessionStep
    <2>. QED  BY ZenonT(40), <1>2, <1>3, <2>1, <2>2
  <1>7. CASE \E s \in Session : Run(s) \/ Lost(s)
    BY ZenonT(40), <1>3, <1>7 DEF SessionStep
  <1>. QED  BY ZenonT(40), <1>4, <1>5, <1>6, <1>7 DEF Next, Serve

----------------------------------------------------------------------------
(* Who acts, and where *)

Acts(s) == SessionStep(s) \/ StartStable(s)

(* A session acts, or sessions, stables and the DHT stay as they are. *)
LEMMA NextActs ==
    ASSUME Next
    PROVE  \/ \E s \in Session : Acts(s)
           \/ UNCHANGED <<ses, stables, dhts>>
  <1>1. CASE Serve \/ TimerClear
    BY <1>1, Zenon DEF Serve, ResultGet, CheckTmp, Buffered, Forward, Proceed, TimerClear, tables,
       tasks, Acts
  <1>2. CASE Environment
    <2>1. ASSUME NEW p \in Peer,
                 \/ IncomingRelay(p) \/ StableConnect(p) \/ StableDisconnect(p)
                 \/ \E ok, force \in BOOLEAN : StableResult(p, ok, force)
                 \/ \E s \in Session : RelayHandshakeAnswer(s, p)
          PROVE  UNCHANGED <<ses, stables, dhts>>
      BY ZenonT(40), <2>1 DEF IncomingRelay, StableConnect, StableDisconnect, StableResult,
         RelayHandshakeAnswer, Forward, Proceed, tables, tasks
    <2>2. \/ \E s \in Session : SessionStep(s)
          \/ \E p \in Peer :
                 \/ IncomingRelay(p) \/ StableConnect(p) \/ StableDisconnect(p)
                 \/ \E ok, force \in BOOLEAN : StableResult(p, ok, force)
                 \/ \E s \in Session : RelayHandshakeAnswer(s, p)
      BY <1>2 DEF Environment, SessionStep
    <2>. QED  BY <2>1, <2>2 DEF Acts
  <1>3. CASE \E s \in Session : Run(s) \/ Lost(s)
    BY <1>3 DEF SessionStep, Acts
  <1>. QED  BY <1>1, <1>2, <1>3 DEF Next

(* Sessions that are in a table keep their peer, whoever acts. *)
LEMMA NextKept ==
    ASSUME IInv, Next
    PROVE  Kept
  <1>1. ASSUME NEW s \in Session, Acts(s)
        PROVE  Kept
    BY ZenonT(40), <1>1, StepSessions, SessionsStart DEF Acts, IInv, RequestOK
  <1>2. CASE UNCHANGED <<ses, stables, dhts>>
    BY <1>2, SessionsStill DEF IInv
  <1>. QED  BY <1>1, <1>2, NextActs

(* The other sessions stay where they are, except that one of them may start
   or end a relayed handshake in its loop. *)
LEMMA ActsAlone ==
    ASSUME SessionsOK, Borrowed, NEW s \in Session, Acts(s), NEW t \in Session \ {s}
    PROVE  ses'[t].pc = ses[t].pc \/ (ses[t].pc \in Looping /\ ses'[t].pc \in Looping)
  <1>1. ASSUME NEW r, Becomes(s, r)
        PROVE  ses'[t].pc = ses[t].pc
    BY <1>1 DEF SessionsOK, Becomes
  <1>2. CASE RelaySpawn(s)
    <2>1. PICK v \in Session : v = ses[s].via
      BY <1>2 DEF RelaySpawn, SessionsOK
    <2>2. ses[s].pc = "rh_new" /\ ses[v].pc = "rh_add" /\ v # s
      BY ZenonT(40), <1>2, <2>1 DEF RelaySpawn, Borrowed
    <2>3. /\ ses'[v].pc = "run" /\ \A u \in Session \ {s, v} : ses'[u] = ses[u]
      BY ZenonT(40), <1>2, <2>1, <2>2 DEF RelaySpawn, SessionsOK, SessionState
    <2>. QED  BY <2>2, <2>3 DEF Looping
  <1>3. ASSUME NEW v \in Session, NEW q \in Peer, RelayHandshakeNew(v, q, s)
        PROVE  ses'[t].pc = ses[t].pc \/ (ses[t].pc \in Looping /\ ses'[t].pc \in Looping)
    <2>1. ses[s].pc = "none" /\ ses[v].pc = "run" /\ v # s
      BY <1>3, Zenon DEF RelayHandshakeNew
    <2>. DEFINE a == [ses[v] EXCEPT !.pc = "rh_add"]
    <2>2. ses' = [ses EXCEPT ![v] = a, ![s] = [@ EXCEPT !.pc = "rh_new", !.peer = q, !.via = v]]
      BY <1>3, Zenon DEF RelayHandshakeNew
    <2>3. a.pc = "rh_add"
      BY DEF SessionsOK, SessionState
    <2>. HIDE DEF a
    <2>4. ses'[v] = a /\ \A u \in Session \ {s, v} : ses'[u] = ses[u]
      BY <2>1, <2>2, Zenon DEF SessionsOK
    <2>. QED  BY ZenonT(40), <2>1, <2>3, <2>4 DEF Looping
  <1>4. CASE \/ DialRefused(s) \/ DialSilent(s) \/ DialFails(s) \/ EndpointClose(s)
             \/ CarrierGone(s) \/ StreamGone(s) \/ StartStable(s)
             \/ \E p \in Peer : IncomingDht(p, s) \/ DialAnswered(s, p)
    <2>1. \E r : Becomes(s, r)
      BY <1>4, ZenonT(40) DEF DialRefused, DialSilent, DialFails, EndpointClose, CarrierGone, StreamGone,
         StartStable, IncomingDht, DialAnswered, Exit, Goto, Ends
    <2>. QED  BY ZenonT(40), <1>1, <2>1
  <1>5. CASE Run(s) /\ ~RelaySpawn(s)
    <2>1. ASSUME \/ AddDht(s) \/ DirectAddTmp(s) \/ FallBack(s) \/ RelayAddTmp(s) \/ RelayConnect(s)
                 \/ RelayAnswer(s) \/ RelayTimeout(s) \/ RelayFails(s) \/ UpgradeTake(s) \/ UpgradeAdd(s)
                 \/ UpgradeDht(s) \/ UpgradeFails(s)
          PROVE  \E r : Becomes(s, r)
      BY <2>1, ZenonT(40) DEF AddDht, DirectAddTmp, FallBack, RelayAddTmp, RelayConnect, RelayAnswer,
         RelayTimeout, RelayFails, UpgradeTake, UpgradeAdd, UpgradeDht, UpgradeFails, Upgraded,
         Exit, Goto, Ends
    <2>2. CloseFalse(s) => \E r : Becomes(s, r)
      BY Zenon DEF CloseFalse, Goto
    <2>3. ASSUME \/ HandleStableConnect(s) \/ HandleStableResult(s) \/ HandleRelayResult(s)
                 \/ HandleClose(s) \/ HandleDirectIncoming(s)
          PROVE  (\E r : Becomes(s, r)) \/ UNCHANGED ses
      BY <2>3, <2>2, ZenonT(40) DEF HandleStableConnect, HandleStableResult, HandleRelayResult, HandleClose,
         HandleDirectIncoming, Exit, Goto
    <2>4. ASSUME \/ CloseStableBuffer(s) \/ CloseStableList(s) \/ CloseTmpBuffer(s) \/ CloseTmpList(s)
                 \/ CloseRelay(s) \/ LeaveStable(s) \/ LeaveTmp(s) \/ LeaveDht(s)
          PROVE  \E r : Becomes(s, r)
      BY <2>4, ZenonT(40) DEF CloseStableBuffer, CloseStableList, CloseTmpBuffer, CloseTmpList, CloseRelay,
         LeaveStable, LeaveTmp, LeaveDht, Exit, Goto, Ends
    <2>5. (\E r : Becomes(s, r)) \/ UNCHANGED ses
      BY ZenonT(40), <1>5, <2>1, <2>3, <2>4 DEF Run
    <2>. QED  BY <1>1, <2>5
  <1>. QED  BY ZenonT(40), <1>2, <1>3, <1>4, <1>5 DEF Acts, SessionStep, Lost

(* The places from which a session leaves the DHT, is listed, or learns where
   to send. *)
LEMMA ActsWhere ==
    ASSUME NEW s \in Session, Acts(s)
    PROVE  /\ ses[s].pc = "up_list" => UpgradeAdd(s) \/ UpgradeDht(s) \/ UpgradeFails(s)
           /\ ses[s].pc = "ct_list" => LeaveDht(s)
           /\ ses[s].pc = "rs_wait" => RelayAnswer(s) \/ RelayTimeout(s)
           /\ ses[s].pc = "none" =>
                 \/ StartStable(s)
                 \/ \E p \in Peer : IncomingDht(p, s) \/ \E r \in Session : RelayHandshakeNew(r, p, s)
  <1>. DEFINE Elsewhere == ses[s].pc \notin {"up_list", "ct_list", "rs_wait", "none"}
  <1>1. ASSUME \/ DialRefused(s) \/ DialSilent(s) \/ DialFails(s) \/ EndpointClose(s)
               \/ CarrierGone(s) \/ StreamGone(s) \/ (\E p \in Peer : DialAnswered(s, p))
        PROVE  Elsewhere
    BY <1>1, ZenonT(40) DEF DialRefused, DialSilent, DialFails, EndpointClose, CarrierGone, StreamGone, DialAnswered
  <1>2. ASSUME \/ AddDht(s) \/ DirectAddTmp(s) \/ FallBack(s) \/ RelayAddTmp(s) \/ RelayConnect(s)
               \/ RelayFails(s) \/ UpgradeTake(s) \/ RelaySpawn(s)
        PROVE  Elsewhere
    BY <1>2, ZenonT(40) DEF AddDht, DirectAddTmp, FallBack, RelayAddTmp, RelayConnect, RelayFails, UpgradeTake,
       RelaySpawn
  <1>3. ASSUME \/ HandleStableConnect(s) \/ HandleStableResult(s) \/ HandleRelayResult(s)
               \/ HandleClose(s) \/ HandleDirectIncoming(s)
        PROVE  Elsewhere
    BY <1>3, ZenonT(40) DEF HandleStableConnect, HandleStableResult, HandleRelayResult, HandleClose,
       HandleDirectIncoming, Take
  <1>4. ASSUME \/ CloseStableBuffer(s) \/ CloseStableList(s) \/ CloseTmpBuffer(s) \/ CloseTmpList(s)
               \/ CloseRelay(s) \/ LeaveStable(s) \/ LeaveTmp(s)
        PROVE  Elsewhere
    BY <1>4, ZenonT(40) DEF CloseStableBuffer, CloseStableList, CloseTmpBuffer, CloseTmpList, CloseRelay,
       LeaveStable, LeaveTmp
  <1>5. (RelayAnswer(s) \/ RelayTimeout(s) => ses[s].pc = "rs_wait")
        /\ (UpgradeAdd(s) \/ UpgradeDht(s) \/ UpgradeFails(s) => ses[s].pc = "up_list")
        /\ (LeaveDht(s) => ses[s].pc = "ct_list")
    BY ZenonT(40) DEF RelayAnswer, RelayTimeout, UpgradeAdd, UpgradeDht, UpgradeFails, LeaveDht
  <1>6. (StartStable(s) \/ (\E p \in Peer : IncomingDht(p, s) \/ \E r \in Session : RelayHandshakeNew(r, p, s)))
            => ses[s].pc = "none"
    BY ZenonT(40) DEF StartStable, IncomingDht, RelayHandshakeNew
  <1>7. Elsewhere => ses[s].pc # "up_list" /\ ses[s].pc # "ct_list" /\ ses[s].pc # "rs_wait"
                     /\ ses[s].pc # "none"
    BY ZenonT(40)
  <1>. HIDE DEF Elsewhere
  <1>. QED  BY ZenonT(40), <1>1, <1>2, <1>3, <1>4, <1>5, <1>6, <1>7 DEF Acts, SessionStep, Run, Lost

(* The steps that change stables or the DHT. *)
LEMMA ActsTables ==
    ASSUME NEW s \in Session, Acts(s)
    PROVE  /\ UNCHANGED stables \/ UpgradeAdd(s) \/ UpgradeDht(s) \/ CloseStableList(s)
              \/ LeaveStable(s)
           /\ UNCHANGED dhts \/ AddDht(s) \/ UpgradeDht(s) \/ CloseStableList(s)
              \/ CloseTmpList(s) \/ LeaveDht(s)
  <1>1. ASSUME \/ DialRefused(s) \/ DialSilent(s) \/ DialFails(s) \/ EndpointClose(s)
               \/ CarrierGone(s) \/ StreamGone(s) \/ StartStable(s)
               \/ \E p \in Peer : \/ IncomingDht(p, s) \/ DialAnswered(s, p)
                                  \/ \E r \in Session : RelayHandshakeNew(r, p, s)
        PROVE  UNCHANGED <<stables, dhts>>
    BY <1>1, ZenonT(40) DEF DialRefused, DialSilent, DialFails, EndpointClose, CarrierGone, StreamGone,
       StartStable, IncomingDht, DialAnswered, RelayHandshakeNew, tables
  <1>2. ASSUME \/ DirectAddTmp(s) \/ FallBack(s) \/ RelayAddTmp(s) \/ RelayConnect(s)
               \/ RelayAnswer(s) \/ RelayTimeout(s) \/ RelayFails(s) \/ UpgradeTake(s)
               \/ UpgradeFails(s) \/ RelaySpawn(s)
        PROVE  UNCHANGED <<stables, dhts>>
    BY ZenonT(40), <1>2 DEF DirectAddTmp, FallBack, RelayAddTmp, RelayConnect, RelayAnswer, RelayTimeout,
       RelayFails, UpgradeTake, UpgradeFails, RelaySpawn, tables
  <1>3. ASSUME \/ HandleStableConnect(s) \/ HandleStableResult(s) \/ HandleRelayResult(s)
               \/ HandleClose(s) \/ HandleDirectIncoming(s)
        PROVE  UNCHANGED <<stables, dhts>>
    BY ZenonT(40), <1>3 DEF HandleStableConnect, HandleStableResult, HandleRelayResult, HandleClose,
       HandleDirectIncoming, CloseFalse, tables
  <1>4. ASSUME CloseStableBuffer(s) \/ CloseTmpBuffer(s) \/ CloseRelay(s) \/ LeaveTmp(s)
        PROVE  UNCHANGED <<stables, dhts>>
    BY <1>4, ZenonT(40) DEF CloseStableBuffer, CloseTmpBuffer, CloseRelay, LeaveTmp
  <1>5. /\ AddDht(s) \/ CloseTmpList(s) \/ LeaveDht(s) => UNCHANGED stables
        /\ UpgradeAdd(s) \/ LeaveStable(s) => UNCHANGED dhts
    BY ZenonT(40) DEF AddDht, CloseTmpList, LeaveDht, UpgradeAdd, LeaveStable
  <1>. QED  BY ZenonT(40), <1>1, <1>2, <1>3, <1>4, <1>5 DEF Acts, SessionStep, Run, Lost

----------------------------------------------------------------------------
(* The only session of a stable peer is the one listed *)

(* No other session with the peer has been in a table. *)
Sole(s) == \A t \in Session \ {s} : ses[t].peer = ses[s].peer => ses[t].pc \in Early

Listed ==
    \A s \in Session : ses[s].pc \in Looping /\ ses[s].stable /\ Sole(s) =>
        ses[s].peer \in DOMAIN stables /\ stables[ses[s].peer].s = s

(* An entry of stables is changed only by a session of its peer that upgrades
   or closes. *)
LEMMA EntryChanged ==
    ASSUME NEW s \in Session, Acts(s), NEW p \in DOMAIN stables,
           ~(p \in DOMAIN stables' /\ stables'[p] = stables[p])
    PROVE  ses[s].peer = p /\ ses[s].pc \in {"up_list", "cf_stable2", "ct"}
  <1>1. CASE UpgradeAdd(s)
    <2>1. stables' = Put(stables, ses[s].peer, hold[s]) /\ ses[s].pc = "up_list"
      BY ZenonT(40), <1>1 DEF UpgradeAdd
    <2>. QED  BY <2>1 DEF Put, D!Put
  <1>2. CASE UpgradeDht(s)
    <2>1. /\ stables' = Put(stables, ses[s].peer, [s |-> dhts[ses[s].peer], direct |-> TRUE])
          /\ ses[s].pc = "up_list"
      BY ZenonT(40), <1>2 DEF UpgradeDht
    <2>. DEFINE e == [s |-> dhts[ses[s].peer], direct |-> TRUE]
    <2>2. stables' = Put(stables, ses[s].peer, e)
      BY <2>1
    <2>. HIDE DEF e
    <2>. QED  BY <2>1, <2>2 DEF Put, D!Put
  <1>3. CASE CloseStableList(s) \/ LeaveStable(s)
    <2>1. stables' = Drop(stables, ses[s].peer) /\ ses[s].pc \in {"cf_stable2", "ct"}
      BY ZenonT(40), <1>3 DEF CloseStableList, LeaveStable
    <2>. QED  BY <2>1 DEF Drop, D!Drop, D!Restrict
  <1>. QED  BY ZenonT(40), <1>1, <1>2, <1>3, ActsTables

(* An upgrade that succeeds lists a session of the peer. *)
LEMMA UpgradeLists ==
    ASSUME SessionsOK, Owned, NEW s \in Session, UpgradeAdd(s) \/ UpgradeDht(s)
    PROVE  LET p == ses[s].peer
           IN  /\ p \in DOMAIN stables' /\ stables'[p].s \in Session
               /\ ses[stables'[p].s].pc \notin Early /\ ses[stables'[p].s].peer = p
  <1>. DEFINE p == ses[s].peer
  <1>1. CASE UpgradeAdd(s)
    <2>1. stables' = Put(stables, p, hold[s]) /\ hold[s] # Nobody
      BY <1>1, Zenon DEF UpgradeAdd
    <2>2. hold[s].s \in Session
      BY ZenonT(40), <2>1 DEF Owned, TablesOK
    <2>3. ses[hold[s].s].pc \notin Early /\ ses[hold[s].s].peer = p
      BY ZenonT(40), <2>1 DEF Owned, Linked, Rightful
    <2>4. p \in DOMAIN stables' /\ stables'[p] = hold[s]
      BY ZenonT(40), <2>1 DEF Put, D!Put
    <2>. QED  BY <2>2, <2>3, <2>4
  <1>2. CASE UpgradeDht(s)
    <2>. DEFINE e == [s |-> dhts[p], direct |-> TRUE]
    <2>1. stables' = Put(stables, p, e) /\ p \in DOMAIN dhts
      BY ZenonT(40), <1>2 DEF UpgradeDht
    <2>2. e.s = dhts[p] /\ dhts[p] \in Session
      BY ZenonT(40), <2>1 DEF Owned, TablesOK, Partial
    <2>3. ses[dhts[p]].pc \notin Early /\ ses[dhts[p]].peer = p
      BY ZenonT(40), <2>1 DEF Owned, Linked, Rightful
    <2>. HIDE DEF e
    <2>4. p \in DOMAIN stables' /\ stables'[p] = e
      BY ZenonT(40), <2>1 DEF Put, D!Put
    <2>. QED  BY ZenonT(40), <2>2, <2>3, <2>4
  <1>. QED  BY ZenonT(40), <1>1, <1>2

(* Every step of the node keeps it. *)
LEMMA ListedNext ==
    ASSUME IInv, Settled, Listed, Next
    PROVE  Listed'
  <1>. SessionsOK /\ Owned /\ Borrowed
    BY DEF IInv, Settled
  <1>0. Kept /\ AllMove
    BY ZenonT(40), NextKept, MoveNext
  <1>. SUFFICES ASSUME NEW s \in Session, ses'[s].pc \in Looping, ses'[s].stable, Sole(s)'
                PROVE  ses'[s].peer \in DOMAIN stables' /\ stables'[ses'[s].peer].s = s
    BY DEF Listed
  <1>1. Moves(ses[s], ses'[s])
    BY ZenonT(40), <1>0 DEF AllMove
  <1>2. ses[s].pc = "up_list" \/ (ses[s].pc \in Looping /\ ses[s].stable)
    BY ZenonT(40), <1>1 DEF Moves
  <1>3. ses'[s].peer = ses[s].peer
    BY ZenonT(40), <1>0, <1>2 DEF Kept, Follows, Early, Looping
  <1>4. \A t \in Session \ {s} : ses[t].peer = ses[s].peer => ses[t].pc \in Early
    BY ZenonT(40), <1>0, <1>3 DEF Sole, Kept, Follows
  <1>5. CASE ses[s].pc = "up_list"
    <2>1. PICK u \in Session : Acts(u)
      BY ZenonT(40), <1>5, NextActs DEF Looping
    <2>2. u = s
      BY ZenonT(40), <1>5, <2>1, ActsAlone DEF Looping
    <2>3. UpgradeAdd(s) \/ UpgradeDht(s) \/ UpgradeFails(s)
      BY ZenonT(40), <1>5, <2>1, <2>2, ActsWhere
    <2>4. ~UpgradeFails(s)
      <3>1. ASSUME UpgradeFails(s) PROVE ses'[s].pc \in {"ct", "dead"}
        <4>1. Becomes(s, [ses[s] EXCEPT !.pc = "ct"]) \/ Becomes(s, Over(s))
          BY <3>1, Zenon DEF UpgradeFails, Exit, Goto, Ends
        <4>2. [ses[s] EXCEPT !.pc = "ct"].pc = "ct" /\ Over(s).pc = "dead"
          BY DEF SessionsOK, SessionState, Over, Unborn
        <4>3. ses'[s] = [ses[s] EXCEPT !.pc = "ct"] \/ ses'[s] = Over(s)
          BY ZenonT(40), <4>1 DEF SessionsOK, Becomes
        <4>. QED  BY ZenonT(40), <4>2, <4>3
      <3>. QED  BY <3>1 DEF Looping
    <2>5. LET p == ses[s].peer
          IN  /\ p \in DOMAIN stables' /\ stables'[p].s \in Session
              /\ ses[stables'[p].s].pc \notin Early /\ ses[stables'[p].s].peer = p
      BY ZenonT(40), <2>3, <2>4, UpgradeLists
    <2>. QED  BY ZenonT(40), <1>3, <1>4, <2>5
  <1>6. CASE ses[s].pc \in Looping /\ ses[s].stable
    <2>1. ses[s].peer \in DOMAIN stables /\ stables[ses[s].peer].s = s
      BY <1>4, <1>6 DEF Listed, Sole
    <2>2. ASSUME NEW u \in Session, Acts(u)
          PROVE  ses[s].peer \in DOMAIN stables' /\ stables'[ses[s].peer] = stables[ses[s].peer]
      <3>1. ~(ses[u].peer = ses[s].peer /\ ses[u].pc \in {"up_list", "cf_stable2", "ct"})
        BY ZenonT(40), <1>4, <1>6 DEF Looping, Early
      <3>. QED  BY ZenonT(40), <2>1, <2>2, <3>1, EntryChanged
    <2>3. CASE UNCHANGED <<ses, stables, dhts>>
      BY <1>3, <2>1, <2>3
    <2>. QED  BY ZenonT(40), <1>3, <2>1, <2>2, <2>3, NextActs
  <1>. QED  BY ZenonT(40), <1>2, <1>5, <1>6

(* While it is the only session with its peer, a stable session in its loop is
   the one stables answers with. *)
THEOREM SoleStableListed == Spec => []StableListed
  <1>1. Init => Settled /\ Listed
    BY DEF Init, Settled, AllPlain, Plain, Borrowed, Listed, Unborn, Looping
  <1>2. IInv /\ Settled /\ Listed /\ [Next]_vars => Settled' /\ Listed'
    <2>1. ASSUME Settled, Listed, UNCHANGED vars
          PROVE  Settled' /\ Listed'
      BY ZenonT(40), <2>1 DEF Settled, AllPlain, Plain, Borrowed, Listed, Sole, vars, tables, tasks
    <2>. QED  BY ZenonT(40), <2>1, MoveNext, ListedNext
  <1>3. Listed => StableListed
    BY ZenonT(40) DEF Listed, StableListed, Sole, Alone, Looping
  <1>. QED  BY <1>1, <1>2, <1>3, Invariance, PTL DEF Spec

----------------------------------------------------------------------------
(* What is over does not stay in the DHT *)

Leaving(p) ==
    \E t \in Session : /\ ses[t].peer = p /\ ses[t].pc \notin Early
                       /\ \/ ses[t].told > 0
                          \/ ses[t].pc \in Going /\ ~ses[t].stable /\ ses[t].direct

DeadLeaves == \A p \in DOMAIN dhts : ses[dhts[p]].pc = "dead" => Leaving(p)

(* A new entry of the DHT is that of a session that starts, or is put there by
   a session of the peer that is closing. *)
LEMMA EntryNew ==
    ASSUME SessionsOK, Owned, AllPlain, NEW s \in Session, Acts(s), Kept, AllMove,
           NEW p \in DOMAIN dhts', ~(p \in DOMAIN dhts /\ dhts'[p] = dhts[p])
    PROVE  ses'[dhts'[p]].pc # "dead" \/ Leaving(p)'
  <1>0. Partial(dhts, Peer, Session) /\ Plain(ses[s]) /\ Moves(ses[s], ses'[s])
        /\ ses[s] \in SessionState
    BY ZenonT(40) DEF Owned, TablesOK, AllPlain, AllMove, SessionsOK
  <1>1. CASE AddDht(s)
    <2>1. PICK q \in Peer : q = ses[s].peer
      BY <1>1 DEF AddDht, SessionsOK
    <2>2. PICK o \in D!AddOutcome(dhts, q, s) :
              /\ dhts' = o.table
              /\ \/ o.ok /\ Becomes(s, [ses[s] EXCEPT !.pc = "run", !.direct = TRUE, !.listening = TRUE])
                 \/ ~o.ok
      BY ZenonT(40), <1>1, <2>1 DEF AddDht
    <2>3. \A x \in DOMAIN dhts' : (x = q /\ dhts'[x] = s) \/ (x \in DOMAIN dhts /\ dhts'[x] = dhts[x])
      BY SMTT(40), <1>0, <2>2, AddFacts
    <2>4. ~o.ok => dhts' = dhts
      BY SMTT(40), <1>0, <2>2, AddFacts
    <2>5. dhts'[p] = s /\ o.ok
      BY <2>3, <2>4
    <2>. DEFINE r == [ses[s] EXCEPT !.pc = "run", !.direct = TRUE, !.listening = TRUE]
    <2>6. r.pc = "run"
      BY <1>0 DEF SessionState
    <2>7. Becomes(s, r)
      BY ZenonT(40), <2>2, <2>5
    <2>. HIDE DEF r
    <2>8. ses'[s] = r
      BY ZenonT(40), <2>7 DEF Becomes, SessionsOK
    <2>. QED  BY ZenonT(40), <2>5, <2>6, <2>8
  <1>2. CASE UpgradeDht(s)
    <2>1. dhts' = Drop(dhts, ses[s].peer)
      BY <1>2, Zenon DEF UpgradeDht
    <2>. QED  BY <2>1 DEF Drop, D!Drop, D!Restrict
  <1>3. CASE LeaveDht(s)
    <2>1. dhts' = Drop(dhts, ses[s].peer)
      BY ZenonT(40), <1>3 DEF LeaveDht
    <2>. QED  BY <2>1 DEF Drop, D!Drop, D!Restrict
  <1>4. CASE CloseStableList(s)
    <2>1. ses[s].pc = "cf_stable2" /\ Goto(s, "ct")
      BY ZenonT(40), <1>4 DEF CloseStableList, Exit
    <2>2. ses'[s].told > 0
      BY ZenonT(40), <1>0, <2>1 DEF Plain, Moves
    <2>3. ses'[s].peer = ses[s].peer /\ ses'[s].pc \notin Early
      BY <2>1 DEF Kept, Follows, Early
    <2>4. p = ses[s].peer
      <3>1. PICK q \in Peer : q = ses[s].peer
        BY <2>1 DEF SessionsOK
      <3>2. dhts' # dhts
        OBVIOUS
      <3>3. q \in DOMAIN stables /\ \E o \in D!AddOutcome(dhts, q, stables[q].s) : dhts' = o.table
        BY <1>4, <3>1, <3>2, Zenon DEF CloseStableList
      <3>4. PICK v \in Session : \E o \in D!AddOutcome(dhts, q, v) : dhts' = o.table
        BY ZenonT(40), <3>3 DEF Owned, TablesOK, Partial
      <3>5. \A x \in DOMAIN dhts' : (x = q /\ dhts'[x] = v) \/ (x \in DOMAIN dhts /\ dhts'[x] = dhts[x])
        BY SMTT(40), <1>0, <3>4, AddFacts
      <3>. QED  BY ZenonT(40), <3>1, <3>5
    <2>. QED  BY <2>2, <2>3, <2>4 DEF Leaving
  <1>5. CASE CloseTmpList(s)
    <2>1. ses[s].pc = "cf_tmp2" /\ Goto(s, "ct")
      BY <1>5, Zenon DEF CloseTmpList, Exit
    <2>. DEFINE r == [ses[s] EXCEPT !.pc = "ct"]
    <2>2. r.pc = "ct" /\ r.stable = ses[s].stable /\ r.direct = ses[s].direct /\ r.peer = ses[s].peer
      BY <1>0 DEF SessionState
    <2>3. ses' = [ses EXCEPT ![s] = r]
      BY <2>1 DEF Goto, Becomes
    <2>. HIDE DEF r
    <2>4. ses'[s] = r
      BY ZenonT(40), <2>3 DEF SessionsOK
    <2>5. p = ses[s].peer
      <3>1. PICK q \in Peer : q = ses[s].peer
        BY <2>1 DEF SessionsOK
      <3>2. dhts' # dhts
        OBVIOUS
      <3>3. hold[s] # Nobody /\ \E o \in D!AddOutcome(dhts, q, hold[s].s) : dhts' = o.table
        BY ZenonT(40), <1>5, <3>1, <3>2 DEF CloseTmpList
      <3>4. hold[s].s \in Session
        BY <3>3 DEF Owned, TablesOK
      <3>5. PICK v \in Session : \E o \in D!AddOutcome(dhts, q, v) : dhts' = o.table
        BY ZenonT(40), <3>3, <3>4
      <3>6. \A x \in DOMAIN dhts' : (x = q /\ dhts'[x] = v) \/ (x \in DOMAIN dhts /\ dhts'[x] = dhts[x])
        BY <1>0, <3>5, AddFacts
      <3>. QED  BY <3>1, <3>6
    <2>6. Leaving(p)'
      BY ZenonT(40), <1>0, <2>1, <2>2, <2>4, <2>5 DEF Leaving, Plain, Going, Early
    <2>. QED  BY <2>6
  <1>6. CASE UNCHANGED dhts
    BY ZenonT(40), <1>6
  <1>. QED  BY ZenonT(40), <1>1, <1>2, <1>3, <1>4, <1>5, <1>6, ActsTables

(* A session that ends from ct_list or up_list leaves no entry of its peer. *)
LEMMA EntryGone ==
    ASSUME SessionsOK, Borrowed, Next, NEW t \in Session,
           ses[t].pc \in {"ct_list", "up_list"}, ses'[t].pc = "dead"
    PROVE  ses[t].peer \notin DOMAIN dhts'
  <1>1. PICK u \in Session : Acts(u)
    BY NextActs
  <1>2. u = t
    BY ZenonT(40), <1>1, ActsAlone DEF Looping
  <1>3. CASE LeaveDht(t)
    <2>1. dhts' = Drop(dhts, ses[t].peer)
      BY <1>3, Zenon DEF LeaveDht
    <2>. QED  BY <2>1 DEF Drop, D!Drop, D!Restrict
  <1>4. CASE UpgradeFails(t)
    BY <1>4, Zenon DEF UpgradeFails, tables
  <1>5. CASE UpgradeAdd(t) \/ UpgradeDht(t)
    <2>. DEFINE r1 == [ses[t] EXCEPT !.pc = "run", !.listening = TRUE]
                r2 == [ses[t] EXCEPT !.pc = "ct"]
    <2>1. Becomes(t, r1) \/ Becomes(t, r2)
      BY <1>5, Zenon DEF UpgradeAdd, UpgradeDht, Upgraded, Goto
    <2>2. r1.pc = "run" /\ r2.pc = "ct"
      BY DEF SessionsOK, SessionState
    <2>. HIDE DEF r1, r2
    <2>3. ses'[t] = r1 \/ ses'[t] = r2
      BY <2>1, Zenon DEF SessionsOK, Becomes
    <2>. QED  BY <2>2, <2>3
  <1>. QED  BY ZenonT(40), <1>1, <1>2, <1>3, <1>4, <1>5, ActsWhere

(* Every step of the node keeps it. *)
LEMMA LeavesNext ==
    ASSUME IInv, Settled, DeadLeaves, Next
    PROVE  DeadLeaves'
  <1>. SessionsOK /\ Owned /\ Borrowed /\ AllPlain
    BY DEF IInv, Settled
  <1>0. Kept /\ AllMove
    BY NextKept, MoveNext
  <1>. SUFFICES ASSUME NEW p \in DOMAIN dhts', ses'[dhts'[p]].pc = "dead"
                PROVE  Leaving(p)'
    BY DEF DeadLeaves
  <1>1. CASE p \in DOMAIN dhts /\ dhts'[p] = dhts[p]
    <2>1. PICK d \in Session : d = dhts[p]
      BY <1>1 DEF Owned, TablesOK, Partial
    <2>2. ses[d].pc \notin Early /\ ses[d].peer = p /\ ses[d].direct
      BY ZenonT(40), <1>1, <2>1 DEF Owned, Linked, Rightful
    <2>3. CASE ses[d].pc = "dead"
      <3>1. PICK t \in Session :
               /\ ses[t].peer = p /\ ses[t].pc \notin Early
               /\ ses[t].told > 0 \/ (ses[t].pc \in Going /\ ~ses[t].stable /\ ses[t].direct)
        BY ZenonT(40), <1>1, <2>1, <2>3 DEF DeadLeaves, Leaving
      <3>2. ses'[t].peer = p /\ ses'[t].pc \notin Early
        BY ZenonT(40), <1>0, <3>1 DEF Kept, Follows
      <3>3. ~(ses[t].pc = "ct_list" /\ ses'[t].pc = "dead")
        BY ZenonT(40), <3>1, EntryGone
      <3>4. Moves(ses[t], ses'[t])
        BY ZenonT(40), <1>0 DEF AllMove
      <3>5. ses'[t].told > 0 \/ (ses'[t].pc \in Going /\ ~ses'[t].stable /\ ses'[t].direct)
        BY ZenonT(40), <3>1, <3>3, <3>4 DEF Moves
      <3>. QED  BY ZenonT(40), <3>2, <3>5 DEF Leaving
    <2>4. CASE ses[d].pc # "dead"
      <3>1. Moves(ses[d], ses'[d]) /\ ses'[d].pc = "dead"
        BY ZenonT(40), <1>0, <1>1, <2>1 DEF AllMove
      <3>2. ses[d].pc \notin {"ct_list", "up_list"}
        BY ZenonT(40), <2>2, <3>1, EntryGone
      <3>3. ses'[d].told > 0
        BY ZenonT(40), <2>2, <2>4, <3>1, <3>2 DEF Moves
      <3>4. ses'[d].peer = p /\ ses'[d].pc \notin Early
        BY <1>0, <2>2 DEF Kept, Follows
      <3>. QED  BY ZenonT(40), <3>3, <3>4 DEF Leaving
    <2>. QED  BY ZenonT(40), <2>3, <2>4
  <1>2. CASE ~(p \in DOMAIN dhts /\ dhts'[p] = dhts[p])
    <2>1. PICK u \in Session : Acts(u)
      BY ZenonT(40), <1>2, NextActs
    <2>. QED  BY ZenonT(40), <1>0, <1>2, <2>1, EntryNew
  <1>. QED  BY <1>1, <1>2

(* An entry of the DHT whose session is over is about to be removed by a
   session of the same peer, unless a stable session closed on the peer. *)
THEOREM UnstableLeaves == Spec => []UnstableGone
  <1>1. Init => Settled /\ DeadLeaves
    BY SMTT(40) DEF Init, Settled, AllPlain, Plain, Borrowed, DeadLeaves, Unborn
  <1>2. IInv /\ Settled /\ DeadLeaves /\ [Next]_vars => Settled' /\ DeadLeaves'
    <2>1. ASSUME Settled, DeadLeaves, UNCHANGED vars
          PROVE  Settled' /\ DeadLeaves'
      BY <2>1 DEF Settled, AllPlain, Plain, Borrowed, DeadLeaves, Leaving, vars, tables, tasks
    <2>. QED  BY <2>1, MoveNext, LeavesNext
  <1>3. DeadLeaves => UnstableGone
    BY DEF DeadLeaves, UnstableGone, Leaving, Going
  <1>. QED  BY <1>1, <1>2, <1>3, Invariance, PTL DEF Spec

----------------------------------------------------------------------------
(* What the inboxes hold *)

Holds(q, m) == \E i \in 1 .. Len(q) : q[i] = m

(* Reading from an inbox and writing to it. *)
LEMMA HoldsFacts ==
    ASSUME NEW q \in Seq(Message), NEW x
    PROVE  /\ ~Holds(<<>>, x)
           /\ q # <<>> => Holds(q, Head(q))
           /\ q # <<>> /\ Holds(Tail(q), x) => Holds(q, x)
           /\ \A m \in Message : Holds(Append(q, m), x) => Holds(q, x) \/ x = m
  <1>1. ~Holds(<<>>, x)
    BY DEF Holds
  <1>2. q # <<>> => Holds(q, Head(q))
    <2>1. q # <<>> => Len(q) \in Nat /\ Len(q) >= 1 /\ Head(q) = q[1]
      OBVIOUS
    <2>. QED  BY <2>1 DEF Holds
  <1>3. ASSUME q # <<>>, Holds(Tail(q), x)
        PROVE  Holds(q, x)
    <2>1. PICK i \in 1 .. Len(Tail(q)) : Tail(q)[i] = x
      BY <1>3 DEF Holds
    <2>2. i + 1 \in 1 .. Len(q) /\ q[i + 1] = x
      BY <1>3, <2>1
    <2>. QED  BY <2>2 DEF Holds
  <1>4. ASSUME NEW m \in Message, Holds(Append(q, m), x)
        PROVE  Holds(q, x) \/ x = m
    <2>1. PICK i \in 1 .. Len(Append(q, m)) : Append(q, m)[i] = x
      BY <1>4 DEF Holds
    <2>2. i \in 1 .. Len(q) + 1 /\ (i \in 1 .. Len(q) => q[i] = x) /\ (i = Len(q) + 1 => x = m)
      BY <2>1
    <2>3. i \in 1 .. Len(q) \/ i = Len(q) + 1
      BY <2>2
    <2>. QED  BY <2>2, <2>3 DEF Holds
  <1>. QED  BY ZenonT(40), <1>1, <1>2, <1>3, <1>4

(* A direct session with another peer, which has got past its start. *)
Carrier(v, p) ==
    v \in Session /\ ses[v].pc \notin Early /\ ses[v].direct /\ ses[v].peer # p

(* A message for a session in a table; the answer to a relayed handshake names
   the session it came through. *)
Sound(s, m) ==
    /\ ses[s].pc \notin Early
    /\ m.type = "RelayResult" => Carrier(m.via, ses[s].peer)

Heard == \A s \in Session : \A m \in Message : Holds(inbox[s], m) => Sound(s, m)

(* What is new in an inbox is sound. *)
Gets == \A s \in Session : \A m \in Message : Holds(inbox'[s], m) => Holds(inbox[s], m) \/ Sound(s, m)

(* A carrier stays one. *)
LEMMA CarrierKept ==
    ASSUME Kept, NEW v, NEW p, Carrier(v, p)
    PROVE  Carrier(v, p)'
  BY DEF Kept, Follows, Carrier

(* What is sound stays so. *)
LEMMA HeardKept ==
    ASSUME Kept, Heard, Gets
    PROVE  Heard'
  <1>1. ASSUME NEW s \in Session, NEW m \in Message, Sound(s, m)
        PROVE  Sound(s, m)'
    BY <1>1, CarrierKept DEF Sound, Kept, Follows
  <1>. QED  BY ZenonT(40), <1>1 DEF Heard, Gets

(* A task reads its inbox, or drops it. *)
LEMMA LessGets ==
    ASSUME InboxOK, NEW s \in Session, Less(s)
    PROVE  Gets
  <1>. SUFFICES ASSUME NEW t \in Session, NEW m \in Message, Holds(inbox'[t], m)
                PROVE  Holds(inbox[t], m)
    BY DEF Gets
  <1>1. PICK q \in Seq(Message) : q = inbox[s]
    BY DEF InboxOK
  <1>2. \/ inbox'[t] = inbox[t]
        \/ t = s /\ inbox'[t] = <<>>
        \/ t = s /\ q # <<>> /\ inbox'[t] = Tail(q)
    <2>1. CASE UNCHANGED inbox
      BY <2>1
    <2>2. CASE inbox' = [inbox EXCEPT ![s] = <<>>]
      BY <2>2, Zenon DEF InboxOK
    <2>3. CASE inbox[s] # <<>> /\ inbox' = [inbox EXCEPT ![s] = Tail(inbox[s])]
      BY ZenonT(40), <1>1, <2>3 DEF InboxOK
    <2>. QED  BY ZenonT(40), <2>1, <2>2, <2>3 DEF Less
  <1>3. ~Holds(<<>>, m) /\ (q # <<>> /\ Holds(Tail(q), m) => Holds(q, m))
    BY HoldsFacts
  <1>. QED  BY ZenonT(40), <1>1, <1>2, <1>3

(* A sound message is sent. *)
LEMMA SendGets ==
    ASSUME InboxOK, NEW t \in Session, NEW x \in Message, Send(t, x), Sound(t, x)
    PROVE  Gets
  <1>. SUFFICES ASSUME NEW s \in Session, NEW m \in Message, Holds(inbox'[s], m)
                PROVE  Holds(inbox[s], m) \/ Sound(s, m)
    BY DEF Gets
  <1>1. PICK q \in Seq(Message) : q = inbox[t]
    BY DEF InboxOK
  <1>2. inbox'[s] = inbox[s] \/ (s = t /\ inbox'[s] = Append(q, x))
    BY ZenonT(40), <1>1 DEF InboxOK, Send
  <1>3. Holds(Append(q, x), m) => Holds(q, m) \/ m = x
    BY HoldsFacts
  <1>. QED  BY ZenonT(40), <1>1, <1>2, <1>3

(* timer_clear sends Close to sessions in tmps. *)
LEMMA TimerGets ==
    ASSUME InboxOK, TablesOK, Linked, TimerClear
    PROVE  Gets
  <1>. SUFFICES ASSUME NEW s \in Session, NEW m \in Message, Holds(inbox'[s], m)
                PROVE  Holds(inbox[s], m) \/ Sound(s, m)
    BY DEF Gets
  <1>. DEFINE told == {tmps[p].s : p \in {p \in DOMAIN tmps : tmps[p].marked}}
              x == Msg("Close")
  <1>1. x \in Message /\ x.type = "Close"
    BY DEF Msg, Message
  <1>2. inbox' = [t \in Session |-> IF t \in told /\ Open(t) THEN Append(inbox[t], x) ELSE inbox[t]]
    BY DEF TimerClear
  <1>3. ASSUME s \in told
        PROVE  ses[s].pc \notin Early
    <2>1. PICK p \in DOMAIN tmps : s = tmps[p].s
      BY <1>3
    <2>. QED  BY <2>1, Zenon DEF Linked, Rightful
  <1>. HIDE DEF told, x
  <1>4. PICK q \in Seq(Message) : q = inbox[s]
    BY DEF InboxOK
  <1>5. inbox'[s] = q \/ (s \in told /\ inbox'[s] = Append(q, x))
    BY <1>2, <1>4, Zenon
  <1>6. Holds(Append(q, x), m) => Holds(q, m) \/ m = x
    BY ZenonT(40), <1>1, HoldsFacts
  <1>7. s \in told => Sound(s, x)
    BY <1>1, <1>3 DEF Sound
  <1>. QED  BY ZenonT(40), <1>4, <1>5, <1>6, <1>7

(* add_stable sends Close to the session it replaces. *)
LEMMA UpgradeGets ==
    ASSUME InboxOK, TablesOK, Linked, NEW s \in Session, UpgradeAdd(s)
    PROVE  Gets
  <1>. SUFFICES ASSUME NEW t \in Session, NEW m \in Message, Holds(inbox'[t], m)
                PROVE  Holds(inbox[t], m) \/ Sound(t, m)
    BY DEF Gets
  <1>. DEFINE p == ses[s].peer
              old == stables[p].s
              x == Msg("Close")
              room == p \in DOMAIN stables /\ Open(old) /\ Len(inbox[old]) < CHANNEL
              q == IF room THEN [inbox EXCEPT ![old] = Append(inbox[old], x)] ELSE inbox
  <1>1. inbox' = q \/ inbox' = [q EXCEPT ![s] = <<>>]
    BY Zenon DEF UpgradeAdd, Upgraded
  <1>2. x \in Message /\ x.type = "Close"
    BY DEF Msg, Message
  <1>3. PICK b \in Seq(Message) : b = inbox[t]
    BY DEF InboxOK
  <1>4. DOMAIN q = Session /\ (q[t] = b \/ (room /\ t = old /\ q[t] = Append(b, x)))
    <2>1. CASE room
      <3>1. q = [inbox EXCEPT ![old] = Append(inbox[old], x)]
        BY <2>1
      <3>. HIDE DEF q, x, room, old
      <3>. QED  BY ZenonT(40), <1>3, <2>1, <3>1 DEF InboxOK
    <2>2. CASE ~room
      <3>1. q = inbox
        BY <2>2
      <3>. HIDE DEF q, room
      <3>. QED  BY ZenonT(40), <1>3, <3>1 DEF InboxOK
    <2>. QED  BY <2>1, <2>2, Zenon
  <1>5. room => ses[old].pc \notin Early
    BY Zenon DEF Linked, Rightful
  <1>. HIDE DEF q, x, room, old
  <1>6. inbox'[t] = q[t] \/ inbox'[t] = <<>>
    BY ZenonT(40), <1>1, <1>4
  <1>7. ~Holds(<<>>, m) /\ (Holds(Append(b, x), m) => Holds(b, m) \/ m = x)
    BY ZenonT(40), <1>2, HoldsFacts
  <1>8. room /\ t = old => Sound(t, x)
    BY <1>2, <1>5 DEF Sound
  <1>. QED  BY ZenonT(40), <1>3, <1>4, <1>6, <1>7, <1>8

(* The task of the requests passes on a message of the application. *)
LEMMA ForwardGets ==
    ASSUME InboxOK, NEW t \in Session, ses[t].pc \notin Early,
           NEW m \in Message, m.type # "RelayResult", Forward(t, m)
    PROVE  Gets
  <1>1. Sound(t, m)
    BY DEF Sound
  <1>. QED  BY <1>1, SendGets DEF Forward

(* PeerList::get answers for the peer itself with a session that has been in a
   table. *)
LEMMA GetRightful ==
    ASSUME TablesOK, Linked, NEW p, NEW g \in Get(p), g.is_it
    PROVE  g.s \in Session /\ ses[g.s].pc \notin Early
  <1>1. \/ p \in DOMAIN stables /\ g = [s |-> stables[p].s, is_it |-> TRUE]
        \/ p \in DOMAIN dhts /\ g = [s |-> dhts[p], is_it |-> TRUE]
        \/ \E v : g = [s |-> v, is_it |-> FALSE]
    <2>1. CASE p \in DOMAIN stables
      BY ZenonT(40), <2>1 DEF Get
    <2>2. CASE p \notin DOMAIN stables
      BY ZenonT(40), <2>2 DEF Get
    <2>. QED  BY ZenonT(40), <2>1, <2>2
  <1>2. \/ p \in DOMAIN stables /\ g.s = stables[p].s
        \/ p \in DOMAIN dhts /\ g.s = dhts[p]
    BY SMTT(40), <1>1
  <1>3. p \in DOMAIN stables => ses[stables[p].s].pc \notin Early
    BY Zenon DEF Linked, Rightful
  <1>4. p \in DOMAIN dhts => ses[dhts[p]].pc \notin Early
    BY Zenon DEF Linked, Rightful
  <1>5. g.s \in Session
    BY GetFacts
  <1>. QED  BY ZenonT(40), <1>2, <1>3, <1>4, <1>5

(* Every step sends sound messages only. *)
LEMMA GetsNext ==
    ASSUME IInv, Next
    PROVE  Gets
  <1>. InboxOK /\ TablesOK /\ Linked /\ OutsideOK
    BY DEF IInv, InboxesOK, Owned, RequestOK
  <1>1. ASSUME UNCHANGED inbox
        PROVE  Gets
    BY ZenonT(40), <1>1 DEF Gets
  <1>2. \A p \in DOMAIN tmps : tmps[p].s \in Session /\ ses[tmps[p].s].pc \notin Early
    <2>1. \A p \in DOMAIN tmps : tmps[p].s \in Session
      BY DEF TablesOK, Partial
    <2>2. \A p \in DOMAIN tmps : ses[tmps[p].s].pc \notin Early
      BY Zenon DEF Linked, Rightful
    <2>. QED  BY ZenonT(40), <2>1, <2>2
  <1>. DEFINE Fit(m) == m \in Message /\ m.type # "RelayResult"
  <1>3. \A ok, force \in BOOLEAN : Fit(Result(ok, force))
    BY Zenon DEF Result, Msg, Message
  <1>4. Fit(Msg("StableConnect")) /\ Fit(Msg("Close")) /\ Fit(Msg("DirectIncoming"))
    BY Zenon DEF Msg, Message
  <1>5. ASSUME NEW p, NEW g \in Get(p), g.is_it, NEW m, Fit(m), Forward(g.s, m)
        PROVE  Gets
    BY ZenonT(40), <1>5, GetRightful, ForwardGets
  <1>6. ASSUME NEW p \in DOMAIN tmps, NEW m, Fit(m), Forward(tmps[p].s, m)
        PROVE  Gets
    BY ZenonT(40), <1>2, <1>6, ForwardGets
  <1>7. outside.ok \in BOOLEAN /\ outside.force \in BOOLEAN
    BY DEF OutsideOK
  <1>. HIDE DEF Fit
  <1>8. ASSUME NEW o, Proceed(o)
        PROVE  Gets
    BY <1>1, <1>8 DEF Proceed, tasks
  <1>9. CASE ResultGet
    <2>1. Fit(Result(outside.ok, outside.force))
      BY <1>3, <1>7, Zenon
    <2>2. \/ \E g \in Get(outside.p) : g.is_it /\ Forward(g.s, Result(outside.ok, outside.force))
          \/ \E o : Proceed(o)
      BY <1>9, Zenon DEF ResultGet
    <2>. QED  BY <1>5, <1>8, <2>1, <2>2, Zenon
  <1>10. CASE CheckTmp
    <2>. DEFINE m == IF outside.op = "connect_tmp" THEN Msg("StableConnect")
                     ELSE Result(outside.ok, outside.force)
    <2>1. Fit(m)
      BY <1>3, <1>4, <1>7, Zenon
    <2>2. (outside.p \in DOMAIN tmps /\ Forward(tmps[outside.p].s, m)) \/ \E o : Proceed(o)
      BY <1>10, Zenon DEF CheckTmp
    <2>. HIDE DEF m
    <2>. QED  BY <1>6, <1>8, <2>1, <2>2, Zenon
  <1>11. CASE Buffered
    BY ZenonT(40), <1>8, <1>11 DEF Buffered
  <1>12. CASE TimerClear
    BY <1>12, TimerGets
  <1>13. ASSUME NEW s \in Session, SessionStep(s)
         PROVE  Gets
    BY ZenonT(40), <1>13, UpgradeGets, StepLess, LessGets
  <1>14. CASE \E s \in Session : StartStable(s)
    BY <1>1, <1>14 DEF StartStable
  <1>15. ASSUME NEW p \in Peer, StableConnect(p) \/ StableDisconnect(p)
         PROVE  Gets
    <2>1. \/ \E g \in Get(p) : g.is_it /\ (Forward(g.s, Msg("StableConnect")) \/ Forward(g.s, Msg("Close")))
          \/ \E o : Proceed(o)
      BY <1>15, Zenon DEF StableConnect, StableDisconnect
    <2>. QED  BY ZenonT(40), <1>4, <1>5, <1>8, <2>1
  <1>16. ASSUME NEW p \in Peer, NEW ok \in BOOLEAN, NEW force \in BOOLEAN, StableResult(p, ok, force)
         PROVE  Gets
    <2>1. (p \in DOMAIN tmps /\ Forward(tmps[p].s, Result(ok, force))) \/ \E o : Proceed(o)
      BY <1>16, Zenon DEF StableResult
    <2>. QED  BY ZenonT(40), <1>3, <1>6, <1>8, <2>1
  <1>17. ASSUME NEW p \in Peer, IncomingRelay(p)
         PROVE  Gets
    <2>1. p \in DOMAIN stables /\ Send(stables[p].s, Msg("DirectIncoming"))
      BY <1>17 DEF IncomingRelay
    <2>2. stables[p].s \in Session
      BY <2>1 DEF TablesOK, Partial
    <2>3. ses[stables[p].s].pc \notin Early
      BY ZenonT(40), <2>1 DEF Linked, Rightful
    <2>4. Sound(stables[p].s, Msg("DirectIncoming"))
      BY ZenonT(40), <1>4, <2>3 DEF Sound, Fit
    <2>. QED  BY ZenonT(40), <1>4, <2>1, <2>2, <2>4, SendGets DEF Fit
  <1>18. ASSUME NEW p \in Peer, NEW r \in Session, RelayHandshakeAnswer(r, p)
         PROVE  Gets
    <2>. DEFINE m == [Msg("RelayResult") EXCEPT !.via = r]
    <2>1. /\ p \in DOMAIN tmps /\ Send(tmps[p].s, m)
          /\ ses[r].pc = "run" /\ ses[r].direct /\ ses[r].peer # p
      BY <1>18 DEF RelayHandshakeAnswer
    <2>2. m \in Message /\ m.via = r
      BY Zenon DEF Msg, Message
    <2>. HIDE DEF m
    <2>3. tmps[p].s \in Session /\ ses[tmps[p].s].pc \notin Early /\ ses[tmps[p].s].peer = p
      BY <1>2, <2>1, Zenon DEF Linked, Rightful
    <2>4. Carrier(r, p)
      BY <2>1 DEF Carrier, Early
    <2>5. Sound(tmps[p].s, m)
      BY <2>2, <2>3, <2>4 DEF Sound
    <2>. QED  BY ZenonT(40), <2>1, <2>2, <2>3, <2>5, SendGets
  <1>19. CASE Environment
    <2>1. \/ \E s \in Session : SessionStep(s)
          \/ \E p \in Peer :
                 \/ IncomingRelay(p) \/ StableConnect(p) \/ StableDisconnect(p)
                 \/ \E ok, force \in BOOLEAN : StableResult(p, ok, force)
                 \/ \E s \in Session : RelayHandshakeAnswer(s, p)
      BY <1>19 DEF Environment, SessionStep
    <2>. QED  BY ZenonT(40), <1>13, <1>15, <1>16, <1>17, <1>18, <2>1
  <1>20. CASE \E s \in Session : Run(s) \/ Lost(s)
    BY ZenonT(40), <1>13, <1>20 DEF SessionStep
  <1>. QED  BY ZenonT(40), <1>9, <1>10, <1>11, <1>12, <1>14, <1>19, <1>20 DEF Next, Serve

----------------------------------------------------------------------------
(* A relayed session sends through a direct one *)

Carried ==
    \A s \in Session : ses[s].pc \in Riding /\ ~ses[s].direct => Carrier(ses[s].via, ses[s].peer)

(* A relayed session is taken up with the session its handshake came through. *)
LEMMA CarriedStart ==
    ASSUME SessionsOK, InboxOK, Heard, NEW s \in Session, Acts(s),
           ses[s].pc \in {"none", "rs_wait"}, ses'[s].pc \in Riding
    PROVE  Carrier(ses'[s].via, ses'[s].peer)
  <1>0. ses[s] \in SessionState
    BY DEF SessionsOK
  <1>1. ASSUME NEW r, Becomes(s, r)
        PROVE  ses'[s] = r
    BY ZenonT(40), <1>1 DEF SessionsOK, Becomes
  <1>2. CASE ses[s].pc = "rs_wait"
    <2>. DEFINE r == [ses[s] EXCEPT !.pc = "up_tmp", !.via = Head(inbox[s]).via, !.stable = TRUE]
    <2>1. RelayAnswer(s) \/ RelayTimeout(s)
      BY <1>2, ActsWhere
    <2>2. ~Goto(s, "rs_fail")
      <3>1. [ses[s] EXCEPT !.pc = "rs_fail"].pc = "rs_fail"
        BY <1>0 DEF SessionState
      <3>. QED  BY <1>1, <3>1, Zenon DEF Goto, Riding
    <2>3. ~Ends(s)
      <3>1. Over(s).pc = "dead"
        BY DEF Over, Unborn
      <3>. QED  BY <1>1, <3>1, Zenon DEF Ends, Riding
    <2>4. inbox[s] # <<>> /\ Head(inbox[s]).type = "RelayResult" /\ Becomes(s, r)
      BY <2>1, <2>2, <2>3, Zenon DEF RelayAnswer, RelayTimeout
    <2>5. r.via = Head(inbox[s]).via /\ r.peer = ses[s].peer
      BY ZenonT(40), <1>0 DEF SessionState
    <2>. HIDE DEF r
    <2>6. PICK q \in Seq(Message) : q = inbox[s]
      BY DEF InboxOK
    <2>7. Holds(q, Head(q))
      BY ZenonT(40), <2>4, <2>6, HoldsFacts
    <2>8. Head(inbox[s]) \in Message
      BY <2>4, HeadFacts
    <2>9. Sound(s, Head(inbox[s]))
      BY ZenonT(40), <2>6, <2>7, <2>8 DEF Heard
    <2>. QED  BY ZenonT(40), <1>1, <2>4, <2>5, <2>9 DEF Sound
  <1>3. CASE ses[s].pc = "none"
    <2>1. ASSUME StartStable(s)
          PROVE  FALSE
      <3>. DEFINE r1 == [ses[s] EXCEPT !.pc = "ds_wait", !.peer = outside.p]
                  r2 == [ses[s] EXCEPT !.pc = "rs_add", !.peer = outside.p, !.via = outside.via]
      <3>1. Becomes(s, r1) \/ Becomes(s, r2)
        BY <2>1, Zenon DEF StartStable
      <3>2. r1.pc = "ds_wait" /\ r2.pc = "rs_add"
        BY <1>0 DEF SessionState
      <3>. HIDE DEF r1, r2
      <3>. QED  BY ZenonT(40), <1>1, <3>1, <3>2 DEF Riding
    <2>2. ASSUME NEW p \in Peer, IncomingDht(p, s)
          PROVE  FALSE
      <3>. DEFINE r == [ses[s] EXCEPT !.pc = "in_add", !.peer = p]
      <3>1. Becomes(s, r)
        BY <2>2, Zenon DEF IncomingDht
      <3>2. r.pc = "in_add"
        BY <1>0 DEF SessionState
      <3>. HIDE DEF r
      <3>. QED  BY ZenonT(40), <1>1, <3>1, <3>2 DEF Riding
    <2>3. ASSUME NEW v \in Session, NEW q \in Peer, RelayHandshakeNew(v, q, s)
          PROVE  Carrier(ses'[s].via, ses'[s].peer)
      <3>1. ses[v].pc = "run" /\ ses[v].direct /\ ses[v].peer # q /\ v # s
        BY <1>3, <2>3, Zenon DEF RelayHandshakeNew
      <3>. DEFINE a == [ses[v] EXCEPT !.pc = "rh_add"]
                  b == [ses[s] EXCEPT !.pc = "rh_new", !.peer = q, !.via = v]
      <3>2. ses' = [ses EXCEPT ![v] = a, ![s] = [@ EXCEPT !.pc = "rh_new", !.peer = q, !.via = v]]
        BY <2>3, Zenon DEF RelayHandshakeNew
      <3>3. ses' = [t \in Session |-> IF t = s THEN b ELSE IF t = v THEN a ELSE ses[t]]
        BY <3>1, <3>2, Zenon DEF SessionsOK
      <3>4. b.via = v /\ b.peer = q
        BY <1>0 DEF SessionState
      <3>. HIDE DEF a, b
      <3>5. ses'[s] = b
        BY ZenonT(40), <3>3
      <3>6. Carrier(v, q)
        BY ZenonT(40), <3>1 DEF Carrier, Early
      <3>. QED  BY <3>4, <3>5, <3>6
    <2>. QED  BY ZenonT(40), <1>3, <2>1, <2>2, <2>3, ActsWhere
  <1>. QED  BY ZenonT(40), <1>2, <1>3

(* Every step of the node keeps it. *)
LEMMA CarriedNext ==
    ASSUME IInv, Settled, Heard, Carried, Next
    PROVE  Heard' /\ Carried'
  <1>. SessionsOK /\ InboxOK /\ Borrowed
    BY DEF IInv, InboxesOK, Settled
  <1>1. Kept /\ AllMove
    BY NextKept, MoveNext
  <1>2. Heard'
    BY ZenonT(40), <1>1, GetsNext, HeardKept
  <1>3. ASSUME NEW s \in Session, ses'[s].pc \in Riding, ~ses'[s].direct
        PROVE  Carrier(ses[s].via, ses[s].peer)'
    <2>1. Moves(ses[s], ses'[s])
      BY ZenonT(40), <1>1 DEF AllMove
    <2>2. CASE ses[s].pc \in {"none", "rs_wait"}
      <3>1. ses'[s].pc # ses[s].pc /\ ses[s].pc \notin Looping
        BY <1>3, <2>2 DEF Riding, Looping
      <3>2. PICK u \in Session : Acts(u)
        BY ZenonT(40), <3>1, NextActs
      <3>3. u = s
        BY ZenonT(40), <3>1, <3>2, ActsAlone
      <3>4. Carrier(ses'[s].via, ses'[s].peer)
        BY ZenonT(40), <1>3, <2>2, <3>2, <3>3, CarriedStart
      <3>5. PICK v, p : v = ses'[s].via /\ p = ses'[s].peer
        OBVIOUS
      <3>6. Carrier(v, p)'
        BY ZenonT(40), <1>1, <3>4, <3>5, CarrierKept
      <3>. QED  BY ZenonT(40), <3>5, <3>6 DEF Carrier
    <2>3. CASE /\ ses[s].pc \in Riding /\ ~ses[s].direct
               /\ ses'[s].via = ses[s].via /\ ses'[s].peer = ses[s].peer
      <3>1. Carrier(ses[s].via, ses[s].peer)
        BY <2>3 DEF Carried
      <3>2. PICK v, p : v = ses[s].via /\ p = ses[s].peer
        OBVIOUS
      <3>3. Carrier(v, p)'
        BY ZenonT(40), <1>1, <3>1, <3>2, CarrierKept
      <3>. QED  BY ZenonT(40), <2>3, <3>2, <3>3 DEF Carrier
    <2>. QED  BY ZenonT(40), <1>3, <2>1, <2>2, <2>3 DEF Moves
  <1>. QED  BY <1>2, <1>3 DEF Carried

(* A relayed session that completed its handshake sends through a session with
   a direct connection to another peer. *)
THEOREM CarriersDirect == Spec => []CarrierIsDirect
  <1>1. Init => Settled /\ Heard /\ Carried
    <2>. SUFFICES ASSUME Init PROVE Settled /\ Heard /\ Carried
      BY ZenonT(40)
    <2>1. Settled /\ Carried
      BY DEF Init, Settled, AllPlain, Plain, Borrowed, Carried, Unborn, Riding
    <2>2. \A s \in Session : inbox[s] = <<>>
      BY DEF Init
    <2>3. Heard
      BY <2>2 DEF Heard, Holds
    <2>. QED  BY <2>1, <2>3
  <1>2. IInv /\ Settled /\ Heard /\ Carried /\ [Next]_vars => Settled' /\ Heard' /\ Carried'
    <2>1. ASSUME Settled, Heard, Carried, UNCHANGED vars
          PROVE  Settled' /\ Heard' /\ Carried'
      BY ZenonT(40), <2>1 DEF Settled, AllPlain, Plain, Borrowed, Heard, Sound, Carried, Carrier, vars, tables, tasks
    <2>. QED  BY ZenonT(40), <2>1, MoveNext, CarriedNext
  <1>3. Carried => CarrierIsDirect
    BY ZenonT(40) DEF Carried, Carrier, CarrierIsDirect, Riding
  <1>. QED  BY <1>1, <1>2, <1>3, Invariance, PTL DEF Spec
=============================================================================
