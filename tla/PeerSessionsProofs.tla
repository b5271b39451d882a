------------------------- MODULE PeerSessionsProofs -------------------------
(***************************************************************************)
(* Proofs about PeerSessions for any sets of peers and sessions and any    *)
(* bounds.                                                                 *)
(***************************************************************************)
EXTENDS PeerSessions, TLAPS

----------------------------------------------------------------------------
(* The operators on tables *)

(* Whatever DoubleKadTree::add does, the table it leaves holds the new value
   or old ones, each under the key it had; a refusal changes nothing. *)
LEMMA AddFacts ==
    ASSUME NEW S, NEW T, NEW f, Partial(f, S, T), NEW k \in S, NEW v \in T,
           NEW o \in D!AddOutcome(f, k, v)
    PROVE  /\ Partial(o.table, S, T)
           /\ \A q \in DOMAIN o.table :
                 (q = k /\ o.table[q] = v) \/ (q \in DOMAIN f /\ o.table[q] = f[q])
           /\ o.ok \in BOOLEAN
           /\ ~o.ok => o.table = f
  <1>1. CASE o = [ok |-> TRUE, table |-> D!Put(f, k, v)]
    BY <1>1 DEF Partial, D!Put
  <1>2. CASE o = [ok |-> FALSE, table |-> f]
    BY <1>2
  <1>3. CASE \E q \in DOMAIN f : o = [ok |-> TRUE, table |-> D!Put(D!Drop(f, q), k, v)]
    BY <1>3 DEF Partial, D!Put, D!Drop, D!Restrict
  <1>. QED  BY <1>1, <1>2, <1>3 DEF D!AddOutcome

----------------------------------------------------------------------------
(* What a step does to the sessions *)

Early == {"none", "in_add", "ds_wait", "ds_hung", "ds_fall", "ds_add", "rs_add", "rh_new"}

SessionsOK ==
    /\ ses \in [Session -> SessionState]
    /\ \A s \in Session : ses[s].pc # "none" => ses[s].peer \in Peer
    /\ \A s \in Session : ses[s].pc = "rh_new" =>
          ses[s].via \in Session /\ ses[ses[s].via].pc \notin Early

OutsideOK ==
    /\ outside \in [op : {"idle", "connect_tmp", "connect_add", "result_get", "result_tmp",
                          "result_add"},
                    p : Peer \cup {Nobody}, via : Session \cup {Nobody},
                    ok : BOOLEAN, force : BOOLEAN]
    /\ outside.op # "idle" => outside.p \in Peer

InboxOK == inbox \in [Session -> Seq(Message)]

(* A session that has been in a table stays with its peer, and stays direct. *)
Follows(old, new) ==
    old.pc \notin Early =>
        /\ new.pc \notin Early
        /\ new.peer = old.peer
        /\ old.direct => new.direct

Kept == \A t \in Session : Follows(ses[t], ses'[t])

(* A step that changes one session keeps the sessions in order if its new
   state follows the old one. *)
LEMMA BecomesKeeps ==
    ASSUME SessionsOK, NEW s \in Session, NEW r \in SessionState, Becomes(s, r),
           r.pc # "none" => r.peer \in Peer, r.pc # "rh_new", Follows(ses[s], r)
    PROVE  SessionsOK' /\ Kept
  BY DEF SessionsOK, Kept, Follows, Early, Becomes

(* So does a step to another place in the program. *)
LEMMA GotoKeeps ==
    ASSUME SessionsOK, NEW s \in Session, NEW c \in PC \ {"none", "rh_new"},
           ses[s].pc # "none", c \notin Early \/ ses[s].pc \in Early, Goto(s, c)
    PROVE  SessionsOK' /\ Kept
  <1>. DEFINE r == [ses[s] EXCEPT !.pc = c]
  <1>1. r \in SessionState /\ r.pc = c /\ r.peer = ses[s].peer /\ r.direct = ses[s].direct
    BY DEF SessionsOK, SessionState
  <1>2. ses[s].peer \in Peer
    BY DEF SessionsOK
  <1>. QED  BY <1>1, <1>2, BecomesKeeps, Zenon DEF Goto, Follows

(* So does the end of the task. *)
LEMMA EndsKeeps ==
    ASSUME SessionsOK, NEW s \in Session, ses[s].pc # "none", Ends(s)
    PROVE  SessionsOK' /\ Kept
  <1>1. Over(s) \in SessionState /\ Over(s).pc = "dead" /\ Over(s).peer = ses[s].peer
        /\ Over(s).direct = ses[s].direct
    BY Zenon DEF SessionsOK, SessionState, Over, Unborn, PC
  <1>2. ses[s].peer \in Peer
    BY DEF SessionsOK
  <1>. QED  BY <1>1, <1>2, BecomesKeeps DEF Ends, Follows, Early

(* Starting a session. *)
LEMMA SessionsStart ==
    ASSUME SessionsOK, OutsideOK, NEW s \in Session,
           \/ \E p \in Peer : IncomingDht(p, s) \/ DialAnswered(s, p)
           \/ AddDht(s) \/ StartStable(s) \/ DirectAddTmp(s)
    PROVE  SessionsOK' /\ Kept
  <1>0. ses[s] \in SessionState
    BY DEF SessionsOK
  <1>1. ASSUME NEW p \in Peer, IncomingDht(p, s) \/ DialAnswered(s, p)
        PROVE  SessionsOK' /\ Kept
    <2>1. PICK c \in {"in_add", "ds_add"} : Becomes(s, [ses[s] EXCEPT !.pc = c, !.peer = p])
      BY <1>1, Zenon DEF IncomingDht, DialAnswered
    <2>2. ses[s].pc \in Early
      BY <1>1, Zenon DEF IncomingDht, DialAnswered, Early
    <2>. DEFINE r == [ses[s] EXCEPT !.pc = c, !.peer = p]
    <2>3. r \in SessionState /\ r.pc = c /\ r.peer = p
      BY <1>0, Zenon DEF SessionState, PC
    <2>. HIDE DEF r
    <2>. QED  BY <2>1, <2>2, <2>3, BecomesKeeps, ZenonT(30) DEF Follows, r
  <1>2. CASE AddDht(s)
    <2>1. ses[s].pc = "in_add"
      BY <1>2 DEF AddDht
    <2>2. ses[s].peer \in Peer
      BY <2>1 DEF SessionsOK
    <2>. DEFINE r == [ses[s] EXCEPT !.pc = "run", !.direct = TRUE, !.listening = TRUE]
    <2>3. Becomes(s, r) \/ Becomes(s, Unborn)
      BY <1>2 DEF AddDht
    <2>4. /\ r \in SessionState /\ r.pc = "run" /\ r.peer = ses[s].peer
          /\ Unborn \in SessionState /\ Unborn.pc = "none"
      BY <1>0, Zenon DEF SessionState, PC, Unborn
    <2>. HIDE DEF r
    <2>. QED  BY <2>1, <2>2, <2>3, <2>4, BecomesKeeps DEF Follows, Early
  <1>3. CASE StartStable(s)
    <2>1. ses[s].pc = "none" /\ outside.p \in Peer /\ outside.via \in Session \cup {Nobody}
      BY <1>3, Zenon DEF StartStable, OutsideOK
    <2>. DEFINE r1 == [ses[s] EXCEPT !.pc = "ds_wait", !.peer = outside.p]
                r2 == [ses[s] EXCEPT !.pc = "rs_add", !.peer = outside.p, !.via = outside.via]
    <2>2. Becomes(s, r1) \/ Becomes(s, r2)
      BY <1>3 DEF StartStable
    <2>3. /\ r1 \in SessionState /\ r1.pc = "ds_wait" /\ r1.peer = outside.p
          /\ r2 \in SessionState /\ r2.pc = "rs_add" /\ r2.peer = outside.p
      BY <1>0, <2>1, Zenon DEF SessionState, PC
    <2>. HIDE DEF r1, r2
    <2>. QED  BY <2>1, <2>2, <2>3, BecomesKeeps DEF Follows, Early
  <1>4. CASE DirectAddTmp(s)
    <2>1. ses[s].pc = "ds_add"
      BY <1>4 DEF DirectAddTmp
    <2>2. ses[s].peer \in Peer
      BY <2>1 DEF SessionsOK
    <2>. DEFINE r1 == [ses[s] EXCEPT !.pc = "up_tmp", !.direct = TRUE, !.stable = TRUE]
                r2 == [Over(s) EXCEPT !.direct = TRUE]
    <2>3. Becomes(s, r1) \/ Becomes(s, r2)
      BY <1>4 DEF DirectAddTmp
    <2>4. /\ r1 \in SessionState /\ r1.pc = "up_tmp" /\ r1.peer = ses[s].peer
          /\ r2 \in SessionState /\ r2.pc = "dead" /\ r2.peer = ses[s].peer
      BY ZenonT(40), <1>0 DEF SessionState, PC, Over, Unborn
    <2>. HIDE DEF r1, r2
    <2>. QED  BY <2>1, <2>2, <2>3, <2>4, BecomesKeeps DEF Follows, Early
  <1>. QED  BY <1>1, <1>2, <1>3, <1>4

(* Moving on from one lock or wait to the next. *)
LEMMA SessionsMove ==
    ASSUME SessionsOK, NEW s \in Session,
           \/ DialRefused(s) \/ DialSilent(s) \/ DialFails(s) \/ RelayAddTmp(s)
           \/ RelayConnect(s) \/ RelayTimeout(s) \/ RelayFails(s) \/ UpgradeTake(s)
           \/ UpgradeFails(s) \/ EndpointClose(s) \/ CarrierGone(s) \/ StreamGone(s)
           \/ CloseStableBuffer(s) \/ CloseStableList(s) \/ CloseTmpBuffer(s)
           \/ CloseTmpList(s) \/ CloseRelay(s) \/ LeaveTmp(s) \/ LeaveDht(s)
    PROVE  SessionsOK' /\ Kept
  <1>1. /\ ses[s].pc # "none"
        /\ \/ Ends(s)
           \/ \E c \in PC \ {"none", "rh_new"} :
                 Goto(s, c) /\ (c \notin Early \/ ses[s].pc \in Early)
    <2>. USE DEF PC, Early, Exit
    <2>1. CASE DialRefused(s)        BY <2>1 DEF DialRefused
    <2>2. CASE DialSilent(s)         BY <2>2 DEF DialSilent
    <2>3. CASE DialFails(s)          BY Zenon, <2>3 DEF DialFails
    <2>4. CASE RelayAddTmp(s)        BY <2>4 DEF RelayAddTmp
    <2>5. CASE RelayConnect(s)       BY <2>5 DEF RelayConnect
    <2>6. CASE RelayTimeout(s)       BY <2>6 DEF RelayTimeout
    <2>7. CASE RelayFails(s)         BY <2>7 DEF RelayFails
    <2>8. CASE UpgradeTake(s)        BY <2>8 DEF UpgradeTake
    <2>9. CASE UpgradeFails(s)       BY <2>9 DEF UpgradeFails
    <2>10. CASE EndpointClose(s)     BY <2>10 DEF EndpointClose
    <2>11. CASE CarrierGone(s)       BY <2>11 DEF CarrierGone
    <2>12. CASE StreamGone(s)        BY <2>12 DEF StreamGone
    <2>13. CASE CloseStableBuffer(s) BY <2>13 DEF CloseStableBuffer
    <2>14. CASE CloseStableList(s)   BY <2>14 DEF CloseStableList
    <2>15. CASE CloseTmpBuffer(s)    BY <2>15 DEF CloseTmpBuffer
    <2>16. CASE CloseTmpList(s)      BY <2>16 DEF CloseTmpList
    <2>17. CASE CloseRelay(s)        BY <2>17 DEF CloseRelay
    <2>18. CASE LeaveTmp(s)          BY <2>18 DEF LeaveTmp
    <2>19. CASE LeaveDht(s)          BY <2>19 DEF LeaveDht
    <2>. QED  BY ZenonT(40), <2>1, <2>2, <2>3, <2>4, <2>5, <2>6, <2>7, <2>8, <2>9, <2>10, <2>11, <2>12,
                 <2>13, <2>14, <2>15, <2>16, <2>17, <2>18, <2>19
  <1>. QED  BY <1>1, GotoKeeps, EndsKeeps

TablesOK ==
    /\ Partial(dhts, Peer, Session)
    /\ Partial(stables, Peer, [s : Session, direct : BOOLEAN])
    /\ Partial(tmps, Peer, [s : Session, direct : BOOLEAN, marked : BOOLEAN])
    /\ Partial(connects, Peer, BOOLEAN)
    /\ Partial(results, Peer, BOOLEAN)
    /\ hold \in [Session -> [s : Session, direct : BOOLEAN] \cup {Nobody}]

(* PeerList::get answers with a session of a table, if with any. *)
LEMMA GetFacts ==
    ASSUME TablesOK, NEW p, NEW g \in Get(p)
    PROVE  g.s \in Session \cup {Nobody} /\ g.is_it \in BOOLEAN
           /\ (g.is_it => g.s \in Session)
  <1>1. CASE p \in DOMAIN stables
    <2>1. g = [s |-> stables[p].s, is_it |-> TRUE]
      BY <1>1 DEF Get
    <2>2. stables[p].s \in Session
      BY <1>1 DEF TablesOK, Partial
    <2>. QED  BY <2>1, <2>2
  <1>2. CASE p \notin DOMAIN stables
    <2>1. \/ p \in DOMAIN dhts /\ g = [s |-> dhts[p], is_it |-> TRUE]
          \/ \E q \in DOMAIN dhts : g = [s |-> dhts[q], is_it |-> FALSE]
          \/ g = [s |-> Nobody, is_it |-> FALSE]
      BY <1>2 DEF Get
    <2>2. \A q \in DOMAIN dhts : dhts[q] \in Session
      BY DEF TablesOK, Partial
    <2>3. CASE p \in DOMAIN dhts /\ g = [s |-> dhts[p], is_it |-> TRUE]
      BY <2>2, <2>3
    <2>4. CASE \E q \in DOMAIN dhts : g = [s |-> dhts[q], is_it |-> FALSE]
      BY <2>2, <2>4
    <2>5. CASE g = [s |-> Nobody, is_it |-> FALSE]
      BY <2>5
    <2>. QED  BY <2>1, <2>3, <2>4, <2>5
  <1>. QED  BY <1>1, <1>2

(* The first message of an inbox is a message. *)
LEMMA HeadFacts ==
    ASSUME InboxOK, NEW s \in Session, inbox[s] # <<>>
    PROVE  Head(inbox[s]) \in Message
  BY DEF InboxOK

(* The loop of a running session, and the steps that let it run. *)
LEMMA SessionsRun ==
    ASSUME SessionsOK, TablesOK, InboxOK, NEW s \in Session,
           \/ FallBack(s) \/ RelayAnswer(s) \/ UpgradeAdd(s) \/ UpgradeDht(s)
           \/ HandleStableConnect(s) \/ HandleStableResult(s) \/ HandleClose(s)
           \/ HandleDirectIncoming(s) \/ LeaveStable(s)
    PROVE  SessionsOK' /\ Kept
  <1>0. ses[s] \in SessionState
    BY DEF SessionsOK
  <1>. DEFINE Fine(r) == /\ r \in SessionState /\ r.pc # "none" /\ r.pc # "rh_new"
                         /\ r.pc \notin Early \/ ses[s].pc \in Early
                         /\ r.peer = ses[s].peer /\ (ses[s].direct => r.direct)
  <1>1. ASSUME NEW r, Becomes(s, r), Fine(r), ses[s].pc # "none"
        PROVE  SessionsOK' /\ Kept
    <2>1. ses[s].peer \in Peer
      BY <1>1 DEF SessionsOK
    <2>. QED  BY <1>1, <2>1, BecomesKeeps DEF Follows
  <1>2. ASSUME NEW c \in PC \ Early, ses[s].pc # "none", Goto(s, c)
        PROVE  SessionsOK' /\ Kept
    BY <1>2, GotoKeeps DEF Early
  <1>3. CASE FallBack(s)
    <2>1. PICK g \in Get(ses[s].peer) : Becomes(s, [ses[s] EXCEPT !.pc = "rs_add", !.via = g.s])
                                       \/ Ends(s)
      BY <1>3, Zenon DEF FallBack
    <2>2. Fine([ses[s] EXCEPT !.pc = "rs_add", !.via = g.s]) /\ ses[s].pc # "none"
      BY <1>0, <1>3, GetFacts, Zenon DEF FallBack, SessionState, PC, Early
    <2>. QED  BY <1>1, <2>1, <2>2, EndsKeeps, ZenonT(30)
  <1>4. CASE RelayAnswer(s)
    <2>1. ses[s].pc = "rs_wait" /\ inbox[s] # <<>>
      BY <1>4 DEF RelayAnswer
    <2>. DEFINE r == [ses[s] EXCEPT !.pc = "up_tmp", !.via = Head(inbox[s]).via, !.stable = TRUE]
    <2>2. Becomes(s, r) \/ Ends(s) \/ Goto(s, "rs_fail")
      BY <1>4 DEF RelayAnswer
    <2>3. Head(inbox[s]).via \in Session \cup {Nobody}
      BY <2>1, HeadFacts DEF Message
    <2>4. Fine(r)
      BY <1>0, <2>1, <2>3, Zenon DEF SessionState, PC, Early
    <2>. HIDE DEF r
    <2>. QED  BY <1>1, <1>2, <2>1, <2>2, <2>4, EndsKeeps DEF PC, Early
  <1>5. CASE UpgradeAdd(s) \/ UpgradeDht(s)
    <2>. DEFINE r == [ses[s] EXCEPT !.pc = "run", !.listening = TRUE]
    <2>1. ses[s].pc = "up_list" /\ (Goto(s, "ct") \/ Becomes(s, r))
      BY <1>5, Zenon DEF UpgradeAdd, UpgradeDht, Upgraded
    <2>2. Fine(r)
      BY <1>0, <2>1, Zenon DEF SessionState, PC, Early
    <2>. HIDE DEF r
    <2>. QED  BY <1>1, <1>2, <2>1, <2>2 DEF PC, Early
  <1>6. ASSUME CloseFalse(s), ses[s].pc = "run"
        PROVE  SessionsOK' /\ Kept
    <2>. DEFINE r1 == [ses[s] EXCEPT !.pc = "cf_stable1", !.told = @ + 1]
                r2 == [ses[s] EXCEPT !.pc = "ct", !.told = @ + 1]
    <2>1. Becomes(s, r1) \/ Becomes(s, r2) \/ Goto(s, "cf_tmp1") \/ Goto(s, "cf_relay")
      BY <1>6 DEF CloseFalse
    <2>2. ses[s].told + 1 \in Nat
      BY <1>0 DEF SessionState
    <2>3. Fine(r1) /\ Fine(r2)
      BY <1>0, <1>6, <2>2, Zenon DEF SessionState, PC, Early
    <2>. HIDE DEF r1, r2
    <2>. QED  BY <1>1, <1>2, <1>6, <2>1, <2>3 DEF PC, Early
  <1>7. CASE HandleClose(s)
    BY Zenon, <1>6, <1>7 DEF HandleClose, Take
  <1>8. CASE HandleStableConnect(s)
    <2>. DEFINE r == [ses[s] EXCEPT !.pc = "up_tmp", !.stable = TRUE]
    <2>1. ses[s].pc = "run" /\ (ses' = ses \/ Becomes(s, r))
      BY <1>8 DEF HandleStableConnect, Take
    <2>2. Fine(r)
      BY <1>0, <2>1, Zenon DEF SessionState, PC, Early
    <2>3. CASE ses' = ses
      BY Zenon, <2>3 DEF SessionsOK, Kept, Follows
    <2>. HIDE DEF r
    <2>. QED  BY <1>1, <2>1, <2>2, <2>3
  <1>9. CASE HandleStableResult(s)
    <2>1. ses[s].pc = "run" /\ inbox[s] # <<>>
      BY <1>9 DEF HandleStableResult, Take
    <2>. DEFINE r == [ses[s] EXCEPT !.pc = "up_tmp", !.stable = TRUE,
                                    !.force = Head(inbox[s]).force]
    <2>2. CloseFalse(s) \/ Becomes(s, r) \/ Goto(s, "ct") \/ ses' = ses
      BY <1>9 DEF HandleStableResult, Exit
    <2>3. Head(inbox[s]).force \in BOOLEAN
      BY <2>1, HeadFacts DEF Message
    <2>4. Fine(r)
      BY <1>0, <2>1, <2>3, Zenon DEF SessionState, PC, Early
    <2>5. CASE ses' = ses
      BY <2>5 DEF SessionsOK, Kept, Follows
    <2>. HIDE DEF r
    <2>. QED  BY <1>1, <1>2, <1>6, <2>1, <2>2, <2>4, <2>5 DEF PC, Early
  <1>10. CASE HandleDirectIncoming(s)
    <2>. DEFINE r == [ses[s] EXCEPT !.direct = TRUE, !.via = Nobody]
    <2>1. ses[s].pc = "run" /\ Becomes(s, r)
      BY <1>10 DEF HandleDirectIncoming, Take
    <2>2. Fine(r)
      BY <1>0, <2>1, Zenon DEF SessionState, PC, Early
    <2>. HIDE DEF r
    <2>. QED  BY <1>1, <2>1, <2>2
  <1>11. CASE LeaveStable(s)
    <2>. DEFINE r == [Over(s) EXCEPT !.told = @ + 1]
    <2>1. ses[s].pc = "ct" /\ Becomes(s, r)
      BY <1>11 DEF LeaveStable
    <2>2. ses[s].told + 1 \in Nat
      BY <1>0 DEF SessionState
    <2>3. Fine(r)
      BY ZenonT(40), <1>0, <2>1, <2>2 DEF SessionState, PC, Early, Over, Unborn
    <2>. HIDE DEF r
    <2>. QED  BY <1>1, <2>1, <2>3
  <1>. QED  BY <1>3, <1>4, <1>5, <1>7, <1>8, <1>9, <1>10, <1>11

(* A relayed handshake starts a session, of which another one takes care. *)
LEMMA SessionsHandshake ==
    ASSUME SessionsOK, NEW s \in Session,
           \/ RelaySpawn(s)
           \/ \E r \in Session : \E q \in Peer : RelayHandshakeNew(r, q, s)
    PROVE  SessionsOK' /\ Kept
  <1>1. CASE RelaySpawn(s)
    <2>. DEFINE r == ses[s].via
                a == [ses[r] EXCEPT !.pc = "run"]
                b == [ses[s] EXCEPT !.pc = "run", !.listening = TRUE]
    <2>1. /\ ses[s].pc = "rh_new"
          /\ ses' = [ses EXCEPT ![r] = a, ![s] = [@ EXCEPT !.pc = "run", !.listening = TRUE]]
      BY <1>1 DEF RelaySpawn
    <2>2. /\ r \in Session /\ ses[r].pc \notin Early
          /\ ses[r] \in SessionState /\ ses[s] \in SessionState
          /\ ses[r].peer \in Peer /\ ses[s].peer \in Peer
      BY <2>1 DEF SessionsOK, Early
    <2>3. r # s
      BY <2>1, <2>2 DEF Early
    <2>4. /\ a \in SessionState /\ a.pc = "run" /\ a.peer = ses[r].peer
          /\ a.direct = ses[r].direct
          /\ b \in SessionState /\ b.pc = "run" /\ b.peer = ses[s].peer
      BY <2>2, Zenon DEF SessionState, PC
    <2>5. ses' = [t \in Session |-> IF t = s THEN b ELSE IF t = r THEN a ELSE ses[t]]
      BY <2>1, <2>2, <2>3, ZenonT(30) DEF SessionsOK
    <2>. HIDE DEF r, a, b
    <2>6. SessionsOK'
      BY <2>2, <2>4, <2>5 DEF SessionsOK, Early
    <2>7. Kept
      BY <2>1, <2>2, <2>4, <2>5 DEF Kept, Follows, Early
    <2>. QED  BY <2>6, <2>7
  <1>2. ASSUME NEW r \in Session, NEW q \in Peer, RelayHandshakeNew(r, q, s)
        PROVE  SessionsOK' /\ Kept
    <2>. DEFINE a == [ses[r] EXCEPT !.pc = "rh_add"]
                b == [ses[s] EXCEPT !.pc = "rh_new", !.peer = q, !.via = r]
    <2>1. /\ ses[r].pc = "run" /\ ses[s].pc = "none"
          /\ ses' = [ses EXCEPT ![r] = a, ![s] = [@ EXCEPT !.pc = "rh_new", !.peer = q, !.via = r]]
      BY <1>2, Zenon DEF RelayHandshakeNew
    <2>2. /\ ses[r] \in SessionState /\ ses[s] \in SessionState
          /\ ses[r].peer \in Peer /\ r # s
      BY <2>1 DEF SessionsOK
    <2>3. /\ a \in SessionState /\ a.pc = "rh_add" /\ a.peer = ses[r].peer
          /\ a.direct = ses[r].direct
          /\ b \in SessionState /\ b.pc = "rh_new" /\ b.peer = q /\ b.via = r
      BY <2>2, Zenon DEF SessionState, PC
    <2>4. ses' = [t \in Session |-> IF t = s THEN b ELSE IF t = r THEN a ELSE ses[t]]
      BY <2>1, <2>2, Zenon DEF SessionsOK
    <2>. HIDE DEF a, b
    <2>5. SessionsOK'
      BY <2>1, <2>2, <2>3, <2>4 DEF SessionsOK, Early
    <2>6. Kept
      BY <2>1, <2>2, <2>3, <2>4 DEF Kept, Follows, Early
    <2>. QED  BY <2>5, <2>6
  <1>. QED  BY <1>1, <1>2

----------------------------------------------------------------------------
(* What a step does to the tables *)

Rightful(t, p, direct) ==
    ses[t].pc \notin Early /\ ses[t].peer = p /\ (direct => ses[t].direct)

(* Every entry is the entry of a session that has got past its start, with the
   peer of the key, and direct if it says so. *)
Linked ==
    /\ \A p \in DOMAIN dhts : Rightful(dhts[p], p, TRUE)
    /\ \A p \in DOMAIN stables : Rightful(stables[p].s, p, stables[p].direct)
    /\ \A p \in DOMAIN tmps : Rightful(tmps[p].s, p, tmps[p].direct)
    /\ \A s \in Session : hold[s] # Nobody =>
          ses[s].pc \notin Early /\ Rightful(hold[s].s, ses[s].peer, hold[s].direct)

Owned == TablesOK /\ Linked /\ SingleOwner

(* No entry of the table is new. *)
OldDhts == \A p \in DOMAIN dhts' : p \in DOMAIN dhts /\ dhts'[p] = dhts[p]

OldStables == \A p \in DOMAIN stables' : p \in DOMAIN stables /\ stables'[p] = stables[p]

OldTmps ==
    \A p \in DOMAIN tmps' : /\ p \in DOMAIN tmps
                            /\ tmps'[p].s = tmps[p].s /\ tmps'[p].direct = tmps[p].direct

OldHold == \A s \in Session : hold'[s] # Nobody => hold'[s] = hold[s]

(* The entry of t is not in the table. *)
NotInDhts(t)    == \A p \in DOMAIN dhts : dhts[p] # t
NotInStables(t) == \A p \in DOMAIN stables : stables[p].s # t
NotInTmps(t)    == \A p \in DOMAIN tmps : tmps[p].s # t
NotInHold(t)    == \A s \in Session : hold[s] # Nobody => hold[s].s # t

(* A session stays rightful. *)
LEMMA RightfulKept ==
    ASSUME Kept, NEW t \in Session, NEW p, NEW d \in BOOLEAN, Rightful(t, p, d)
    PROVE  Rightful(t, p, d)'
  BY DEF Kept, Follows, Rightful

(* The old entries of a table stay in order. *)
LEMMA OldLinked ==
    ASSUME TablesOK, Linked, TablesOK', Kept
    PROVE  /\ \A p \in DOMAIN dhts' : p \in DOMAIN dhts /\ dhts'[p] = dhts[p] =>
                  Rightful(dhts[p], p, TRUE)'
           /\ \A p \in DOMAIN stables' : p \in DOMAIN stables /\ stables'[p] = stables[p] =>
                  Rightful(stables[p].s, p, stables[p].direct)'
           /\ \A p \in DOMAIN tmps' : p \in DOMAIN tmps /\ tmps'[p].s = tmps[p].s
                                                      /\ tmps'[p].direct = tmps[p].direct =>
                  Rightful(tmps[p].s, p, tmps[p].direct)'
           /\ \A s \in Session : hold'[s] # Nobody /\ hold'[s] = hold[s] =>
                  ses'[s].pc \notin Early /\ Rightful(hold[s].s, ses[s].peer, hold[s].direct)'
  <1>1. \A t \in Session : \A p : \A d \in BOOLEAN : Rightful(t, p, d) => Rightful(t, p, d)'
    BY RightfulKept
  <1>2. \A p \in DOMAIN dhts' : p \in DOMAIN dhts /\ dhts'[p] = dhts[p] =>
                  Rightful(dhts[p], p, TRUE)'
    BY <1>1, Zenon DEF TablesOK, Linked, Partial
  <1>3. \A p \in DOMAIN stables' : p \in DOMAIN stables /\ stables'[p] = stables[p] =>
                  Rightful(stables[p].s, p, stables[p].direct)'
    BY <1>1 DEF TablesOK, Linked, Partial
  <1>4. \A p \in DOMAIN tmps' : p \in DOMAIN tmps /\ tmps'[p].s = tmps[p].s
                                                /\ tmps'[p].direct = tmps[p].direct =>
                  Rightful(tmps[p].s, p, tmps[p].direct)'
    BY <1>1 DEF TablesOK, Linked, Partial
  <1>5. \A s \in Session : hold'[s] # Nobody /\ hold'[s] = hold[s] =>
                  ses'[s].pc \notin Early /\ Rightful(hold[s].s, ses[s].peer, hold[s].direct)'
    BY <1>1 DEF TablesOK, Linked, Kept, Follows
  <1>. QED  BY <1>2, <1>3, <1>4, <1>5, Zenon

(* A step that only takes entries away (or marks them) keeps the rest in order. *)
LEMMA FewerEntries ==
    ASSUME Owned, TablesOK', Kept, OldDhts, OldStables, OldTmps, OldHold
    PROVE  Owned'
  <1>1. Linked'
    <2>1. \A q \in DOMAIN dhts' : Rightful(dhts[q], q, TRUE)'
      BY OldLinked, Zenon DEF Owned, OldDhts
    <2>2. \A q \in DOMAIN stables' : Rightful(stables[q].s, q, stables[q].direct)'
      BY OldLinked DEF Owned, OldStables
    <2>3. \A q \in DOMAIN tmps' : Rightful(tmps[q].s, q, tmps[q].direct)'
      BY OldLinked DEF Owned, OldTmps
    <2>4. \A s \in Session : hold'[s] # Nobody =>
            ses'[s].pc \notin Early /\ Rightful(hold[s].s, ses[s].peer, hold[s].direct)'
      BY OldLinked DEF Owned, OldHold
    <2>. QED  BY <2>1, <2>2, <2>3, <2>4, Zenon DEF Linked
  <1>2. SingleOwner'
    BY DEF Owned, SingleOwner, OldDhts, OldStables, OldTmps, OldHold
  <1>. QED  BY <1>1, <1>2 DEF Owned

(* A step that puts one entry in a table, and leaves it in no other place. *)
LEMMA NewInDhts ==
    ASSUME Owned, TablesOK', Kept, NEW t \in Session, NEW p, Rightful(t, p, TRUE)',
           \A q \in DOMAIN dhts' : (q = p /\ dhts'[q] = t)
                                  \/ (q \in DOMAIN dhts /\ dhts'[q] = dhts[q]),
           OldStables, OldTmps, OldHold, NotInStables(t)', NotInTmps(t)', NotInHold(t)'
    PROVE  Owned'
  <1>1. Linked'
    <2>1. \A q \in DOMAIN dhts' : Rightful(dhts[q], q, TRUE)'
      <3>1. \A q \in DOMAIN dhts' : q \in DOMAIN dhts /\ dhts'[q] = dhts[q] =>
                  Rightful(dhts[q], q, TRUE)'
        BY OldLinked, ZenonT(30) DEF Owned
      <3>2. \A q \in DOMAIN dhts' : q = p /\ dhts'[q] = t => Rightful(dhts[q], q, TRUE)'
        BY DEF Rightful
      <3>. QED  BY <3>1, <3>2, Zenon
    <2>2. \A q \in DOMAIN stables' : Rightful(stables[q].s, q, stables[q].direct)'
      BY OldLinked DEF Owned, OldStables
    <2>3. \A q \in DOMAIN tmps' : Rightful(tmps[q].s, q, tmps[q].direct)'
      BY OldLinked DEF Owned, OldTmps
    <2>4. \A s \in Session : hold'[s] # Nobody =>
            ses'[s].pc \notin Early /\ Rightful(hold[s].s, ses[s].peer, hold[s].direct)'
      BY OldLinked DEF Owned, OldHold
    <2>. QED  BY <2>1, <2>2, <2>3, <2>4, Zenon DEF Linked
  <1>2. SingleOwner'
    <2>1. \A u \in DOMAIN dhts' : \A q \in DOMAIN stables' : dhts'[u] # stables'[q].s
      BY DEF Owned, SingleOwner, OldStables, NotInStables
    <2>2. \A u \in DOMAIN dhts' : \A q \in DOMAIN tmps' : dhts'[u] # tmps'[q].s
      BY DEF Owned, SingleOwner, OldTmps, NotInTmps
    <2>3. \A u \in DOMAIN stables' : \A q \in DOMAIN tmps' : stables'[u].s # tmps'[q].s
      BY DEF Owned, SingleOwner, OldStables, OldTmps
    <2>4. \A s \in Session : hold'[s] # Nobody =>
             \A q \in DOMAIN dhts' : dhts'[q] # hold'[s].s
      BY DEF Owned, SingleOwner, OldHold, NotInHold
    <2>5. \A s \in Session : hold'[s] # Nobody =>
             \A q \in DOMAIN stables' : stables'[q].s # hold'[s].s
      BY DEF Owned, SingleOwner, OldHold, OldStables
    <2>6. \A s \in Session : hold'[s] # Nobody =>
             \A q \in DOMAIN tmps' : tmps'[q].s # hold'[s].s
      BY DEF Owned, SingleOwner, OldHold, OldTmps
    <2>7. \A s \in Session : hold'[s] # Nobody =>
             \A x \in Session \ {s} : hold'[x] # Nobody => hold'[x].s # hold'[s].s
      BY DEF Owned, SingleOwner, OldHold
    <2>. QED  BY ZenonT(40), <2>1, <2>2, <2>3, <2>4, <2>5, <2>6, <2>7 DEF SingleOwner
  <1>. QED  BY <1>1, <1>2 DEF Owned

(* The same for stables: add_stable and dht_to_stable. *)
LEMMA NewInStables ==
    ASSUME Owned, TablesOK', Kept, NEW t \in Session, NEW p, NEW d, Rightful(t, p, d)',
           \A q \in DOMAIN stables' : (q = p /\ stables'[q] = [s |-> t, direct |-> d])
                                     \/ (q \in DOMAIN stables /\ stables'[q] = stables[q]),
           OldDhts, OldTmps, OldHold, NotInDhts(t)', NotInTmps(t)', NotInHold(t)'
    PROVE  Owned'
  <1>1. Linked'
    <2>1. \A q \in DOMAIN dhts' : Rightful(dhts[q], q, TRUE)'
      BY OldLinked, Zenon DEF Owned, OldDhts
    <2>2. \A q \in DOMAIN stables' : Rightful(stables[q].s, q, stables[q].direct)'
      <3>1. \A q \in DOMAIN stables' : q \in DOMAIN stables /\ stables'[q] = stables[q] =>
                  Rightful(stables[q].s, q, stables[q].direct)'
        BY Zenon, OldLinked DEF Owned
      <3>2. \A q \in DOMAIN stables' : q = p /\ stables'[q] = [s |-> t, direct |-> d] =>
                  Rightful(stables[q].s, q, stables[q].direct)'
        BY DEF Rightful
      <3>. QED  BY Zenon, <3>1, <3>2
    <2>3. \A q \in DOMAIN tmps' : Rightful(tmps[q].s, q, tmps[q].direct)'
      BY OldLinked DEF Owned, OldTmps
    <2>4. \A s \in Session : hold'[s] # Nobody =>
            ses'[s].pc \notin Early /\ Rightful(hold[s].s, ses[s].peer, hold[s].direct)'
      BY Zenon, OldLinked DEF Owned, OldHold
    <2>. QED  BY <2>1, <2>2, <2>3, <2>4, Zenon DEF Linked
  <1>2. SingleOwner'
    <2>0. \A q \in DOMAIN stables' : stables'[q].s = t
                                     \/ (q \in DOMAIN stables /\ stables'[q].s = stables[q].s)
      OBVIOUS
    <2>1. \A u \in DOMAIN dhts' : \A q \in DOMAIN stables' : dhts'[u] # stables'[q].s
      BY SMTT(20), <2>0 DEF Owned, SingleOwner, OldDhts, NotInDhts
    <2>2. \A u \in DOMAIN dhts' : \A q \in DOMAIN tmps' : dhts'[u] # tmps'[q].s
      BY SMTT(20) DEF Owned, SingleOwner, OldDhts, OldTmps
    <2>3. \A u \in DOMAIN stables' : \A q \in DOMAIN tmps' : stables'[u].s # tmps'[q].s
      BY SMTT(20), <2>0 DEF Owned, SingleOwner, OldTmps, NotInTmps
    <2>4. \A s \in Session : hold'[s] # Nobody =>
             \A q \in DOMAIN dhts' : dhts'[q] # hold'[s].s
      BY DEF Owned, SingleOwner, OldHold, OldDhts
    <2>5. \A s \in Session : hold'[s] # Nobody =>
             \A q \in DOMAIN stables' : stables'[q].s # hold'[s].s
      BY SMTT(40), <2>0 DEF Owned, SingleOwner, OldHold, NotInHold
    <2>6. \A s \in Session : hold'[s] # Nobody =>
             \A q \in DOMAIN tmps' : tmps'[q].s # hold'[s].s
      BY DEF Owned, SingleOwner, OldHold, OldTmps
    <2>7. \A s \in Session : hold'[s] # Nobody =>
             \A x \in Session \ {s} : hold'[x] # Nobody => hold'[x].s # hold'[s].s
      BY DEF Owned, SingleOwner, OldHold
    <2>. QED  BY ZenonT(40), <2>1, <2>2, <2>3, <2>4, <2>5, <2>6, <2>7 DEF SingleOwner
  <1>. QED  BY <1>1, <1>2 DEF Owned

(* The same for tmps: add_tmp. *)
LEMMA NewInTmps ==
    ASSUME Owned, TablesOK', Kept, NEW t \in Session, NEW p, NEW d, Rightful(t, p, d)',
           \A q \in DOMAIN tmps' : (q = p /\ tmps'[q] = Entry(t, d))
                                  \/ (q \in DOMAIN tmps /\ tmps'[q] = tmps[q]),
           OldDhts, OldStables, OldHold, NotInDhts(t)', NotInStables(t)', NotInHold(t)'
    PROVE  Owned'
  <1>1. Linked'
    <2>1. \A q \in DOMAIN dhts' : Rightful(dhts[q], q, TRUE)'
      BY OldLinked, ZenonT(30) DEF Owned, OldDhts
    <2>2. \A q \in DOMAIN stables' : Rightful(stables[q].s, q, stables[q].direct)'
      BY OldLinked DEF Owned, OldStables
    <2>3. \A q \in DOMAIN tmps' : Rightful(tmps[q].s, q, tmps[q].direct)'
      <3>1. \A q \in DOMAIN tmps' : q \in DOMAIN tmps /\ tmps'[q] = tmps[q] =>
                  Rightful(tmps[q].s, q, tmps[q].direct)'
        BY Zenon, OldLinked DEF Owned
      <3>2. \A q \in DOMAIN tmps' : q = p /\ tmps'[q] = Entry(t, d) =>
                  Rightful(tmps[q].s, q, tmps[q].direct)'
        BY DEF Rightful, Entry
      <3>. QED  BY Zenon, <3>1, <3>2
    <2>4. \A s \in Session : hold'[s] # Nobody =>
            ses'[s].pc \notin Early /\ Rightful(hold[s].s, ses[s].peer, hold[s].direct)'
      BY Zenon, OldLinked DEF Owned, OldHold
    <2>. QED  BY <2>1, <2>2, <2>3, <2>4, Zenon DEF Linked
  <1>2. SingleOwner'
    <2>0. \A q \in DOMAIN tmps' : tmps'[q].s = t
                                  \/ (q \in DOMAIN tmps /\ tmps'[q].s = tmps[q].s)
      BY DEF Entry
    <2>1. \A u \in DOMAIN dhts' : \A q \in DOMAIN stables' : dhts'[u] # stables'[q].s
      BY DEF Owned, SingleOwner, OldDhts, OldStables
    <2>2. \A u \in DOMAIN dhts' : \A q \in DOMAIN tmps' : dhts'[u] # tmps'[q].s
      BY SMTT(20), <2>0 DEF Owned, SingleOwner, OldDhts, NotInDhts
    <2>3. \A u \in DOMAIN stables' : \A q \in DOMAIN tmps' : stables'[u].s # tmps'[q].s
      BY SMTT(20), <2>0 DEF Owned, SingleOwner, OldStables, NotInStables
    <2>4. \A s \in Session : hold'[s] # Nobody =>
             \A q \in DOMAIN dhts' : dhts'[q] # hold'[s].s
      BY DEF Owned, SingleOwner, OldHold, OldDhts
    <2>5. \A s \in Session : hold'[s] # Nobody =>
             \A q \in DOMAIN stables' : stables'[q].s # hold'[s].s
      BY DEF Owned, SingleOwner, OldHold, OldStables
    <2>6. \A s \in Session : hold'[s] # Nobody =>
             \A q \in DOMAIN tmps' : tmps'[q].s # hold'[s].s
      BY SMTT(40), <2>0 DEF Owned, SingleOwner, OldHold, NotInHold
    <2>7. \A s \in Session : hold'[s] # Nobody =>
             \A x \in Session \ {s} : hold'[x] # Nobody => hold'[x].s # hold'[s].s
      BY DEF Owned, SingleOwner, OldHold
    <2>. QED  BY ZenonT(40), <2>1, <2>2, <2>3, <2>4, <2>5, <2>6, <2>7 DEF SingleOwner
  <1>. QED  BY <1>1, <1>2 DEF Owned

(* The same for the hands of a task between two locks. *)
LEMMA NewInHold ==
    ASSUME Owned, TablesOK', Kept, NEW t \in Session, NEW s \in Session, NEW d,
           ses'[s].pc \notin Early, Rightful(t, ses[s].peer, d)',
           hold'[s] = [s |-> t, direct |-> d],
           \A x \in Session \ {s} : hold'[x] = hold[x] /\ (hold[x] # Nobody => hold[x].s # t),
           OldDhts, OldStables, OldTmps, NotInDhts(t)', NotInStables(t)', NotInTmps(t)'
    PROVE  Owned'
  <1>1. Linked'
    <2>1. \A q \in DOMAIN dhts' : Rightful(dhts[q], q, TRUE)'
      BY OldLinked, ZenonT(30) DEF Owned, OldDhts
    <2>2. \A q \in DOMAIN stables' : Rightful(stables[q].s, q, stables[q].direct)'
      BY Zenon, OldLinked DEF Owned, OldStables
    <2>3. \A q \in DOMAIN tmps' : Rightful(tmps[q].s, q, tmps[q].direct)'
      BY Zenon, OldLinked DEF Owned, OldTmps
    <2>4. \A x \in Session \ {s} : hold'[x] # Nobody =>
            ses'[x].pc \notin Early /\ Rightful(hold[x].s, ses[x].peer, hold[x].direct)'
      BY Zenon, OldLinked DEF Owned
    <2>5. ses'[s].pc \notin Early /\ Rightful(hold[s].s, ses[s].peer, hold[s].direct)'
      BY DEF Rightful
    <2>. QED  BY <2>1, <2>2, <2>3, <2>4, <2>5, Zenon DEF Linked
  <1>2. SingleOwner'
    <2>1. \A u \in DOMAIN dhts' :
             /\ \A q \in DOMAIN stables' : dhts'[u] # stables'[q].s
             /\ \A q \in DOMAIN tmps' : dhts'[u] # tmps'[q].s
      BY DEF Owned, SingleOwner, OldDhts, OldStables, OldTmps
    <2>2. \A u \in DOMAIN stables' : \A q \in DOMAIN tmps' : stables'[u].s # tmps'[q].s
      BY DEF Owned, SingleOwner, OldStables, OldTmps
    <2>3. \A x \in Session \ {s} : hold'[x] # Nobody =>
             /\ \A q \in DOMAIN dhts' : dhts'[q] # hold'[x].s
             /\ \A q \in DOMAIN stables' : stables'[q].s # hold'[x].s
             /\ \A q \in DOMAIN tmps' : tmps'[q].s # hold'[x].s
             /\ hold'[x].s # t
             /\ \A y \in Session \ {s, x} : hold'[y] # Nobody => hold'[y].s # hold'[x].s
      BY DEF Owned, SingleOwner, OldDhts, OldStables, OldTmps
    <2>4. /\ hold'[s].s = t
          /\ \A q \in DOMAIN dhts' : dhts'[q] # t
          /\ \A q \in DOMAIN stables' : stables'[q].s # t
          /\ \A q \in DOMAIN tmps' : tmps'[q].s # t
      BY DEF NotInDhts, NotInStables, NotInTmps
    <2>. QED  BY ZenonT(40), <2>1, <2>2, <2>3, <2>4 DEF SingleOwner
  <1>. QED  BY <1>1, <1>2 DEF Owned

(* A step that does not touch the tables. *)
LEMMA TablesStill ==
    ASSUME Owned, Kept, UNCHANGED <<dhts, stables, tmps, connects, results, hold>>
    PROVE  Owned'
  <1>1. TablesOK'
    BY DEF Owned, TablesOK, Partial
  <1>2. OldDhts /\ OldStables /\ OldTmps /\ OldHold
    BY DEF OldDhts, OldStables, OldTmps, OldHold
  <1>. QED  BY <1>1, <1>2, FewerEntries

(* A step that removes the entries of one peer from some of the tables, or
   adds a request that waits for a connection. *)
LEMMA TablesShrink ==
    ASSUME Owned, Kept, NEW p, UNCHANGED hold,
           dhts' \in {dhts, Drop(dhts, p)}, stables' \in {stables, Drop(stables, p)},
           tmps' \in {tmps, Drop(tmps, p)},
           \/ connects' \in {connects, Drop(connects, p)}
           \/ p \in Peer /\ connects' = Put(connects, p, FALSE),
           \/ results' \in {results, Drop(results, p)}
           \/ p \in Peer /\ results' = Put(results, p, FALSE)
    PROVE  Owned'
  <1>1. Partial(dhts, Peer, Session)' /\ OldDhts
    BY DEF Owned, TablesOK, Partial, Drop, D!Drop, D!Restrict, OldDhts
  <1>2. Partial(stables, Peer, [s : Session, direct : BOOLEAN])' /\ OldStables
    <2>. DEFINE T == [s : Session, direct : BOOLEAN]
    <2>1. Partial(stables, Peer, T)
      BY DEF Owned, TablesOK
    <2>. HIDE DEF T
    <2>2. Partial(stables, Peer, T)' /\ OldStables
      BY <2>1 DEF Partial, Drop, D!Drop, D!Restrict, OldStables
    <2>. QED  BY <2>2 DEF T
  <1>3. Partial(tmps, Peer, [s : Session, direct : BOOLEAN, marked : BOOLEAN])' /\ OldTmps
    <2>. DEFINE T == [s : Session, direct : BOOLEAN, marked : BOOLEAN]
    <2>1. Partial(tmps, Peer, T)
      BY DEF Owned, TablesOK
    <2>. HIDE DEF T
    <2>2. Partial(tmps, Peer, T)' /\ OldTmps
      BY <2>1 DEF Partial, Drop, D!Drop, D!Restrict, OldTmps
    <2>. QED  BY <2>2 DEF T
  <1>4. Partial(connects, Peer, BOOLEAN)'
    BY Zenon DEF Owned, TablesOK, Partial, Drop, D!Drop, D!Restrict, Put, D!Put
  <1>5. Partial(results, Peer, BOOLEAN)'
    BY Zenon DEF Owned, TablesOK, Partial, Drop, D!Drop, D!Restrict, Put, D!Put
  <1>6. OldHold /\ (hold \in [Session -> [s : Session, direct : BOOLEAN] \cup {Nobody}])'
    BY DEF Owned, TablesOK, OldHold
  <1>7. TablesOK'
    BY <1>1, <1>2, <1>3, <1>4, <1>5, <1>6 DEF TablesOK
  <1>. QED  BY ZenonT(40), <1>1, <1>2, <1>3, <1>6, <1>7, FewerEntries

(* timer_clear removes what it marked in its last pass and marks the rest. *)
LEMMA TablesTimer ==
    ASSUME Owned, Kept, TimerClear
    PROVE  Owned'
  <1>1. /\ UNCHANGED <<dhts, stables, hold>>
        /\ tmps' = [p \in DOMAIN tmps \ {p \in DOMAIN tmps : tmps[p].marked} |->
                        [tmps[p] EXCEPT !.marked = TRUE]]
        /\ connects' = Sweep(connects) /\ results' = Sweep(results)
    BY DEF TimerClear
  <1>2. Partial(tmps, Peer, [s : Session, direct : BOOLEAN, marked : BOOLEAN])
    BY DEF Owned, TablesOK
  <1>3. /\ DOMAIN tmps' \subseteq DOMAIN tmps
        /\ tmps' = [p \in DOMAIN tmps' |-> [tmps[p] EXCEPT !.marked = TRUE]]
    BY <1>1
  <1>4. \A p \in DOMAIN tmps' : tmps'[p] = [tmps[p] EXCEPT !.marked = TRUE]
    BY <1>3
  <1>5. \A p \in DOMAIN tmps' :
           /\ tmps'[p] \in [s : Session, direct : BOOLEAN, marked : BOOLEAN]
           /\ tmps'[p].s = tmps[p].s /\ tmps'[p].direct = tmps[p].direct
    <2>1. ASSUME NEW e \in [s : Session, direct : BOOLEAN, marked : BOOLEAN]
          PROVE  /\ [e EXCEPT !.marked = TRUE] \in [s : Session, direct : BOOLEAN, marked : BOOLEAN]
                 /\ [e EXCEPT !.marked = TRUE].s = e.s
                 /\ [e EXCEPT !.marked = TRUE].direct = e.direct
      BY ZenonT(30)
    <2>2. TAKE p \in DOMAIN tmps'
    <2>3. tmps[p] \in [s : Session, direct : BOOLEAN, marked : BOOLEAN]
      BY <1>2, <1>3 DEF Partial
    <2>. QED  BY <1>4, <2>1, <2>3
  <1>6. Partial(tmps, Peer, [s : Session, direct : BOOLEAN, marked : BOOLEAN])'
    BY <1>2, <1>3, <1>5 DEF Partial
  <1>7. OldDhts /\ OldStables /\ OldTmps /\ OldHold
    BY <1>1, <1>3, <1>5 DEF OldDhts, OldStables, OldTmps, OldHold
  <1>8. Partial(connects, Peer, BOOLEAN)' /\ Partial(results, Peer, BOOLEAN)'
    BY <1>1 DEF Owned, TablesOK, Partial, Sweep
  <1>9. TablesOK'
    BY Zenon, <1>1, <1>6, <1>8 DEF Owned, TablesOK, Partial
  <1>. QED  BY <1>7, <1>9, FewerEntries

(* A session that has not got past its start is in no table. *)
LEMMA EarlyNowhere ==
    ASSUME Owned, NEW t \in Session, ses[t].pc \in Early
    PROVE  NotInDhts(t) /\ NotInStables(t) /\ NotInTmps(t) /\ NotInHold(t)
  BY Zenon DEF Owned, Linked, Rightful, NotInDhts, NotInStables, NotInTmps, NotInHold

(* add_tmp puts the entry of a new session in tmps. *)
LEMMA TablesAddTmp ==
    ASSUME Owned, Kept, NEW t \in Session, NEW p \in Peer, NEW d \in BOOLEAN,
           ses[t].pc \in Early, Rightful(t, p, d)',
           tmps' = Put(tmps, p, Entry(t, d)),
           connects' \in {connects, Drop(connects, p)}, results' \in {results, Drop(results, p)},
           UNCHANGED <<dhts, stables, hold>>
    PROVE  Owned'
  <1>. DEFINE T == [s : Session, direct : BOOLEAN, marked : BOOLEAN]
  <1>1. Partial(tmps, Peer, T) /\ Entry(t, d) \in T
    BY DEF Owned, TablesOK, Entry
  <1>. HIDE DEF T
  <1>2. Partial(tmps, Peer, T)'
    BY <1>1 DEF Partial, Put, D!Put
  <1>3. \A q \in DOMAIN tmps' : (q = p /\ tmps'[q] = Entry(t, d))
                                \/ (q \in DOMAIN tmps /\ tmps'[q] = tmps[q])
    BY DEF Put, D!Put
  <1>4. Partial(connects, Peer, BOOLEAN)' /\ Partial(results, Peer, BOOLEAN)'
    BY DEF Owned, TablesOK, Partial, Drop, D!Drop, D!Restrict
  <1>5. TablesOK'
    BY Zenon, <1>2, <1>4 DEF Owned, TablesOK, Partial, T
  <1>6. OldDhts /\ OldStables /\ OldHold
    BY Zenon DEF OldDhts, OldStables, OldHold
  <1>7. NotInDhts(t)' /\ NotInStables(t)' /\ NotInHold(t)'
    BY EarlyNowhere DEF NotInDhts, NotInStables, NotInHold
  <1>. QED  BY ZenonT(40), <1>3, <1>5, <1>6, <1>7, NewInTmps

(* What DoubleKadTree::add leaves when the session it adds is elsewhere no more. *)
LEMMA TablesAddDht ==
    ASSUME Owned, Kept, NEW t \in Session, NEW p \in Peer, Rightful(t, p, TRUE)',
           NEW o \in D!AddOutcome(dhts, p, t), dhts' = o.table,
           TablesOK', OldStables, OldTmps, OldHold,
           NotInStables(t)', NotInTmps(t)', NotInHold(t)'
    PROVE  Owned'
  <1>1. Partial(dhts, Peer, Session)
    BY DEF Owned, TablesOK
  <1>2. \A q \in DOMAIN dhts' : (q = p /\ dhts'[q] = t)
                                \/ (q \in DOMAIN dhts /\ dhts'[q] = dhts[q])
    BY <1>1, AddFacts
  <1>. QED  BY <1>2, NewInDhts, Zenon

(* The same, with the types. *)
LEMMA AddDhtTyped ==
    ASSUME TablesOK, NEW t \in Session, NEW p \in Peer,
           NEW o \in D!AddOutcome(dhts, p, t), dhts' = o.table
    PROVE  Partial(dhts, Peer, Session)'
  <1>1. Partial(o.table, Peer, Session)
    BY AddFacts DEF TablesOK
  <1>. QED  BY <1>1 DEF Partial

(* Taking the entry of the peer out of tmps: the first lock of an upgrade and
   of tmp_to_dht. *)
LEMMA TablesTake ==
    ASSUME Owned, Kept, NEW s \in Session, ses[s].pc \notin Early,
           hold' = [hold EXCEPT ![s] = IF ses[s].peer \in DOMAIN tmps
                                       THEN Value(tmps[ses[s].peer]) ELSE Nobody],
           tmps' = Drop(tmps, ses[s].peer),
           UNCHANGED <<dhts, stables, connects, results>>
    PROVE  Owned'
  <1>. DEFINE p == ses[s].peer
              t == tmps[p].s
              d == tmps[p].direct
              T == [s : Session, direct : BOOLEAN, marked : BOOLEAN]
  <1>0. Partial(tmps, Peer, T) /\ hold \in [Session -> [s : Session, direct : BOOLEAN] \cup {Nobody}]
    BY DEF Owned, TablesOK
  <1>1. p \in DOMAIN tmps => t \in Session /\ d \in BOOLEAN /\ Value(tmps[p]) = [s |-> t, direct |-> d]
    BY ZenonT(40), <1>0 DEF Partial, Value
  <1>2. (hold \in [Session -> [s : Session, direct : BOOLEAN] \cup {Nobody}])'
    BY <1>0, <1>1
  <1>. HIDE DEF T
  <1>3. Partial(tmps, Peer, T)' /\ OldTmps /\ p \notin DOMAIN tmps'
    BY <1>0 DEF Partial, Drop, D!Drop, D!Restrict, OldTmps
  <1>4. TablesOK'
    BY Zenon, <1>2, <1>3 DEF Owned, TablesOK, Partial, T
  <1>5. OldDhts /\ OldStables
    BY Zenon DEF OldDhts, OldStables
  <1>6. CASE p \notin DOMAIN tmps
    <2>1. OldHold
      BY Zenon, <1>0, <1>6 DEF OldHold
    <2>. QED  BY Zenon, <1>3, <1>4, <1>5, <2>1, FewerEntries
  <1>7. CASE p \in DOMAIN tmps
    <2>1. PICK u \in Session, b \in BOOLEAN, q \in Peer :
             u = t /\ b = d /\ q = p /\ hold'[s] = [s |-> u, direct |-> b]
      BY <1>0, <1>1, <1>7 DEF Partial
    <2>2. ses'[s].pc \notin Early /\ ses'[s].peer = q
      BY Zenon, <2>1 DEF Kept, Follows
    <2>3. Rightful(u, q, b)
      BY Zenon, <1>7, <2>1 DEF Owned, Linked
    <2>4. Rightful(u, q, b)'
      BY Zenon, <2>3, RightfulKept
    <2>5. Rightful(u, ses[s].peer, b)'
      BY Zenon, <2>2, <2>4 DEF Rightful
    <2>6. \A x \in Session \ {s} : hold'[x] = hold[x] /\ (hold[x] # Nobody => hold[x].s # u)
      BY ZenonT(40), <1>0, <1>7, <2>1 DEF Owned, SingleOwner
    <2>7. NotInDhts(u)' /\ NotInStables(u)'
      BY Zenon, <1>7, <2>1 DEF Owned, SingleOwner, NotInDhts, NotInStables
    <2>8. NotInTmps(u)'
      <3>1. \A x \in DOMAIN tmps : ses[tmps[x].s].peer = x
        BY Zenon DEF Owned, Linked, Rightful
      <3>2. ses[u].peer = q
        BY Zenon, <2>3 DEF Rightful
      <3>3. \A x \in DOMAIN tmps' : x \in DOMAIN tmps /\ x # q /\ tmps'[x].s = tmps[x].s
        BY Zenon, <1>3, <2>1 DEF OldTmps
      <3>4. \A x \in DOMAIN tmps' : tmps'[x].s # u
        BY <3>1, <3>2, <3>3
      <3>. QED  BY <3>4 DEF NotInTmps
    <2>9. OldTmps /\ hold'[s] = [s |-> u, direct |-> b]
      BY Zenon, <1>3, <2>1
    <2>. HIDE DEF p, t, d
    <2>. QED  BY ZenonT(40), <1>4, <1>5, <2>2, <2>5, <2>6, <2>7, <2>8, <2>9, NewInHold
  <1>. QED  BY ZenonT(40), <1>6, <1>7

(* add_stable takes the entry out of the hands of the task. *)
LEMMA TablesUpgradeAdd ==
    ASSUME Owned, Kept, NEW s \in Session, UpgradeAdd(s), ses[s].peer \in Peer
    PROVE  Owned'
  <1>. DEFINE T == [s : Session, direct : BOOLEAN]
  <1>1. /\ stables' = Put(stables, ses[s].peer, hold[s])
        /\ hold' = [hold EXCEPT ![s] = Nobody]
        /\ hold[s] # Nobody
        /\ UNCHANGED <<dhts, tmps, connects, results>>
    BY Zenon DEF UpgradeAdd
  <1>2. Partial(stables, Peer, T) /\ hold \in [Session -> T \cup {Nobody}]
    BY DEF Owned, TablesOK
  <1>3. hold[s] \in T
    BY <1>1, <1>2
  <1>4. PICK u \in Session, b \in BOOLEAN, q \in Peer :
           hold[s] = [s |-> u, direct |-> b] /\ q = ses[s].peer
    BY Zenon, <1>3
  <1>5. Rightful(u, q, b)
    BY <1>1, <1>4 DEF Owned, Linked
  <1>6. Rightful(u, q, b)'
    BY ZenonT(40), <1>5, RightfulKept
  <1>7. \A x \in DOMAIN stables' : (x = q /\ stables'[x] = [s |-> u, direct |-> b])
                                   \/ (x \in DOMAIN stables /\ stables'[x] = stables[x])
    BY <1>1, <1>4 DEF Put, D!Put
  <1>. HIDE DEF T
  <1>8. Partial(stables, Peer, T)'
    BY <1>1, <1>2, <1>3 DEF Partial, Put, D!Put
  <1>9. OldHold /\ (hold \in [Session -> T \cup {Nobody}])' /\ hold'[s] = Nobody
    BY <1>1, <1>2 DEF OldHold
  <1>10. TablesOK'
    BY <1>1, <1>8, <1>9 DEF Owned, TablesOK, Partial, T
  <1>11. OldDhts /\ OldTmps
    BY Zenon, <1>1 DEF OldDhts, OldTmps
  <1>12. NotInDhts(u)' /\ NotInTmps(u)'
    <2>1. /\ \A x \in DOMAIN dhts : dhts[x] # hold[s].s
          /\ \A x \in DOMAIN tmps : tmps[x].s # hold[s].s
      BY ZenonT(40), <1>1 DEF Owned, SingleOwner
    <2>2. hold[s].s = u
      BY <1>4
    <2>. QED  BY ZenonT(40), <1>1, <2>1, <2>2 DEF NotInDhts, NotInTmps
  <1>13. NotInHold(u)'
    <2>1. \A x \in Session \ {s} : hold[x] # Nobody => hold[x].s # hold[s].s
      BY ZenonT(40), <1>1 DEF Owned, SingleOwner
    <2>2. hold[s].s = u
      BY <1>4
    <2>. QED  BY ZenonT(40), <1>9, <2>1, <2>2 DEF NotInHold, OldHold
  <1>. QED  BY ZenonT(40), <1>6, <1>7, <1>9, <1>10, <1>11, <1>12, <1>13, NewInStables

(* dht_to_stable moves the entry of the peer. *)
LEMMA TablesUpgradeDht ==
    ASSUME Owned, Kept, NEW s \in Session, UpgradeDht(s)
    PROVE  Owned'
  <1>. DEFINE T == [s : Session, direct : BOOLEAN]
  <1>1. /\ ses[s].peer \in DOMAIN dhts
        /\ dhts' = Drop(dhts, ses[s].peer)
        /\ stables' = Put(stables, ses[s].peer, [s |-> dhts[ses[s].peer], direct |-> TRUE])
        /\ UNCHANGED <<tmps, connects, results, hold>>
    BY DEF UpgradeDht
  <1>2. Partial(stables, Peer, T) /\ Partial(dhts, Peer, Session)
    BY DEF Owned, TablesOK
  <1>3. PICK u \in Session, q \in Peer : q \in DOMAIN dhts /\ u = dhts[q] /\ q = ses[s].peer
    BY <1>1, <1>2 DEF Partial
  <1>4. [s |-> u, direct |-> TRUE] \in T
    OBVIOUS
  <1>5. Rightful(u, q, TRUE)
    BY <1>3, Zenon DEF Owned, Linked
  <1>6. Rightful(u, q, TRUE)'
    BY <1>5, RightfulKept, Zenon
  <1>7. \A x \in DOMAIN stables' : (x = q /\ stables'[x] = [s |-> u, direct |-> TRUE])
                                   \/ (x \in DOMAIN stables /\ stables'[x] = stables[x])
    BY <1>1, <1>3 DEF Put, D!Put
  <1>. HIDE DEF T
  <1>8. Partial(stables, Peer, T)'
    BY ZenonT(40), <1>1, <1>2, <1>3, <1>4 DEF Partial, Put, D!Put
  <1>9. Partial(dhts, Peer, Session)' /\ OldDhts /\ q \notin DOMAIN dhts'
    BY <1>1, <1>2, <1>3 DEF Partial, Drop, D!Drop, D!Restrict, OldDhts
  <1>10. TablesOK'
    BY Zenon, <1>1, <1>8, <1>9 DEF Owned, TablesOK, Partial, T
  <1>11. OldHold /\ OldTmps
    BY ZenonT(40), <1>1 DEF OldHold, OldTmps
  <1>12. NotInTmps(u)' /\ NotInHold(u)'
    BY <1>1, <1>3 DEF Owned, SingleOwner, NotInHold, NotInTmps
  <1>13. NotInDhts(u)'
    <2>1. \A x \in DOMAIN dhts : x # q => dhts[x] # u
      BY <1>5 DEF Owned, Linked, Rightful
    <2>. QED  BY ZenonT(40), <1>9, <2>1 DEF OldDhts, NotInDhts
  <1>. QED  BY ZenonT(40), <1>6, <1>7, <1>9, <1>10, <1>11, <1>12, <1>13, NewInStables

(* stable_to_dht moves the entry of the peer back, if it is direct. *)
LEMMA TablesCloseStable ==
    ASSUME Owned, Kept, NEW s \in Session, CloseStableList(s)
    PROVE  Owned'
  <1>. DEFINE T == [s : Session, direct : BOOLEAN]
              p == ses[s].peer
  <1>1. /\ stables' = Drop(stables, p)
        /\ UNCHANGED <<tmps, connects, results, hold>>
    BY Zenon DEF CloseStableList
  <1>2. Partial(stables, Peer, T)
    BY DEF Owned, TablesOK
  <1>. HIDE DEF T
  <1>3. Partial(stables, Peer, T)' /\ OldStables /\ p \notin DOMAIN stables'
    BY <1>1, <1>2 DEF Partial, Drop, D!Drop, D!Restrict, OldStables
  <1>4. OldTmps /\ OldHold
    BY <1>1 DEF OldTmps, OldHold
  <1>5. CASE p \in DOMAIN stables /\ stables[p].direct
    <2>1. stables[p] \in T /\ p \in Peer
      BY <1>2, <1>5 DEF Partial
    <2>2. PICK u \in Session, q \in Peer : u = stables[p].s /\ q = p
      BY Zenon, <2>1 DEF T
    <2>3. PICK o \in D!AddOutcome(dhts, q, u) : dhts' = o.table
      BY <1>5, <2>2 DEF CloseStableList
    <2>4. Partial(dhts, Peer, Session)'
      BY Zenon, <2>3, AddDhtTyped DEF Owned
    <2>5. TablesOK'
      BY <1>1, <1>3, <2>4 DEF Owned, TablesOK, Partial, T
    <2>6. Rightful(u, q, TRUE)
      BY <1>5, <2>2, Zenon DEF Owned, Linked, Rightful
    <2>7. Rightful(u, q, TRUE)'
      BY Zenon, <2>6, RightfulKept
    <2>8. NotInTmps(u)' /\ NotInHold(u)'
      BY ZenonT(40), <1>1, <1>5, <2>2 DEF Owned, SingleOwner, NotInTmps, NotInHold
    <2>9. NotInStables(u)'
      <3>1. \A x \in DOMAIN stables : x # q => stables[x].s # u
        BY <2>6, Zenon DEF Owned, Linked, Rightful
      <3>. QED  BY <1>3, <2>2, <3>1 DEF OldStables, NotInStables
    <2>. QED  BY <1>3, <1>4, <2>3, <2>5, <2>7, <2>8, <2>9, TablesAddDht, Zenon
  <1>6. CASE ~(p \in DOMAIN stables /\ stables[p].direct)
    <2>1. dhts' = dhts
      BY Zenon, <1>6 DEF CloseStableList
    <2>. QED  BY Zenon, <1>1, <2>1, TablesShrink
  <1>. QED  BY <1>5, <1>6, SMTT(20)

(* tmp_to_dht adds the entry in the hands of the task to the DHT, if it is
   direct, and drops it otherwise. *)
LEMMA TablesCloseTmp ==
    ASSUME Owned, Kept, NEW s \in Session, CloseTmpList(s), ses[s].peer \in Peer
    PROVE  Owned'
  <1>. DEFINE T == [s : Session, direct : BOOLEAN]
  <1>1. /\ hold' = [hold EXCEPT ![s] = Nobody]
        /\ UNCHANGED <<stables, tmps, connects, results>>
    BY DEF CloseTmpList
  <1>2. hold \in [Session -> T \cup {Nobody}]
    BY DEF Owned, TablesOK
  <1>. HIDE DEF T
  <1>3. OldHold /\ (hold \in [Session -> T \cup {Nobody}])' /\ hold'[s] = Nobody
    BY <1>1, <1>2 DEF OldHold
  <1>4. OldStables /\ OldTmps
    BY <1>1 DEF OldStables, OldTmps
  <1>5. CASE hold[s] # Nobody /\ hold[s].direct
    <2>1. hold[s] \in T
      BY <1>2, <1>5
    <2>2. PICK u \in Session, q \in Peer : u = hold[s].s /\ q = ses[s].peer
      BY <2>1 DEF T
    <2>3. PICK o \in D!AddOutcome(dhts, q, u) : dhts' = o.table
      BY <1>5, <2>2 DEF CloseTmpList
    <2>4. Partial(dhts, Peer, Session)'
      BY Zenon, <2>3, AddDhtTyped DEF Owned
    <2>5. TablesOK'
      BY <1>1, <1>3, <2>4 DEF Owned, TablesOK, Partial, T
    <2>6. Rightful(u, q, TRUE)
      BY <1>5, <2>2, Zenon DEF Owned, Linked, Rightful
    <2>7. Rightful(u, q, TRUE)'
      BY <2>6, RightfulKept, Zenon
    <2>8. NotInTmps(u)' /\ NotInStables(u)'
      BY Zenon, <1>1, <1>5, <2>2 DEF Owned, SingleOwner, NotInTmps, NotInStables
    <2>9. NotInHold(u)'
      BY ZenonT(40), <1>1, <1>2, <1>3, <1>5, <2>2 DEF Owned, SingleOwner, NotInHold, OldHold
    <2>. QED  BY <1>3, <1>4, <2>3, <2>5, <2>7, <2>8, <2>9, TablesAddDht, Zenon
  <1>6. CASE ~(hold[s] # Nobody /\ hold[s].direct)
    <2>1. dhts' = dhts
      BY <1>6 DEF CloseTmpList
    <2>2. OldDhts
      BY <2>1 DEF OldDhts
    <2>3. TablesOK'
      BY <1>1, <1>3, <2>1 DEF Owned, TablesOK, Partial, T
    <2>. QED  BY Zenon, <1>3, <1>4, <2>2, <2>3, FewerEntries
  <1>. QED  BY Zenon, <1>5, <1>6

(* The three places where the entry of a new session appears. *)
LEMMA TablesStart ==
    ASSUME Owned, Kept, SessionsOK, NEW s \in Session,
           AddDht(s) \/ DirectAddTmp(s) \/ RelayAddTmp(s) \/ RelaySpawn(s)
    PROVE  Owned'
  <1>1. ses[s].pc \in Early /\ ses[s].peer \in Peer /\ ses[s] \in SessionState
    BY Zenon DEF AddDht, DirectAddTmp, RelayAddTmp, RelaySpawn, Early, SessionsOK
  <1>2. PICK q \in Peer : q = ses[s].peer
    BY <1>1
  <1>3. NotInDhts(s) /\ NotInStables(s) /\ NotInTmps(s) /\ NotInHold(s)
    BY <1>1, EarlyNowhere
  <1>4. CASE AddDht(s)
    <2>. DEFINE r == [ses[s] EXCEPT !.pc = "run", !.direct = TRUE, !.listening = TRUE]
    <2>1. PICK o \in D!AddOutcome(dhts, q, s) :
             dhts' = o.table /\ (Becomes(s, r) \/ ~o.ok)
      BY <1>2, <1>4 DEF AddDht
    <2>2. UNCHANGED <<stables, tmps, connects, results, hold>>
      BY <1>4 DEF AddDht
    <2>3. r.pc = "run" /\ r.peer = q /\ r.direct = TRUE
      BY <1>1, <1>2 DEF SessionState
    <2>. HIDE DEF r
    <2>4. Partial(dhts, Peer, Session)'
      BY Zenon, <2>1, AddDhtTyped DEF Owned
    <2>5. TablesOK'
      BY <2>2, <2>4 DEF Owned, TablesOK, Partial
    <2>6. OldStables /\ OldTmps /\ OldHold
      BY <2>2 DEF OldStables, OldTmps, OldHold
    <2>7. CASE Becomes(s, r)
      <3>1. Rightful(s, q, TRUE)'
        BY Zenon, <2>3, <2>7 DEF Rightful, Becomes, Early, SessionsOK
      <3>2. NotInStables(s)' /\ NotInTmps(s)' /\ NotInHold(s)'
        BY Zenon, <1>3, <2>2 DEF NotInStables, NotInTmps, NotInHold
      <3>. QED  BY Zenon, <2>1, <2>5, <2>6, <3>1, <3>2, TablesAddDht
    <2>8. CASE ~o.ok
      <3>1. Partial(dhts, Peer, Session)
        BY DEF Owned, TablesOK
      <3>2. dhts' = dhts
        BY <2>1, <2>8, <3>1, AddFacts
      <3>. QED  BY <2>2, <3>2, TablesStill
    <2>. QED  BY <2>1, <2>7, <2>8
  <1>5. CASE DirectAddTmp(s)
    <2>. DEFINE r1 == [ses[s] EXCEPT !.pc = "up_tmp", !.direct = TRUE, !.stable = TRUE]
                r2 == [Over(s) EXCEPT !.direct = TRUE]
    <2>1. Becomes(s, r1) \/ Becomes(s, r2)
      BY <1>5 DEF DirectAddTmp
    <2>2. /\ r1.pc = "up_tmp" /\ r1.peer = q /\ r1.direct = TRUE
          /\ r2.pc = "dead" /\ r2.peer = q /\ r2.direct = TRUE
      BY <1>1, <1>2 DEF SessionState, Over, Unborn
    <2>. HIDE DEF r1, r2
    <2>3. Rightful(s, q, TRUE)'
      BY <2>1, <2>2 DEF Rightful, Becomes, Early, SessionsOK
    <2>4. /\ tmps' = Put(tmps, q, Entry(s, TRUE)) /\ connects' = Drop(connects, q)
          /\ UNCHANGED <<dhts, stables, results, hold>>
      BY <1>2, <1>5 DEF DirectAddTmp
    <2>. QED  BY <1>1, <2>3, <2>4, TablesAddTmp, Zenon
  <1>6. CASE RelayAddTmp(s)
    <2>. DEFINE r == [ses[s] EXCEPT !.pc = "rs_send"]
    <2>1. Becomes(s, r)
      BY <1>6 DEF RelayAddTmp, Goto
    <2>2. r.pc = "rs_send" /\ r.peer = q
      BY <1>1, <1>2 DEF SessionState
    <2>. HIDE DEF r
    <2>3. Rightful(s, q, FALSE)'
      BY <2>1, <2>2 DEF Rightful, Becomes, Early, SessionsOK
    <2>4. /\ tmps' = Put(tmps, q, Entry(s, FALSE))
          /\ connects' = Drop(connects, q) /\ results' = Drop(results, q)
          /\ UNCHANGED <<dhts, stables, hold>>
      BY <1>2, <1>6, Zenon DEF RelayAddTmp
    <2>. QED  BY <1>1, <2>3, <2>4, TablesAddTmp, Zenon
  <1>7. CASE RelaySpawn(s)
    <2>1. ses'[s].pc = "run" /\ ses'[s].peer = q
      BY Zenon, <1>1, <1>2, <1>7 DEF RelaySpawn, SessionsOK, SessionState, Early
    <2>2. Rightful(s, q, FALSE)'
      BY <2>1 DEF Rightful, Early
    <2>3. tmps' = Put(tmps, q, Entry(s, FALSE)) /\ UNCHANGED <<dhts, stables, connects, results, hold>>
      BY <1>2, <1>7 DEF RelaySpawn
    <2>. QED  BY <1>1, <2>2, <2>3, TablesAddTmp, Zenon
  <1>. QED  BY <1>4, <1>5, <1>6, <1>7

----------------------------------------------------------------------------
(* What a step does to the inboxes and to the request being served *)

InboxesOK == InboxOK /\ \A s \in Session : Len(inbox[s]) <= CHANNEL

RequestOK == OutsideOK /\ requests \in 0..REQUESTS

(* A send waits until there is room. *)
LEMMA SendKeeps ==
    ASSUME InboxesOK, NEW t \in Session, NEW m \in Message, Send(t, m)
    PROVE  InboxesOK'
  <1>1. CASE Open(t)
    <2>1. /\ inbox' = [inbox EXCEPT ![t] = Append(inbox[t], m)]
          /\ inbox[t] \in Seq(Message) /\ Len(inbox[t]) < CHANNEL
      BY <1>1 DEF InboxesOK, InboxOK, Send, CanSend
    <2>. DEFINE q == Append(inbox[t], m)
    <2>2. q \in Seq(Message) /\ Len(q) <= CHANNEL
      BY <2>1, BoundsAssumption
    <2>. HIDE DEF q
    <2>3. inbox' = [inbox EXCEPT ![t] = q]
      BY <2>1 DEF q
    <2>. QED  BY <2>2, <2>3 DEF InboxesOK, InboxOK
  <1>2. CASE ~Open(t)
    BY <1>2 DEF Send, InboxesOK, InboxOK
  <1>. QED  BY <1>1, <1>2

(* A task reads a message of its inbox, or drops the inbox with all that is in
   it, or leaves it alone. *)
LEMMA LessInbox ==
    ASSUME InboxesOK, NEW s \in Session,
           \/ UNCHANGED inbox
           \/ inbox' = [inbox EXCEPT ![s] = <<>>]
           \/ inbox[s] # <<>> /\ inbox' = [inbox EXCEPT ![s] = Tail(inbox[s])]
    PROVE  InboxesOK'
  <1>1. CASE UNCHANGED inbox
    BY <1>1 DEF InboxesOK, InboxOK
  <1>2. ASSUME NEW q \in Seq(Message), Len(q) <= CHANNEL, inbox' = [inbox EXCEPT ![s] = q]
        PROVE  InboxesOK'
    BY <1>2 DEF InboxesOK, InboxOK
  <1>3. <<>> \in Seq(Message) /\ Len(<<>>) <= CHANNEL
    BY BoundsAssumption
  <1>4. inbox[s] # <<>> => Tail(inbox[s]) \in Seq(Message) /\ Len(Tail(inbox[s])) <= CHANNEL
    BY BoundsAssumption DEF InboxesOK, InboxOK
  <1>. QED  BY <1>1, <1>2, <1>3, <1>4, Zenon

(* timer_clear waits until every inbox it closes has room. *)
LEMMA TimerInbox ==
    ASSUME InboxesOK, TimerClear
    PROVE  InboxesOK'
  <1>. DEFINE told == {tmps[p].s : p \in {p \in DOMAIN tmps : tmps[p].marked}}
              m == Msg("Close")
  <1>1. m \in Message
    BY DEF Msg, Message
  <1>2. \A s \in told : CanSend(s)
    BY DEF TimerClear
  <1>3. inbox' = [s \in Session |-> IF s \in told /\ Open(s) THEN Append(inbox[s], m) ELSE inbox[s]]
    BY DEF TimerClear
  <1>. HIDE DEF told, m
  <1>4. ASSUME NEW s \in Session
        PROVE  inbox'[s] \in Seq(Message) /\ Len(inbox'[s]) <= CHANNEL
    <2>1. inbox[s] \in Seq(Message) /\ Len(inbox[s]) <= CHANNEL
      BY DEF InboxesOK, InboxOK
    <2>2. CASE s \in told /\ Open(s)
      <3>1. inbox'[s] = Append(inbox[s], m) /\ Len(inbox[s]) < CHANNEL
        BY Zenon, <1>2, <1>3, <2>2 DEF CanSend
      <3>. QED  BY <1>1, <2>1, <3>1, BoundsAssumption
    <2>3. CASE ~(s \in told /\ Open(s))
      <3>1. inbox'[s] = inbox[s]
        BY <1>3, <2>3
      <3>. QED  BY <2>1, <3>1
    <2>. QED  BY <2>2, <2>3
  <1>. QED  BY <1>3, <1>4 DEF InboxesOK, InboxOK

(* add_stable does not wait: it sends only if there is room. *)
LEMMA UpgradeInbox ==
    ASSUME InboxesOK, TablesOK, NEW s \in Session, UpgradeAdd(s)
    PROVE  InboxesOK'
  <1>. DEFINE p == ses[s].peer
              old == stables[p].s
              m == Msg("Close")
              room == p \in DOMAIN stables /\ Open(old) /\ Len(inbox[old]) < CHANNEL
              q == IF room THEN [inbox EXCEPT ![old] = Append(inbox[old], m)] ELSE inbox
  <1>1. inbox' = q \/ inbox' = [q EXCEPT ![s] = <<>>]
    BY Zenon DEF UpgradeAdd, Upgraded
  <1>2. m \in Message
    BY DEF Msg, Message
  <1>3. q \in [Session -> Seq(Message)] /\ \A x \in Session : Len(q[x]) <= CHANNEL
    <2>1. CASE room
      <3>1. PICK u \in Session : u = old
        BY Zenon, <2>1 DEF TablesOK, Partial
      <3>2. inbox[u] \in Seq(Message) /\ Len(inbox[u]) < CHANNEL
        BY <2>1, <3>1 DEF InboxesOK, InboxOK
      <3>. DEFINE a == Append(inbox[u], m)
      <3>3. a \in Seq(Message) /\ Len(a) <= CHANNEL
        BY <1>2, <3>2, BoundsAssumption
      <3>4. q = [inbox EXCEPT ![u] = a]
        BY <2>1, <3>1
      <3>. HIDE DEF q, a
      <3>. QED  BY <3>3, <3>4 DEF InboxesOK, InboxOK
    <2>2. CASE ~room
      <3>1. q = inbox
        BY <2>2
      <3>. HIDE DEF q
      <3>. QED  BY ZenonT(40), <3>1 DEF InboxesOK, InboxOK
    <2>. QED  BY <2>1, <2>2, Zenon
  <1>4. <<>> \in Seq(Message) /\ Len(<<>>) <= CHANNEL
    BY BoundsAssumption
  <1>. HIDE DEF q
  <1>. QED  BY <1>1, <1>3, <1>4, Zenon DEF InboxesOK, InboxOK

----------------------------------------------------------------------------
(* The inductive invariant *)

IInv == SessionsOK /\ Owned /\ InboxesOK /\ RequestOK

(* The sessions do not change. *)
LEMMA SessionsStill ==
    ASSUME SessionsOK, UNCHANGED ses
    PROVE  SessionsOK' /\ Kept
  BY DEF SessionsOK, Kept, Follows

(* The task of the requests passes a message on. *)
LEMMA ForwardStep ==
    ASSUME IInv, NEW t \in Session, NEW m \in Message, Forward(t, m), requests' \in 0..REQUESTS
    PROVE  IInv'
  <1>1. SessionsOK' /\ Kept
    BY SessionsStill DEF IInv, Forward
  <1>2. Owned'
    BY <1>1, TablesStill DEF IInv, Forward, tables
  <1>3. InboxesOK'
    BY Zenon, SendKeeps DEF IInv, Forward
  <1>4. RequestOK'
    BY DEF Forward, RequestOK, OutsideOK, Idle
  <1>. QED  BY <1>1, <1>2, <1>3, <1>4 DEF IInv

Pending ==
    [op : {"idle", "connect_tmp", "connect_add", "result_get", "result_tmp", "result_add"},
     p : Peer \cup {Nobody}, via : Session \cup {Nobody}, ok : BOOLEAN, force : BOOLEAN]

(* It goes on to its next lookup, or to the next request. *)
LEMMA ProceedStep ==
    ASSUME IInv, NEW o \in Pending, o.op # "idle" => o.p \in Peer, Proceed(o),
           requests' \in 0..REQUESTS
    PROVE  IInv'
  <1>1. SessionsOK' /\ Kept
    BY SessionsStill DEF IInv, Proceed, tasks
  <1>2. Owned'
    BY <1>1, TablesStill DEF IInv, Proceed, tables, tasks
  <1>3. InboxesOK'
    BY DEF IInv, Proceed, tasks, InboxesOK, InboxOK
  <1>4. RequestOK'
    BY DEF Proceed, RequestOK, OutsideOK, Pending
  <1>. QED  BY <1>1, <1>2, <1>3, <1>4 DEF IInv

(* The messages of the application are messages. *)
LEMMA MessageFacts ==
    ASSUME NEW ok \in BOOLEAN, NEW force \in BOOLEAN, NEW r \in Session
    PROVE  /\ Msg("StableConnect") \in Message /\ Msg("Close") \in Message
           /\ Msg("DirectIncoming") \in Message
           /\ Result(ok, force) \in Message
           /\ [Msg("RelayResult") EXCEPT !.via = r] \in Message
  BY Zenon DEF Msg, Result, Message

(* A request of the application, up to its first lookup. *)
LEMMA AskStep ==
    ASSUME IInv, NEW p \in Peer,
           \/ StableConnect(p) \/ StableDisconnect(p)
           \/ \E ok, force \in BOOLEAN : StableResult(p, ok, force)
    PROVE  IInv'
  <1>1. Ask
    BY Zenon DEF StableConnect, StableDisconnect, StableResult
  <1>2. requests' \in 0..REQUESTS
    BY <1>1, BoundsAssumption DEF Ask, IInv, RequestOK
  <1>3. CASE StableConnect(p)
    <2>1. PICK g \in Get(p) :
             \/ g.is_it /\ Forward(g.s, Msg("StableConnect"))
             \/ ~g.is_it /\ g.s # Nobody /\ Proceed([Request("connect_tmp", p) EXCEPT !.via = g.s])
      BY <1>3 DEF StableConnect
    <2>2. g.s \in Session \cup {Nobody} /\ (g.is_it => g.s \in Session)
      BY GetFacts DEF IInv, Owned
    <2>3. CASE g.is_it /\ Forward(g.s, Msg("StableConnect"))
      BY <1>2, <2>2, <2>3, ForwardStep, MessageFacts, Zenon
    <2>4. CASE Proceed([Request("connect_tmp", p) EXCEPT !.via = g.s])
      <3>. DEFINE o == [Request("connect_tmp", p) EXCEPT !.via = g.s]
      <3>1. o \in Pending /\ o.p = p
        BY <2>2, Zenon DEF Pending, Request, Idle
      <3>. HIDE DEF o
      <3>2. Proceed(o)
        BY <2>4 DEF o
      <3>. QED  BY <1>2, <3>1, <3>2, ProceedStep
    <2>. QED  BY <2>1, <2>3, <2>4
  <1>4. CASE StableDisconnect(p)
    <2>1. PICK g \in Get(p) : g.is_it /\ Forward(g.s, Msg("Close"))
      BY <1>4 DEF StableDisconnect
    <2>2. g.s \in Session
      BY <2>1, GetFacts DEF IInv, Owned
    <2>. QED  BY <1>2, <2>1, <2>2, ForwardStep, MessageFacts, Zenon
  <1>5. ASSUME NEW ok \in BOOLEAN, NEW force \in BOOLEAN, StableResult(p, ok, force)
        PROVE  IInv'
    <2>1. CASE p \in DOMAIN tmps /\ Forward(tmps[p].s, Result(ok, force))
      <3>1. tmps[p].s \in Session
        BY <2>1 DEF IInv, Owned, TablesOK, Partial
      <3>. QED  BY ZenonT(40), <1>2, <2>1, <3>1, ForwardStep, MessageFacts
    <2>2. CASE Proceed([Request("result_get", p) EXCEPT !.ok = ok, !.force = force])
      <3>. DEFINE o == [Request("result_get", p) EXCEPT !.ok = ok, !.force = force]
      <3>1. o \in Pending /\ o.p = p
        BY Zenon DEF Pending, Request, Idle
      <3>. HIDE DEF o
      <3>2. Proceed(o)
        BY <2>2 DEF o
      <3>. QED  BY <1>2, <3>1, <3>2, ProceedStep
    <2>. QED  BY <1>5, <2>1, <2>2, Zenon DEF StableResult
  <1>. QED  BY <1>3, <1>4, <1>5

(* The rest of a request: each lookup finds a session, or passes the request
   on, or the last one starts a session. *)
LEMMA ServeStep ==
    ASSUME IInv, Serve
    PROVE  IInv'
  <1>1. requests' \in 0..REQUESTS
    BY DEF Serve, IInv, RequestOK
  <1>2. outside \in Pending /\ (outside.op # "idle" => outside.p \in Peer)
    BY DEF IInv, RequestOK, OutsideOK, Pending
  <1>3. Idle \in Pending /\ Idle.op = "idle"
    BY DEF Idle, Pending
  <1>4. outside.ok \in BOOLEAN /\ outside.force \in BOOLEAN
    BY <1>2 DEF Pending
  <1>5. CASE ResultGet
    <2>1. PICK g \in Get(outside.p) :
             \/ g.is_it /\ Forward(g.s, Result(outside.ok, outside.force))
             \/ Proceed(Idle)
             \/ ~g.is_it /\ g.s # Nobody
                /\ Proceed([outside EXCEPT !.op = "result_tmp", !.via = g.s])
      BY <1>5, Zenon DEF ResultGet
    <2>2. g.s \in Session \cup {Nobody} /\ (g.is_it => g.s \in Session)
      BY GetFacts DEF IInv, Owned
    <2>3. CASE g.is_it /\ Forward(g.s, Result(outside.ok, outside.force))
      <3>1. Result(outside.ok, outside.force) \in Message
        BY <1>4, Zenon DEF Msg, Result, Message
      <3>. QED  BY <1>1, <2>2, <2>3, <3>1, ForwardStep
    <2>4. CASE Proceed(Idle)
      BY Zenon, <1>1, <1>3, <2>4, ProceedStep
    <2>5. CASE Proceed([outside EXCEPT !.op = "result_tmp", !.via = g.s])
      <3>. DEFINE o == [outside EXCEPT !.op = "result_tmp", !.via = g.s]
      <3>1. o \in Pending /\ o.p = outside.p /\ outside.op = "result_get"
        BY <1>2, <1>5, <2>2, Zenon DEF Pending, ResultGet
      <3>. HIDE DEF o
      <3>2. Proceed(o)
        BY <2>5 DEF o
      <3>. QED  BY <1>1, <1>2, <3>1, <3>2, ProceedStep
    <2>. QED  BY <2>1, <2>3, <2>4, <2>5
  <1>6. CASE CheckTmp
    <2>. DEFINE m == IF outside.op = "connect_tmp" THEN Msg("StableConnect")
                     ELSE Result(outside.ok, outside.force)
                o == [outside EXCEPT !.op = IF @ = "connect_tmp" THEN "connect_add"
                                            ELSE "result_add"]
    <2>1. /\ outside.op \in {"connect_tmp", "result_tmp"}
          /\ \/ outside.p \in DOMAIN tmps /\ Forward(tmps[outside.p].s, m)
             \/ Proceed(o)
      BY <1>6 DEF CheckTmp
    <2>2. m \in Message
      BY <1>4, ZenonT(30) DEF Msg, Result, Message
    <2>3. o \in Pending /\ o.p = outside.p
      BY <1>2 DEF Pending
    <2>4. outside.p \in DOMAIN tmps => tmps[outside.p].s \in Session
      BY DEF IInv, Owned, TablesOK, Partial
    <2>. HIDE DEF m, o
    <2>5. CASE outside.p \in DOMAIN tmps /\ Forward(tmps[outside.p].s, m)
      BY Zenon, <1>1, <2>2, <2>4, <2>5, ForwardStep
    <2>6. CASE Proceed(o)
      BY ZenonT(40), <1>1, <1>2, <2>1, <2>3, <2>6, ProceedStep
    <2>. QED  BY <2>1, <2>5, <2>6
  <1>7. CASE Buffered
    BY <1>1, <1>3, <1>7, ProceedStep DEF Buffered
  <1>8. ASSUME NEW s \in Session, StartStable(s)
        PROVE  IInv'
    <2>1. SessionsOK' /\ Kept
      BY <1>8, SessionsStart DEF IInv, RequestOK
    <2>2. outside.p \in Peer
      BY <1>2, <1>8, Zenon DEF StartStable
    <2>3. /\ connects' \in {connects, Put(connects, outside.p, FALSE)}
          /\ results' \in {results, Put(results, outside.p, FALSE)}
          /\ UNCHANGED <<dhts, stables, tmps, inbox, hold>>
      BY <1>8, Zenon DEF StartStable
    <2>4. Owned'
      <3>1. PICK q \in Peer : q = outside.p
        BY <2>2
      <3>. QED  BY <2>1, <2>3, <3>1, TablesShrink, Zenon DEF IInv
    <2>5. InboxesOK'
      BY <2>3 DEF IInv, InboxesOK, InboxOK
    <2>6. RequestOK'
      BY <1>1, <1>3, <1>8 DEF StartStable, RequestOK, OutsideOK, Pending
    <2>. QED  BY <2>1, <2>4, <2>5, <2>6 DEF IInv
  <1>. QED  BY <1>5, <1>6, <1>7, <1>8 DEF Serve

(* The inputs of the environment, and the timer. *)
LEMMA InputStep ==
    ASSUME IInv,
           \/ TimerClear
           \/ \E p \in Peer : \/ IncomingRelay(p)
                              \/ \E s \in Session : RelayHandshakeAnswer(s, p)
    PROVE  IInv'
  <1>1. UNCHANGED <<ses, outside, requests>>
    BY Zenon DEF TimerClear, IncomingRelay, RelayHandshakeAnswer
  <1>2. SessionsOK' /\ Kept
    BY <1>1, SessionsStill DEF IInv
  <1>3. RequestOK'
    BY <1>1 DEF IInv, RequestOK, OutsideOK
  <1>4. CASE TimerClear
    <2>1. Owned'
      BY <1>2, <1>4, TablesTimer DEF IInv
    <2>2. InboxesOK'
      BY <1>4, TimerInbox DEF IInv
    <2>. QED  BY <1>2, <1>3, <2>1, <2>2 DEF IInv
  <1>5. ASSUME NEW t \in Session, NEW m \in Message, Send(t, m), UNCHANGED <<tables, hold>>
        PROVE  IInv'
    <2>1. Owned'
      BY <1>2, <1>5, TablesStill DEF IInv, tables
    <2>2. InboxesOK'
      BY Zenon, <1>5, SendKeeps DEF IInv
    <2>. QED  BY <1>2, <1>3, <2>1, <2>2 DEF IInv
  <1>6. ASSUME NEW p \in Peer, IncomingRelay(p)
        PROVE  IInv'
    <2>1. stables[p].s \in Session
      BY Zenon, <1>6 DEF IncomingRelay, IInv, Owned, TablesOK, Partial
    <2>2. Msg("DirectIncoming") \in Message
      BY DEF Msg, Message
    <2>. QED  BY Zenon, <1>5, <1>6, <2>1, <2>2 DEF IncomingRelay
  <1>7. ASSUME NEW p \in Peer, NEW r \in Session, RelayHandshakeAnswer(r, p)
        PROVE  IInv'
    <2>1. tmps[p].s \in Session
      BY <1>7 DEF RelayHandshakeAnswer, IInv, Owned, TablesOK, Partial
    <2>2. [Msg("RelayResult") EXCEPT !.via = r] \in Message
      BY ZenonT(40) DEF Msg, Message
    <2>. QED  BY <1>5, <1>7, <2>1, <2>2 DEF RelayHandshakeAnswer
  <1>. QED  BY <1>4, <1>6, <1>7

(* The steps of one session, or that start one. *)
SessionStep(s) ==
    \/ Run(s) \/ Lost(s)
    \/ DialRefused(s) \/ DialSilent(s) \/ DialFails(s) \/ EndpointClose(s)
    \/ \E p \in Peer : \/ IncomingDht(p, s)
                       \/ DialAnswered(s, p)
                       \/ \E r \in Session : RelayHandshakeNew(r, p, s)

(* Such a step keeps the sessions in order. *)
LEMMA StepSessions ==
    ASSUME IInv, NEW s \in Session, SessionStep(s)
    PROVE  SessionsOK' /\ Kept
  <1>. SessionsOK /\ OutsideOK /\ TablesOK /\ InboxOK
    BY DEF IInv, RequestOK, Owned, InboxesOK
  <1>1. CASE HandleRelayResult(s)
    BY <1>1, SessionsStill DEF HandleRelayResult
  <1>. QED  BY <1>1, SessionsStart, SessionsMove, SessionsRun, SessionsHandshake
            DEF SessionStep, Run, Lost

(* It does nothing to the request being served. *)
LEMMA StepRequest ==
    ASSUME IInv, NEW s \in Session, SessionStep(s)
    PROVE  RequestOK'
  <1>1. UNCHANGED <<outside, requests>>
    <2>1. CASE Run(s)
      BY <2>1, ZenonT(30) DEF Run, AddDht, DirectAddTmp, FallBack, RelayAddTmp, RelayConnect, RelayAnswer,
         RelayTimeout, RelayFails, UpgradeTake, UpgradeAdd, UpgradeDht, UpgradeFails,
         HandleStableConnect, HandleStableResult, HandleRelayResult, HandleClose,
         HandleDirectIncoming, RelaySpawn, CloseStableBuffer, CloseStableList, CloseTmpBuffer,
         CloseTmpList, CloseRelay, LeaveStable, LeaveTmp, LeaveDht, CloseFalse
    <2>2. CASE ~Run(s)
      BY Zenon, <2>2 DEF SessionStep, Lost, CarrierGone, StreamGone, DialRefused, DialSilent, DialFails,
         EndpointClose, IncomingDht, DialAnswered, RelayHandshakeNew
    <2>. QED  BY <2>1, <2>2
  <1>. QED  BY <1>1 DEF IInv, RequestOK, OutsideOK

(* It takes a message from its own inbox, or drops the inbox, or leaves it. *)
Less(s) ==
    \/ UNCHANGED inbox
    \/ inbox' = [inbox EXCEPT ![s] = <<>>]
    \/ inbox[s] # <<>> /\ inbox' = [inbox EXCEPT ![s] = Tail(inbox[s])]

(* It sends nothing, except in add_stable. *)
LEMMA StepLess ==
    ASSUME NEW s \in Session, SessionStep(s), ~UpgradeAdd(s)
    PROVE  Less(s)
  <1>1. CASE UNCHANGED inbox
    BY <1>1 DEF Less
  <1>2. ASSUME Exit(s) \/ inbox' = [inbox EXCEPT ![s] = <<>>]
        PROVE  Less(s)
    BY <1>2 DEF Less, Exit
  <1>3. ASSUME inbox[s] # <<>>, Rest(s) \/ inbox' = [inbox EXCEPT ![s] = Tail(@)]
        PROVE  Less(s)
    BY <1>3 DEF Less, Rest
  <1>4. CASE AddDht(s) \/ DirectAddTmp(s) \/ FallBack(s) \/ RelayAddTmp(s) \/ RelayTimeout(s)
             \/ UpgradeTake(s) \/ RelaySpawn(s) \/ CloseStableBuffer(s) \/ CloseTmpBuffer(s)
             \/ LeaveStable(s) \/ LeaveTmp(s) \/ LeaveDht(s)
    BY <1>1, <1>4, ZenonT(30) DEF AddDht, DirectAddTmp, FallBack, RelayAddTmp, RelayTimeout, UpgradeTake,
       RelaySpawn, CloseStableBuffer, CloseTmpBuffer, LeaveStable, LeaveTmp, LeaveDht
  <1>5. CASE RelayConnect(s) \/ RelayFails(s) \/ UpgradeFails(s) \/ CloseStableList(s)
             \/ CloseTmpList(s) \/ CloseRelay(s) \/ Lost(s) \/ EndpointClose(s)
    BY <1>1, <1>2, <1>5, Zenon DEF RelayConnect, RelayFails, UpgradeFails, CloseStableList, CloseTmpList,
       CloseRelay, Lost, CarrierGone, StreamGone, EndpointClose
  <1>6. CASE UpgradeDht(s)
    BY <1>1, <1>2, <1>6 DEF UpgradeDht, Upgraded
  <1>7. CASE RelayAnswer(s)
    BY <1>2, <1>3, <1>7 DEF RelayAnswer
  <1>8. ASSUME CloseFalse(s), inbox[s] # <<>>
        PROVE  Less(s)
    <2>1. CASE ses[s].stable /\ ~ses[s].direct
      BY <1>2, <1>8, <2>1 DEF CloseFalse
    <2>2. CASE ~(ses[s].stable /\ ~ses[s].direct)
      BY <1>3, <1>8, <2>2, ZenonT(30) DEF CloseFalse
    <2>. QED  BY <2>1, <2>2
  <1>9. CASE HandleStableConnect(s) \/ HandleRelayResult(s) \/ HandleDirectIncoming(s)
              \/ HandleClose(s)
    BY <1>3, <1>8, <1>9 DEF HandleStableConnect, HandleRelayResult, HandleDirectIncoming,
       HandleClose, Take
  <1>10. CASE HandleStableResult(s)
    BY <1>2, <1>3, <1>8, <1>10 DEF HandleStableResult, Take
  <1>11. CASE \/ DialRefused(s) \/ DialSilent(s) \/ DialFails(s)
              \/ \E p \in Peer : \/ IncomingDht(p, s)
                                 \/ DialAnswered(s, p)
                                 \/ \E r \in Session : RelayHandshakeNew(r, p, s)
    BY Zenon, <1>1, <1>11 DEF DialRefused, DialSilent, DialFails, IncomingDht, DialAnswered,
       RelayHandshakeNew
  <1>. QED  BY ZenonT(40), <1>4, <1>5, <1>6, <1>7, <1>9, <1>10, <1>11 DEF SessionStep, Run

(* It keeps every inbox within its bound. *)
LEMMA StepInbox ==
    ASSUME IInv, NEW s \in Session, SessionStep(s)
    PROVE  InboxesOK'
  <1>. InboxesOK /\ TablesOK
    BY DEF IInv, Owned
  <1>1. CASE UpgradeAdd(s)
    BY <1>1, UpgradeInbox
  <1>2. CASE ~UpgradeAdd(s)
    <2>1. Less(s)
      BY <1>2, StepLess
    <2>. QED  BY <2>1, LessInbox DEF Less
  <1>. QED  BY <1>1, <1>2

(* It keeps the entries in order. *)
LEMMA StepTables ==
    ASSUME IInv, NEW s \in Session, SessionStep(s), Kept
    PROVE  Owned'
  <1>. Owned /\ SessionsOK
    BY DEF IInv
  <1>0. ses[s].pc # "none" => ses[s].peer \in Peer
    BY DEF SessionsOK
  <1>1. CASE AddDht(s) \/ DirectAddTmp(s) \/ RelayAddTmp(s) \/ RelaySpawn(s)
    BY <1>1, TablesStart
  <1>2. CASE UpgradeTake(s) \/ CloseTmpBuffer(s)
    BY <1>2, TablesTake, ZenonT(30) DEF UpgradeTake, CloseTmpBuffer, Early
  <1>3. CASE UpgradeAdd(s)
    BY <1>0, <1>3, TablesUpgradeAdd, Zenon DEF UpgradeAdd
  <1>4. CASE UpgradeDht(s)
    BY <1>4, TablesUpgradeDht
  <1>5. CASE CloseStableList(s)
    BY <1>5, TablesCloseStable
  <1>6. CASE CloseTmpList(s)
    BY <1>0, <1>6, TablesCloseTmp, Zenon DEF CloseTmpList
  <1>7. CASE DialFails(s) \/ FallBack(s) \/ RelayFails(s) \/ CloseStableBuffer(s)
             \/ CloseRelay(s) \/ LeaveStable(s) \/ LeaveTmp(s) \/ LeaveDht(s)
    <2>1. /\ UNCHANGED hold
          /\ dhts' \in {dhts, Drop(dhts, ses[s].peer)}
          /\ stables' \in {stables, Drop(stables, ses[s].peer)}
          /\ tmps' \in {tmps, Drop(tmps, ses[s].peer)}
          /\ connects' \in {connects, Drop(connects, ses[s].peer)}
          /\ results' \in {results, Drop(results, ses[s].peer)}
      BY <1>7, Zenon DEF DialFails, FallBack, RelayFails, CloseStableBuffer, CloseRelay, LeaveStable,
         LeaveTmp, LeaveDht
    <2>2. PICK q : q = ses[s].peer
      OBVIOUS
    <2>. QED  BY <2>1, <2>2, TablesShrink, Zenon
  <1>8. CASE UNCHANGED <<tables, hold>>
    BY Zenon, <1>8, TablesStill DEF tables
  <1>9. CASE \/ RelayConnect(s) \/ RelayAnswer(s) \/ RelayTimeout(s) \/ UpgradeFails(s)
             \/ HandleStableConnect(s) \/ HandleStableResult(s) \/ HandleRelayResult(s)
             \/ HandleClose(s) \/ HandleDirectIncoming(s) \/ Lost(s)
             \/ DialRefused(s) \/ DialSilent(s) \/ EndpointClose(s)
             \/ \E p \in Peer : \/ IncomingDht(p, s)
                                \/ DialAnswered(s, p)
                                \/ \E r \in Session : RelayHandshakeNew(r, p, s)
    BY <1>8, <1>9, Zenon DEF RelayConnect, RelayAnswer, RelayTimeout, UpgradeFails,
       HandleStableConnect, HandleStableResult, HandleRelayResult, HandleClose, CloseFalse,
       HandleDirectIncoming, Lost, CarrierGone, StreamGone, DialRefused, DialSilent,
       EndpointClose, IncomingDht, DialAnswered, RelayHandshakeNew
  <1>. QED  BY ZenonT(40), <1>1, <1>2, <1>3, <1>4, <1>5, <1>6, <1>7, <1>9 DEF SessionStep, Run

(* The node starts with no session and empty tables. *)
LEMMA InitIInv ==
    ASSUME Init
    PROVE  IInv
  <1>1. SessionsOK
    BY DEF Init, SessionsOK, SessionState, Unborn, PC
  <1>2. TablesOK
    BY Zenon DEF Init, TablesOK, Partial
  <1>3. Linked /\ SingleOwner
    BY DEF Init, Linked, SingleOwner
  <1>4. InboxesOK
    BY BoundsAssumption DEF Init, InboxesOK, InboxOK
  <1>5. RequestOK
    BY BoundsAssumption DEF Init, RequestOK, OutsideOK, Idle
  <1>. QED  BY ZenonT(40), <1>1, <1>2, <1>3, <1>4, <1>5 DEF IInv, Owned

(* Every step of the node keeps the invariant. *)
LEMMA NextIInv ==
    ASSUME IInv, Next
    PROVE  IInv'
  <1>1. ASSUME NEW s \in Session, SessionStep(s)
        PROVE  IInv'
    BY Zenon, <1>1, StepSessions, StepRequest, StepInbox, StepTables DEF IInv
  <1>2. CASE Environment
    <2>1. \/ \E s \in Session : SessionStep(s)
          \/ \E p \in Peer : \/ IncomingRelay(p)
                             \/ \E s \in Session : RelayHandshakeAnswer(s, p)
          \/ \E p \in Peer : \/ StableConnect(p) \/ StableDisconnect(p)
                             \/ \E ok, force \in BOOLEAN : StableResult(p, ok, force)
      BY <1>2 DEF Environment, SessionStep
    <2>. QED  BY ZenonT(40), <1>1, <2>1, InputStep, AskStep
  <1>3. CASE \E s \in Session : Run(s) \/ Lost(s)
    BY <1>1, <1>3 DEF SessionStep
  <1>. QED  BY <1>2, <1>3, InputStep, ServeStep DEF Next

(* The invariant holds in every state of the node. *)
THEOREM Invariance == Spec => []IInv
  <1>1. Init => IInv
    BY InitIInv
  <1>2. IInv /\ [Next]_vars => IInv'
    <2>1. ASSUME IInv, UNCHANGED vars
          PROVE  IInv'
      <3>1. UNCHANGED <<dhts, stables, tmps, connects, results, ses, inbox, hold, outside, requests>>
        BY <2>1 DEF vars, tables, tasks
      <3>2. SessionsOK' /\ Kept
        BY Zenon, <2>1, <3>1, SessionsStill DEF IInv
      <3>3. Owned'
        BY Zenon, <2>1, <3>1, <3>2, TablesStill DEF IInv
      <3>4. InboxesOK' /\ RequestOK'
        BY <2>1, <3>1 DEF IInv, InboxesOK, InboxOK, RequestOK, OutsideOK
      <3>. QED  BY ZenonT(40), <3>2, <3>3, <3>4 DEF IInv
    <2>. QED  BY Zenon, <2>1, NextIInv
  <1>. QED  BY <1>1, <1>2, PTL DEF Spec

(* Every variable keeps its type, no inbox ever holds more than its bound, and
   the entries of the tables are entries of this node's sessions. *)
THEOREM TypeCorrect == Spec => []TypeOK
  <1>1. IInv => TypeOK
    BY Zenon DEF IInv, SessionsOK, Owned, TablesOK, InboxesOK, InboxOK, RequestOK, OutsideOK, TypeOK
  <1>. QED  BY <1>1, Invariance, PTL

(* Under the id of a peer there is a session with that peer, in every table and
   between two locks, however upgrade, tmp_to_dht, stable_to_dht and
   dht_to_stable are interleaved. *)
THEOREM EntriesMatch == Spec => []KeyMatch
  <1>1. IInv => KeyMatch
    BY Zenon DEF IInv, Owned, Linked, Rightful, KeyMatch
  <1>. QED  BY <1>1, Invariance, PTL

(* The entry of a session is in at most one place, for any number of sessions
   with the same peer. *)
THEOREM EntriesMoved == Spec => []SingleOwner
  <1>1. IInv => SingleOwner
    BY SMTT(20) DEF IInv, Owned
  <1>. QED  BY <1>1, Invariance, PTL

(* Every session in the DHT has a direct connection. *)
THEOREM DhtDirect == Spec => []DhtIsDirect
  <1>1. IInv => DhtIsDirect
    BY Zenon DEF IInv, Owned, Linked, Rightful, DhtIsDirect
  <1>. QED  BY <1>1, Invariance, PTL
=============================================================================
