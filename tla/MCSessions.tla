----------------------------- MODULE MCSessions -----------------------------
(* PeerSessions for TLC: remote peers and session names are model values. *)
EXTENDS PeerSessions, TLC

Names == Permutations(Session) \cup Permutations(Peer)

(* The second request is followed only while a session is still to start. *)
Bounded == requests < 2 \/ \E s \in Session : ses[s].pc = "none"
=============================================================================
