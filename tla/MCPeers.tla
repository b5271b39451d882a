------------------------------ MODULE MCPeers ------------------------------
(* A node that runs QUIC.  It knows the address of a and the id of a, not
   that they belong together; b is reached by TCP; c is at an address the
   node blocks. *)
EXTENDS PeerStore

TheNone == <<"0.0.0.0", "0">>
TheAddrOf == [a |-> <<"1.1", "1">>, b |-> <<"1.1", "2">>, c |-> <<"2.2", "1">>]
TheKind == [x \in Addrs |-> IF x = <<"1.1", "2">> THEN "tcp" ELSE "quic"]
TheConfig == <<[id |-> "none", socket |-> <<"1.1", "1">>], [id |-> "a", socket |-> TheNone]>>
=============================================================================
