------------------------------- MODULE MCTcp -------------------------------
(* TcpStream for TLC: lengths of two bytes, bytes of four values, a message of
   one byte and one of two. *)
EXTENDS TcpStream

MCData == {<<2>>, <<2, 3>>}
=============================================================================
