----------------------------- MODULE TcpStream -----------------------------
(***************************************************************************)
(* One direction of a TCP connection (src/transports/tcp.rs): the task of  *)
(* process_stream that writes the messages of a session as frames, a byte  *)
(* stream that delivers them in pieces of any size and may break, and the  *)
(* task at the other end that reads the handshake, then the frames, and    *)
(* passes the messages on to its session.                                  *)
(*                                                                         *)
(* A frame is a length in HEADER bytes, the most significant first, and    *)
(* the bytes of a message.  The first byte of a message is its type: 0 for *)
(* Close, 1 for Handshake, 2 for the others; a greater one is no message.  *)
(***************************************************************************)
EXTENDS Integers, Sequences, FiniteSetsExt, SequencesExt

CONSTANTS
    HEADER,         \* bytes of a length (4 in the code)
    BASE,           \* values of a byte (256)
    Data,           \* messages a session may send, as bytes
    MESSAGES        \* messages sent after the handshake (bound)

ASSUME TcpAssumption ==
    /\ HEADER \in Nat \ {0} /\ BASE \in Nat \ {0} /\ MESSAGES \in Nat
    /\ \A m \in Data : m \in Seq(0 .. BASE - 1) /\ m # <<>> /\ Len(m) < BASE

VARIABLES
    sent,           \* messages the writer took from its session
    writer,         \* "open", or "ended"
    wire,           \* bytes written and not yet arrived
    arrived,        \* bytes that can be read
    end,            \* how the connection ended for the reader: "no", "eof", "error"
    reader,         \* where the reader is
    len,            \* the length it read, read_len
    read_bytes,     \* what it has read of the message
    got,            \* messages passed on to the session
    whole,          \* every length was written and read in one piece
    torn            \* the end cut a frame

vars == <<sent, writer, wire, arrived, end, reader, len, read_bytes, got, whole, torn>>

Handshake == <<1>>

Close == <<0>>

Byte == 0 .. BASE - 1

(* to_be_bytes and from_be_bytes, the latter of a buffer of zeros into which
   the first bytes were read. *)
to_be_bytes(n) == [i \in 1 .. HEADER |-> (n \div BASE^(HEADER - i)) % BASE]

from_be_bytes(b) == FoldLeft(LAMBDA n, x : n * BASE + x, 0, b) * BASE^(HEADER - Len(b))

(* Faulty: whatever was read is passed on. *)
ParsesAnything(b) == TRUE

Parses(b) == b # <<>> /\ b[1] <= 2

Frame(m) == to_be_bytes(Len(m)) \o m

Init ==
    /\ sent = <<Handshake>> /\ writer = "open"
    /\ wire = Frame(Handshake) /\ arrived = <<>> /\ end = "no"
    /\ reader = "hs_len" /\ len = 0 /\ read_bytes = <<>> /\ got = <<>>
    /\ whole = TRUE /\ torn = FALSE

----------------------------------------------------------------------------
(* The writer, and the stream *)

Wrote(m) ==
    /\ writer = "open" /\ end = "no" /\ Len(sent) <= MESSAGES
    /\ sent' = Append(sent, m)
    /\ writer' = IF m = Close THEN "ended" ELSE "open"
    /\ UNCHANGED <<arrived, end, reader, len, read_bytes, got, torn>>

Write(m) ==
    /\ Wrote(m)
    /\ wire' = wire \o Frame(m)
    /\ UNCHANGED whole

(* `write` may take a part of the length only, which the writer does not look at. *)
WriteShort(m) ==
    /\ Wrote(m)
    /\ \E n \in 1 .. HEADER - 1 : wire' = wire \o SubSeq(to_be_bytes(Len(m)), 1, n) \o m
    /\ whole' = FALSE

(* The session dropped its sender. *)
SessionGone ==
    /\ writer = "open"
    /\ writer' = "ended"
    /\ UNCHANGED <<sent, wire, arrived, end, reader, len, read_bytes, got, whole, torn>>

Arrive ==
    /\ \E n \in 1 .. Len(wire) :
          /\ arrived' = arrived \o SubSeq(wire, 1, n)
          /\ wire' = SubSeq(wire, n + 1, Len(wire))
    /\ UNCHANGED <<sent, writer, end, reader, len, read_bytes, got, whole, torn>>

(* The length of the first j frames. *)
Written(j) == FoldLeft(LAMBDA n, m : n + HEADER + Len(m), 0, SubSeq(sent, 1, j))

(* The other process ends, with some of what it wrote still unsent. *)
Eof ==
    /\ end = "no"
    /\ \E n \in 0 .. Len(wire) :
          /\ wire' = SubSeq(wire, 1, n)
          /\ torn' = \A j \in 0 .. Len(sent) : Written(j) # Written(Len(sent)) - Len(wire) + n
    /\ end' = "eof" /\ writer' = "ended"
    /\ UNCHANGED <<sent, arrived, reader, len, read_bytes, got, whole>>

Break ==
    /\ end = "no"
    /\ end' = "error" /\ writer' = "ended"
    /\ wire' = <<>> /\ arrived' = <<>>
    /\ UNCHANGED <<sent, reader, len, read_bytes, got, whole, torn>>

AtEnd(how) == end = how /\ wire = <<>> /\ arrived = <<>>

----------------------------------------------------------------------------
(* The reader *)

Goes(pc) == reader' = pc /\ read_bytes' = <<>>

Deliver(m) == got' = Append(got, m)

Keeps == UNCHANGED <<sent, writer, wire, end, torn>>

(* reader.read(&mut read_len): as many bytes as there are, up to HEADER; the
   handshake is given up unless there are HEADER. *)
ReadLen ==
    LET n == Min({HEADER, Len(arrived)})
    IN  /\ reader \in {"hs_len", "len"} /\ arrived # <<>>
        /\ len' = from_be_bytes(SubSeq(arrived, 1, n))
        /\ arrived' = SubSeq(arrived, n + 1, Len(arrived))
        /\ whole' = (whole /\ n = HEADER)
        /\ Goes(IF reader = "len" THEN "body" ELSE IF n = HEADER THEN "hs_body" ELSE "failed")
        /\ UNCHANGED got
        /\ Keeps

(* Faulty: the first piece is taken for the whole message. *)
FirstPiece ==
    LET n    == Min({len - Len(read_bytes), Len(arrived)})
        read == read_bytes \o SubSeq(arrived, 1, n)
    IN  /\ reader \in {"hs_body", "body"}
        /\ len = Len(read_bytes) \/ arrived # <<>>
        /\ arrived' = SubSeq(arrived, n + 1, Len(arrived))
        /\ IF reader = "hs_body"
           THEN Goes(IF read = Handshake THEN "len" ELSE "failed") /\ UNCHANGED got
           ELSE Goes("len") /\ IF Parses(read) THEN Deliver(read) ELSE UNCHANGED got
        /\ UNCHANGED <<len, whole>>
        /\ Keeps

(* The message is read until it is complete, and passed on if it parses. *)
ReadBody ==
    LET n    == Min({len - Len(read_bytes), Len(arrived)})
        read == read_bytes \o SubSeq(arrived, 1, n)
    IN  /\ reader \in {"hs_body", "body"}
        /\ len = Len(read_bytes) \/ arrived # <<>>
        /\ arrived' = SubSeq(arrived, n + 1, Len(arrived))
        /\ IF Len(read) < len
           THEN read_bytes' = read /\ UNCHANGED <<reader, got>>
           ELSE IF reader = "hs_body"
           THEN Goes(IF Parses(read) /\ read[1] = 1 THEN "len" ELSE "failed") /\ UNCHANGED got
           ELSE Goes("len") /\ IF Parses(read) THEN Deliver(read) ELSE UNCHANGED got
        /\ UNCHANGED <<len, whole>>
        /\ Keeps

(* Faulty: an error of the connection ends the reader without a word. *)
EndUnreported ==
    /\ \/ reader = "len" /\ AtEnd("eof") /\ Deliver(Close)
       \/ reader = "len" /\ AtEnd("error") /\ UNCHANGED got
    /\ Goes("done")
    /\ UNCHANGED <<arrived, len, whole>>
    /\ Keeps

(* The end of the connection, where a length was expected. *)
ReadEnd ==
    /\ reader = "len" /\ (AtEnd("eof") \/ AtEnd("error"))
    /\ Deliver(Close)
    /\ Goes("done")
    /\ UNCHANGED <<arrived, len, whole>>
    /\ Keeps

(* In a message, an error leaves the inner loop.  At the end of the stream
   `read` returns zero bytes for ever, and the loop goes on. *)
BodyError ==
    /\ reader = "body" /\ AtEnd("error") /\ Len(read_bytes) < len
    /\ Goes("len")
    /\ UNCHANGED <<arrived, len, got, whole>>
    /\ Keeps

(* The handshake fails at the end of the connection, or after ten seconds. *)
HandshakeFails ==
    /\ reader \in {"hs_len", "hs_body"}
    /\ Goes("failed")
    /\ UNCHANGED <<arrived, len, got, whole>>
    /\ Keeps

Read == ReadLen \/ ReadBody \/ ReadEnd \/ BodyError \/ HandshakeFails

Next ==
    \/ \E m \in Data \cup {Close} : Write(m) \/ WriteShort(m)
    \/ SessionGone \/ Arrive \/ Eof \/ Break
    \/ Read

Spec == Init /\ [][Next]_vars

(* The runtime runs a reader that can go on, and the network delivers. *)
FairSpec == Spec /\ WF_vars(Read) /\ WF_vars(Arrive)

----------------------------------------------------------------------------
(* Properties *)

(* Bytes are bytes, the reader is at one of its points and has read no more
   than the length, and every message passed on is one that parses. *)
TypeOK ==
    /\ sent \in Seq(Data \cup {Handshake, Close})
    /\ writer \in {"open", "ended"}
    /\ wire \in Seq(Byte) /\ arrived \in Seq(Byte)
    /\ end \in {"no", "eof", "error"}
    /\ reader \in {"hs_len", "hs_body", "len", "body", "done", "failed"}
    /\ len \in Nat
    /\ read_bytes \in Seq(Byte) /\ Len(read_bytes) <= len
    /\ \A i \in DOMAIN got : got[i] \in Seq(Byte) /\ got[i] # <<>> /\ got[i][1] <= 2
    /\ whole \in BOOLEAN /\ torn \in BOOLEAN

Reported == reader = "done" /\ got # <<>> /\ Last(got) = Close

(* While no length was split, the session gets the messages that were sent, in
   order and unchanged, however their bytes were cut into pieces and wherever
   the connection ended; the end adds one Close. *)
Framed == whole => IsPrefix(IF reader = "done" THEN Front(got) ELSE got, Tail(sent))

(* The session of an established connection is told of its end: after an error
   always, at the end of the stream if it was between two frames and no length
   was split. *)
EndReported ==
    end # "no" /\ reader \in {"len", "body"} ~> Reported \/ (end = "eof" /\ (torn \/ ~whole))

(* src/transports/tcp.rs:253 says of a read of zero bytes "when close or better
   when many Ok(0)", and sends Close.  In a message it is read again. *)
EofReported ==
    end = "eof" /\ whole /\ reader \in {"len", "body"} ~> Reported \/ ~whole
=============================================================================
