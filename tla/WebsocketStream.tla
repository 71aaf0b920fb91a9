--------------------------- MODULE WebsocketStream ---------------------------
(***************************************************************************)
(* A websocket byte stream between a sender that frames packets and a     *)
(* reader that decodes them with decode_hybi() as the bytes arrive in     *)
(* chunks of any size.  The framing of a data frame (header, mask key,    *)
(* masked payload) and the reader's loop (append what arrives, decode,    *)
(* on success keep the bytes after the frame) are not among the sources: *)
(* they are written from section 4.1 of the specification, as are the    *)
(* framing operators of FrameCodec; header and close frames come from     *)
(* xpra.net.websockets.header (FrameCodec).                               *)
(***************************************************************************)
EXTENDS FrameCodec

CONSTANTS
  Opcodes,       \* the opcodes of the data frames sent
  PayloadLens,   \* the payload lengths of the data frames sent
  MaskKeys,      \* the mask keys used; <<>> sends the frame unmasked
  CloseCodes,    \* the status codes of close frames sent
  CloseReasons,  \* the reasons (sequences of code points) of close frames
  Chunks,        \* the sizes of the reads that deliver bytes
  MaxFrames,     \* bound: frames sent
  MaxSmallReads  \* bound: reads shorter than what is left to deliver

VARIABLES
  out,    \* bytes sent and not yet delivered to the reader
  buf,    \* the reader's buffer
  reads,  \* reads so far that left bytes behind
  sent,   \* history: what each frame sent carries (opcode, payload, fin)
  got     \* history: what the reader decoded

vars == <<out, buf, reads, sent, got>>

Init ==
  /\ out = <<>>
  /\ buf = <<>>
  /\ reads = 0
  /\ sent = <<>>
  /\ got = <<>>

\* The sender frames a data packet.
SendFrame(op, n, key, fin) ==
  /\ Len(sent) < MaxFrames
  /\ out' = out \o EncodeFrame(op, n, key, fin)
  /\ sent' = Append(sent, [opcode |-> op, payload |-> PayloadOf(n), fin |-> fin])
  /\ UNCHANGED <<buf, reads, got>>

\* The sender sends close_packet(code, reason).
SendClose(code, reason) ==
  /\ Len(sent) < MaxFrames
  /\ out' = out \o ClosePacket(code, reason)
  /\ sent' = Append(sent, [opcode |-> OPCODE_CLOSE,
                           payload |-> Pack(code, 2) \o EncodeUtf8(reason),
                           fin |-> TRUE])
  /\ UNCHANGED <<buf, reads, got>>

\* A read returns up to k of the bytes in flight; once MaxSmallReads reads
\* have left bytes behind, a read returns all of them.
Receive(k) ==
  LET n == IF k < Len(out) /\ reads < MaxSmallReads THEN k ELSE Len(out)
  IN /\ out # <<>>
     /\ buf' = buf \o SubSeq(out, 1, n)
     /\ out' = SubSeq(out, n + 1, Len(out))
     /\ reads' = IF n < Len(out) THEN reads + 1 ELSE reads
     /\ UNCHANGED <<sent, got>>

\* The reader decodes a frame at the start of its buffer and keeps the rest
\* as the start of the next one.
Parse ==
  LET r == DecodeHybi(buf)
  IN /\ r # None
     /\ got' = Append(got, [opcode |-> r.opcode, payload |-> r.payload, fin |-> r.fin])
     /\ buf' = SubSeq(buf, r.length + 1, Len(buf))
     /\ UNCHANGED <<out, reads, sent>>

Next ==
  \/ \E op \in Opcodes, n \in PayloadLens, key \in MaskKeys, fin \in BOOLEAN :
       SendFrame(op, n, key, fin)
  \/ \E code \in CloseCodes, reason \in CloseReasons : SendClose(code, reason)
  \/ \E k \in Chunks : Receive(k)
  \/ Parse

\* Reads keep returning what is in flight and the reader keeps decoding;
\* the sender sends only if it wants to.
Spec == Init /\ [][Next]_vars /\ WF_vars(\E k \in Chunks : Receive(k)) /\ WF_vars(Parse)

-----------------------------------------------------------------------------
\* The channel the stream implements: the frames sent and not yet decoded
\* are the channel's queue, the frames decoded are what it delivered.
FC == INSTANCE FrameChannel
        WITH Frames <- [opcode : 0..15, payload : Seq(0..255), fin : BOOLEAN],
             queue <- SubSeq(sent, Len(got) + 1, Len(sent)),
             delivered <- got

(* Section 4.1: the stream is a reliable FIFO channel of frames.  Whatever *)
(* the read sizes, each decode_hybi() that returns a frame returns the     *)
(* oldest frame not yet decoded, with its opcode, fin flag and payload     *)
(* (decode_hybi's length classes and "length" agree with                   *)
(* encode_hybi_header, and a short buffer is never taken for a frame), and *)
(* every frame sent is eventually decoded.                                 *)
ImplementsFrameChannel == FC!Spec

=============================================================================
