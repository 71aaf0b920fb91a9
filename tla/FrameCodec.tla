----------------------------- MODULE FrameCodec -----------------------------
(***************************************************************************)
(* xpra.net.websockets.header: the HyBi (RFC 6455) frame header codec, as *)
(* operators over byte sequences (each byte a natural number < 256).      *)
(*                                                                         *)
(*  - EncodeHybiHeader: encode_hybi_header(opcode, payload_len, has_mask,  *)
(*    fin), the two header bytes and the 16- or 64-bit extended length.    *)
(*  - DecodeHybi: decode_hybi(buf), None while the buffer is too short for *)
(*    the header, the extended length, the mask key or the payload, else   *)
(*    (opcode, payload, length, fin).                                      *)
(*  - ClosePacket: close_packet(code, reason).                             *)
(*                                                                         *)
(* struct.pack raises on a value wider than its field; the exceptions of  *)
(* this module are the empty sequence Raises (every header the functions  *)
(* return has at least two bytes).  hybi_unmask (websockets.mask) is not  *)
(* among the sources: it is written from section 4.1 of the specification.*)
(***************************************************************************)
EXTENDS Naturals, Sequences, SequencesExt, Bitwise

\* What a call that raises (ValueError, struct.error) returns here.
Raises == <<>>

\* OPCODE.CLOSE of xpra.net.websockets.common.
OPCODE_CLOSE == 8

\* struct.pack(">H" / ">Q", n): the w bytes of n, most significant first;
\* a value that does not fit raises struct.error.  TLC's integers are below
\* 2^31, so the bytes above the fourth are 0 and a 64-bit field always fits.
Pack(n, w) ==
  IF w >= 4 \/ n < 256 ^ w
  THEN [i \in 1..w |-> IF w - i >= 4 THEN 0 ELSE (n \div 256 ^ (w - i)) % 256]
  ELSE Raises

\* struct.unpack(">H" / ">Q", s)[0].
Unpack(s) == FoldLeft(LAMBDA acc, b : acc * 256 + b, 0, s)

\* The same encoder with the 16-bit class extended to 65536, the length a
\* "<=" in place of "<" would let through.
EncodeHybiHeaderLe(opcode, payload_len, has_mask, fin) ==
  LET mask_bit == IF has_mask THEN 128 ELSE 0
      b1 == opcode | (IF fin THEN 128 ELSE 0)
      ext(code, w) == IF Pack(payload_len, w) = Raises THEN Raises
                      ELSE <<b1, code | mask_bit>> \o Pack(payload_len, w)
  IN CASE (opcode & 15) # opcode -> Raises
       [] payload_len <= 125 -> <<b1, payload_len | mask_bit>>
       [] payload_len <= 65536 -> ext(126, 2)
       [] OTHER -> ext(127, 8)

\* encode_hybi_header(): byte 1 is the opcode with the fin bit, byte 2 the
\* length class with the mask bit; lengths of 126 or more follow as a 16-
\* or 64-bit big-endian number.
EncodeHybiHeader(opcode, payload_len, has_mask, fin) ==
  LET mask_bit == IF has_mask THEN 128 ELSE 0
      b1 == opcode | (IF fin THEN 128 ELSE 0)
      ext(code, w) == IF Pack(payload_len, w) = Raises THEN Raises
                      ELSE <<b1, code | mask_bit>> \o Pack(payload_len, w)
  IN CASE (opcode & 15) # opcode -> Raises
       [] payload_len <= 125 -> <<b1, payload_len | mask_bit>>
       [] payload_len < 65536 -> ext(126, 2)
       [] OTHER -> ext(127, 8)

\* hybi_unmask(buf, offset, n): the n payload bytes after the 4-byte mask
\* key at offset, each XORed with the key byte at its position in the
\* payload modulo 4 (section 4.1).
HybiUnmask(buf, offset, n) ==
  LET key == SubSeq(buf, offset + 1, offset + 4)
  IN [i \in 1..n |-> buf[offset + 4 + i] ^^ key[((i - 1) % 4) + 1]]

\* The framing of a data frame (section 4.1): payload_of_length(L), the
\* payload XORed cyclically with a 4-byte mask key, and the frame on the
\* wire: header, mask key if any, (masked) payload.
PayloadOf(n) == [i \in 1..n |-> i % 256]

Masked(p, key) == [i \in 1..Len(p) |-> p[i] ^^ key[((i - 1) % 4) + 1]]

EncodeFrame(op, n, key, fin) ==
  LET hdr == EncodeHybiHeader(op, n, key # <<>>, fin)
  IN hdr \o key \o (IF key = <<>> THEN PayloadOf(n) ELSE Masked(PayloadOf(n), key))

\* Python's buf[a:b]: the bytes a+1..b, cut short at the end of buf.
Slice(buf, a, b) == SubSeq(buf, a + 1, IF b < Len(buf) THEN b ELSE Len(buf))

\* decode_hybi()'s None.
None == [incomplete |-> TRUE]

\* decode_hybi() testing the buffer against the payload length alone.
DecodeHybiNoHeaderLen(buf) ==
  LET blen == Len(buf)
      masked == (buf[2] & 128) # 0
      hlen0 == IF masked THEN 6 ELSE 2
      len7 == buf[2] & 127
      hlen == CASE len7 = 126 -> hlen0 + 2
                [] len7 = 127 -> hlen0 + 8
                [] OTHER -> hlen0
      payload_len == CASE len7 = 126 -> Unpack(Slice(buf, 2, 4))
                       [] len7 = 127 -> Unpack(Slice(buf, 2, 10))
                       [] OTHER -> len7
      length == hlen + payload_len
  IN IF blen < 2 \/ blen < hlen0 \/ blen < hlen \/ blen < payload_len THEN None
     ELSE [opcode |-> buf[1] & 15,
           payload |-> IF masked THEN HybiUnmask(buf, hlen - 4, payload_len)
                       ELSE Slice(buf, hlen, length),
           length |-> length,
           fin |-> (buf[1] & 128) # 0]

\* decode_hybi(): each "buffer too small" early return is None.
DecodeHybi(buf) ==
  LET blen == Len(buf)
      masked == (buf[2] & 128) # 0
      hlen0 == IF masked THEN 6 ELSE 2
      len7 == buf[2] & 127
      hlen == CASE len7 = 126 -> hlen0 + 2
                [] len7 = 127 -> hlen0 + 8
                [] OTHER -> hlen0
      payload_len == CASE len7 = 126 -> Unpack(Slice(buf, 2, 4))
                       [] len7 = 127 -> Unpack(Slice(buf, 2, 10))
                       [] OTHER -> len7
      length == hlen + payload_len
  IN IF blen < 2 \/ blen < hlen0 \/ blen < hlen \/ blen < length THEN None
     ELSE [opcode |-> buf[1] & 15,
           payload |-> IF masked THEN HybiUnmask(buf, hlen - 4, payload_len)
                       ELSE Slice(buf, hlen, length),
           length |-> length,
           fin |-> (buf[1] & 128) # 0]

\* str.encode("utf-8") of one code point.
Utf8(cp) ==
  LET cont(k) == 128 + ((cp \div 64 ^ k) % 64)   \* continuation byte k
  IN CASE cp < 128 -> <<cp>>
       [] cp < 2048 -> <<192 + (cp \div 64), cont(0)>>
       [] cp < 65536 -> <<224 + (cp \div 4096), cont(1), cont(0)>>
       [] OTHER -> <<240 + (cp \div 262144), cont(2), cont(1), cont(0)>>

\* str.encode("utf-8") of a sequence of code points.
EncodeUtf8(str) == FlattenSeq([i \in 1..Len(str) |-> Utf8(str[i])])

\* close_packet(code, reason): a CLOSE frame whose payload is the status
\* code and the UTF-8 reason; reason is a sequence of code points.
ClosePacket(code, reason) ==
  LET data == Pack(code, 2) \o EncodeUtf8(reason)
  IN EncodeHybiHeader(OPCODE_CLOSE, Len(data), FALSE, TRUE) \o data

=============================================================================
