----------------------------- MODULE StreamProto -----------------------------
(***************************************************************************)
(* firmware/core/src/net/stream_proto.c: the sizes of what the client puts *)
(* on the wire.  The bytes themselves are left out; a 0 result is the      *)
(* encoder's refusal.  size_t has 32 bits on the device; SizeMax keeps the *)
(* sums below from wrapping it.                                            *)
(***************************************************************************)
EXTENDS Integers

SizeMax == 1073741823

One(cond) == IF cond THEN 1 ELSE 0

(* do { d++; n >>= 4; } while (n) *)
hex_digits(n) ==
    1 + One(n >= 16) + One(n >= 256) + One(n >= 4096) + One(n >= 65536)
      + One(n >= 1048576) + One(n >= 16777216) + One(n >= 268435456)

(* Hex length, CRLF, payload, CRLF. *)
stream_proto_chunk_overhead(n) == IF n = 0 THEN 0 ELSE hex_digits(n) + 2 + n + 2

stream_proto_encode_chunk(cap, n) ==
    IF n = 0 \/ stream_proto_chunk_overhead(n) > cap
    THEN 0 ELSE stream_proto_chunk_overhead(n)

(* "0\r\n\r\n" *)
stream_proto_encode_final(cap) == IF 5 > cap THEN 0 ELSE 5

(* append and append_u32 refuse to run over cap; hlen is the header's length. *)
stream_proto_build_request_header(cap, hlen) == IF hlen > cap THEN 0 ELSE hlen

=============================================================================
