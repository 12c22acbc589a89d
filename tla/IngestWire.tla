----------------------------- MODULE IngestWire -----------------------------
(***************************************************************************)
(* The bytes the device's encoder writes (firmware/core/src/net/           *)
(* stream_proto.c), and a reference for what HttpIngest makes of a stream: *)
(* a parser that reads it as a whole, by position, with no state carried   *)
(* from one buffer to the next.                                            *)
(***************************************************************************)
EXTENDS HttpIngest

CONSTANTS
    Cfg,            \* stream_proto_cfg_t
    Sessions        \* what a device may send: sequences of frames

-----------------------------------------------------------------------------
(* The encoder *)

CRLF == <<"CR", "LF">>

Digits == <<"0", "1", "2", "3", "4", "5", "6", "7", "8", "9", "a", "b", "c", "d", "e", "f">>

(* The digits of a number, the last one first found. *)
Numeral(base) ==
    LET numeral[n \in 0 .. SizeMod - 1] ==
          (IF n < base THEN <<>> ELSE numeral[n \div base]) \o <<Digits[(n % base) + 1]>>
    IN  numeral

append_u32(v) == Numeral(10)[v]

write_hex(n) == Numeral(16)[n]

(* One byte for each header name and for each value that never changes. *)
stream_proto_build_request_header ==
    (<<"P", "SP">> \o Cfg.path \o <<"SP", "H">>) \o CRLF
        \o (<<"h", ":", "SP">> \o Cfg.host) \o CRLF
        \o <<"t", ":", "SP", "c">> \o CRLF
        \o <<"y", ":", "SP", "o">> \o CRLF
        \o (<<"S", ":", "SP">> \o Cfg.session_id) \o CRLF
        \o (<<"W", ":", "SP">> \o append_u32(Cfg.wake_conf_milli)) \o CRLF \o CRLF

stream_proto_encode_chunk(frame) == write_hex(Len(frame)) \o CRLF \o frame \o CRLF

stream_proto_encode_final == <<"0">> \o CRLF \o CRLF

(* What is on the wire, and what of the audio, after each frame. *)
Sent(frames) ==
    LET sent[k \in 0 .. Len(frames)] ==
          IF k = 0 THEN stream_proto_build_request_header
          ELSE sent[k - 1] \o stream_proto_encode_chunk(frames[k])
    IN  sent

Audio(frames) ==
    LET audio[k \in 0 .. Len(frames)] ==
          IF k = 0 THEN <<>> ELSE audio[k - 1] \o frames[k]
    IN  audio

DeviceInput(frames) ==
    [bytes |-> Sent(frames)[Len(frames)] \o stream_proto_encode_final,
     pcm |-> Audio(frames)[Len(frames)], device |-> TRUE]

-----------------------------------------------------------------------------
(* The reference parser *)

Verdict(v, p) == [verdict |-> v, payload |-> p]

After(p, v) == Verdict(v.verdict, p \o v.payload)

(* The position of the first LF at or after i, 0 if there is none. *)
LineEnd(s, i) == SelectInSubSeq(s, i, Len(s), LAMBDA b : b = "LF")

(* The line that starts at i has more bytes before its LF than fit. *)
TooLong(s, i) ==
    (IF LineEnd(s, i) = 0 THEN Len(s) + 1 ELSE LineEnd(s, i)) - i > LineMax - 1

LineAt(s, i) ==
    LET j == LineEnd(s, i)
    IN  SubSeq(s, i, IF j > i /\ s[j - 1] = "CR" THEN j - 2 ELSE j - 1)

(* A line at i that is too long or not there yet, or else `then`. *)
OfLine(s, i, then) ==
    IF TooLong(s, i) THEN Verdict("error", <<>>)
    ELSE IF LineEnd(s, i) = 0 THEN Verdict("more", <<>>)
    ELSE then

TrailerAt(s, i) == OfLine(s, i, Verdict("complete", <<>>))

(* The line end behind a chunk's data; `body` is what is read behind it. *)
CrlfAt(s, i, body) ==
    OfLine(s, i, IF LineAt(s, i) # <<>> THEN Verdict("error", <<>>)
                 ELSE body[LineEnd(s, i) + 1])

DataAt(s, i, size, body) ==
    IF Len(s) < i + size - 1 THEN Verdict("more", SubSeq(s, i, Len(s)))
    ELSE After(SubSeq(s, i, i + size - 1), CrlfAt(s, i + size, body))

(* What follows the headers, from the chunk-size line at i on. *)
BodyAt(s, i, body) ==
    LET size == parse_chunk_size(LineAt(s, i))
    IN  OfLine(s, i, IF size = SizeMod - 1 THEN Verdict("error", <<>>)
                     ELSE IF size = 0 THEN TrailerAt(s, LineEnd(s, i) + 1)
                     ELSE DataAt(s, LineEnd(s, i) + 1, size, body))

Body(s) == LET body[i \in 1 .. Len(s) + 1] == BodyAt(s, i, body) IN body

(* The headers, from the line at i on, and then the body. *)
HeadersAt(s, i, headers) ==
    OfLine(s, i, IF LineAt(s, i) = <<>> THEN Body(s)[LineEnd(s, i) + 1]
                 ELSE headers[LineEnd(s, i) + 1])

Headers(s) == LET headers[i \in 1 .. Len(s) + 1] == HeadersAt(s, i, headers) IN headers

(* Method and path of 1 to MethodMax - 1 and 1 to PathMax - 1 bytes, each  *)
(* ended by a space.                                                       *)
GoodRequest(line) ==
    \E i, j \in 1 .. Len(line) :
        /\ line[i] = "SP" /\ line[j] = "SP" /\ i < j
        /\ \A k \in 1 .. j - 1 : line[k] = "SP" => k = i
        /\ i - 1 \in 1 .. MethodMax - 1
        /\ j - i - 1 \in 1 .. PathMax - 1

Reference(s) ==
    OfLine(s, 1, IF GoodRequest(LineAt(s, 1)) THEN Headers(s)[LineEnd(s, 1) + 1]
                 ELSE Verdict("error", <<>>))

Observed ==
    Verdict(IF ing.state = "ERROR" THEN "error"
            ELSE IF ing.complete THEN "complete" ELSE "more", payload)

(* http_ingest.c:155-239: after every call, what the parser has passed on  *)
(* and whether it is done or has failed depends only on the bytes received *)
(* so far, not on where recv cut them into buffers.                        *)
SegmentationFree ==
    ~Calling => Observed = Reference(SubSeq(input.bytes, 1, fed))

-----------------------------------------------------------------------------
(* No byte of s is in C. *)
Without(s, C) == \A i \in DOMAIN s : s[i] \notin C

(* The device's limits: no line overruns the server's line buffer, and no  *)
(* frame is empty or as long as the largest size.                          *)
ASSUME EncoderAssumption ==
    /\ Cfg \in [path : Seq(Bytes), host : Seq(Bytes), session_id : Seq(Bytes),
                wake_conf_milli : 0 .. SizeMod - 1]
    /\ Without(Cfg.path, {"SP", "LF"})
    /\ Without(Cfg.host, {"LF"}) /\ Without(Cfg.session_id, {"LF"})
    /\ Len(Cfg.path) \in 1 .. PathMax - 1 /\ MethodMax > 1
    /\ {5, 5 + Len(Cfg.path), 4 + Len(Cfg.host), 4 + Len(Cfg.session_id),
        4 + Len(append_u32(Cfg.wake_conf_milli))} \subseteq 1 .. LineMax - 1
    /\ Range(Digits) \cup {"P", "SP", "H", "CR", "LF", "h", "t", "c", "y", "o", "S", "W", ":"}
          \subseteq Bytes
    /\ Sessions \subseteq Seq(Seq(Bytes))
    /\ \A frames \in Sessions : \A k \in DOMAIN frames :
          /\ Len(frames[k]) \in 1 .. SizeMod - 2
          /\ Len(write_hex(Len(frames[k]))) + 1 < LineMax
    /\ SizeMod > 16
    /\ \A i \in Inputs : i.device => \E frames \in Sessions : i = DeviceInput(frames)

=============================================================================
