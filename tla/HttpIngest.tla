----------------------------- MODULE HttpIngest -----------------------------
(***************************************************************************)
(* The server's ingest parser, http_ingest_feed (server/src/http_ingest.c),*)
(* fed by handle_conn with whatever pieces recv returns, and the sample    *)
(* decode of session_on_pcm (server/src/session.c) that its payload        *)
(* callback leads to.                                                      *)
(*                                                                         *)
(* A byte is a string that names it: "CR", "LF", "SP", ":", ";", the hex   *)
(* digits (upper and lower case are one), and any other string for a byte  *)
(* without a meaning of its own.  A NUL inside a line, where the C string  *)
(* functions would stop, is left out.                                      *)
(* Header names are one byte long: "S" is X-SimonSays-Session and "W" is   *)
(* X-SimonSays-Wake-Conf.  One step is one turn of the loop in             *)
(* http_ingest_feed, so a step handles one line or one payload span.       *)
(***************************************************************************)
EXTENDS Integers, SequencesExt

CONSTANTS
    Bytes,          \* the bytes a peer may send
    Inputs,         \* what the peer sends: [bytes, pcm, device], see IngestTypeOK
    BufMax,         \* size of handle_conn's receive buffer
    LineMax,        \* HTTP_INGEST_LINE_MAX
    MethodMax,      \* sizeof(ing->method)
    PathMax,        \* HTTP_INGEST_PATH_MAX
    SessionMax,     \* HTTP_INGEST_SESSION_MAX
    SizeMod,        \* number of values of a size_t
    U32Mod          \* number of values of a uint32_t

ASSUME IngestAssumption ==
    /\ Inputs \subseteq [bytes : Seq(Bytes), pcm : Seq(Bytes), device : BOOLEAN]
    /\ BufMax \in Nat \ {0}
    /\ LineMax \in Nat \ {0}
    /\ MethodMax \in Nat \ {0}
    /\ PathMax \in Nat \ {0}
    /\ SessionMax \in Nat \ {0}
    /\ SizeMod \in Nat \ {0}
    /\ U32Mod \in Nat \ {0}

VARIABLES
    input,      \* what the peer sends, and what it means
    fed,        \* bytes handed to http_ingest_feed so far
    len,        \* length of the buffer of the current call; 0 between two calls
    buf,        \* what the current call has not consumed yet
    ret,        \* what the last call returned
    ing,        \* http_ingest_t
    payload,    \* history: everything passed to the payload callback
    samples     \* history: the samples session_on_pcm decoded, as pairs of bytes

ingestVars == <<input, fed, len, buf, ret, ing, payload, samples>>

IngestStates ==
    {"REQUEST_LINE", "HEADER_LINE", "CHUNK_SIZE", "CHUNK_DATA", "CHUNK_CRLF",
     "TRAILER", "DONE", "ERROR"}

http_ingest_init ==
    [state |-> "REQUEST_LINE", line |-> <<>>, chunk_remaining |-> 0, method |-> <<>>,
     path |-> <<>>, session_id |-> <<>>, wake_conf_milli |-> 0, complete |-> FALSE]

IngestInit ==
    /\ input \in Inputs
    /\ fed = 0
    /\ len = 0
    /\ buf = <<>>
    /\ ret = 0
    /\ ing = http_ingest_init
    /\ payload = <<>>
    /\ samples = <<>>

-----------------------------------------------------------------------------
(* Lines *)

Least(a, b) == IF a <= b THEN a ELSE b

(* The first k bytes, and what follows the first k bytes. *)
Take(s, k) == SubSeq(s, 1, Least(k, Len(s)))
Drop(s, k) == SubSeq(s, k + 1, Len(s))

(* strchr: the position of the first c, 0 if there is none. *)
Find(s, c) == SelectInSeq(s, LAMBDA b : b = c)

StripCR(line) ==
    IF line # <<>> /\ Last(line) = "CR" THEN Front(line) ELSE line

(* What of the buffer belongs to the current line. *)
Piece == IF Find(buf, "LF") = 0 THEN buf ELSE Take(buf, Find(buf, "LF") - 1)

(* Mutant: a CR is only stripped when it came in the same buffer as its LF. *)
accumulate_line_SplitCR ==
    LET line == ing.line \o Piece
    IN  IF Len(line) > LineMax - 1
        THEN [r |-> "overflow", line |-> <<>>, rest |-> <<>>]
        ELSE IF Find(buf, "LF") = 0 THEN [r |-> "more", line |-> line, rest |-> <<>>]
        ELSE [r |-> "line", line |-> ing.line \o StripCR(Piece),
              rest |-> Drop(buf, Find(buf, "LF"))]

accumulate_line ==
    LET line == ing.line \o Piece
    IN  IF Len(line) > LineMax - 1
        THEN [r |-> "overflow", line |-> <<>>, rest |-> <<>>]
        ELSE IF Find(buf, "LF") = 0 THEN [r |-> "more", line |-> line, rest |-> <<>>]
        ELSE [r |-> "line", line |-> StripCR(line), rest |-> Drop(buf, Find(buf, "LF"))]

Failed == [ing EXCEPT !.state = "ERROR"]

(* reset_line, and on to the next state. *)
Enter(state) == [ing EXCEPT !.state = state, !.line = <<>>]

(* "METHOD PATH HTTP/1.1"; the method is kept even if the path is wrong. *)
parse_request_line(line) ==
    LET sp1 == Find(line, "SP")
        rest == Drop(line, sp1)
        sp2 == Find(rest, "SP")
        method == Take(line, sp1 - 1)
    IN  CASE sp1 - 1 \notin 1 .. MethodMax - 1 -> Failed
          [] sp1 - 1 \in 1 .. MethodMax - 1 /\ sp2 - 1 \notin 1 .. PathMax - 1 ->
                [Failed EXCEPT !.method = method]
          [] OTHER -> [Enter("HEADER_LINE") EXCEPT !.method = method,
                                                   !.path = Take(rest, sp2 - 1)]

Decimal == [c \in {"0", "1", "2", "3", "4", "5", "6", "7", "8", "9"} |->
    CHOOSE v \in 0 .. 9 : c = <<"0", "1", "2", "3", "4", "5", "6", "7", "8", "9">>[v + 1]]

Hex == [c \in DOMAIN Decimal \cup {"a", "b", "c", "d", "e", "f"} |->
    IF c \in DOMAIN Decimal THEN Decimal[c]
    ELSE CHOOSE v \in 10 .. 15 : c = <<"a", "b", "c", "d", "e", "f">>[v - 9]]

(* The leading bytes of s that are in C. *)
Leading(s, C) ==
    LET i == SelectInSeq(s, LAMBDA b : b \notin C) IN IF i = 0 THEN s ELSE Take(s, i - 1)

(* The number that digits denote, in a type of `mod` values. *)
Number(digits, value, base, mod) ==
    LET v[i \in 0 .. Len(digits)] ==
          IF i = 0 THEN 0 ELSE (v[i - 1] * base + value[digits[i]]) % mod
    IN  v[Len(digits)]

parse_u32(s) == Number(Leading(s, DOMAIN Decimal), Decimal, 10, U32Mod)

parse_header_line(line) ==
    LET colon == Find(line, ":")
        name == Take(line, colon - 1)
        after == Drop(line, colon)
        value == Drop(after, Len(Leading(after, {"SP", "TAB"})))
    IN  IF colon = 0 THEN Enter("HEADER_LINE")
        ELSE IF name = <<"S">>
        THEN [Enter("HEADER_LINE") EXCEPT !.session_id = Take(value, SessionMax - 1)]
        ELSE IF name = <<"W">>
        THEN [Enter("HEADER_LINE") EXCEPT !.wake_conf_milli = parse_u32(value)]
        ELSE Enter("HEADER_LINE")

(* The size, or SIZE_MAX for a malformed line; an extension is ignored. *)
parse_chunk_size(line) ==
    LET digits == IF Find(line, ";") = 0 THEN line ELSE Take(line, Find(line, ";") - 1)
    IN  IF digits = <<>> \/ Leading(digits, DOMAIN Hex) # digits THEN SizeMod - 1
        ELSE Number(digits, Hex, 16, SizeMod)

-----------------------------------------------------------------------------
(* http_ingest_feed *)

Calling == len # 0

(* recv returned k bytes: http_ingest_feed is called with them. *)
FeedCall(k) ==
    /\ ~Calling
    /\ ret >= 0                     \* handle_conn leaves its loop on an error
    /\ fed + k <= Len(input.bytes)
    /\ len' = k
    /\ buf' = SubSeq(input.bytes, fed + 1, fed + k)
    /\ fed' = fed + k
    /\ UNCHANGED <<input, ret, ing, payload, samples>>

(* A turn of the loop in a state that reads a line; Then is what the state *)
(* does with a complete one.                                               *)
OnLine(state, Then(_)) ==
    /\ buf # <<>>
    /\ ing.state = state
    /\ LET a == accumulate_line
       IN  CASE a.r = "overflow" -> ing' = Failed
             [] a.r = "more" -> ing' = [ing EXCEPT !.line = a.line]
             [] OTHER -> ing' = Then(a.line)
    /\ buf' = accumulate_line.rest
    /\ UNCHANGED <<input, fed, len, ret, payload, samples>>

RequestLine == OnLine("REQUEST_LINE", parse_request_line)

HeaderLine ==
    OnLine("HEADER_LINE", LAMBDA line :
        IF line = <<>> THEN Enter("CHUNK_SIZE") ELSE parse_header_line(line))

ChunkSize ==
    OnLine("CHUNK_SIZE", LAMBDA line :
        LET sz == parse_chunk_size(line)
        IN  IF sz = SizeMod - 1 THEN Failed
            ELSE IF sz = 0 THEN Enter("TRAILER")
            ELSE [Enter("CHUNK_DATA") EXCEPT !.chunk_remaining = sz])

ChunkCrlf ==
    OnLine("CHUNK_CRLF", LAMBDA line :
        IF line # <<>> THEN Failed ELSE Enter("CHUNK_SIZE"))

Trailer ==
    OnLine("TRAILER", LAMBDA line : [Enter("DONE") EXCEPT !.complete = TRUE])

(* decode_le16 over the whole samples of one span; an odd byte is dropped. *)
Decode(span) ==
    [i \in 1 .. Len(span) \div 2 |-> <<span[2 * i - 1], span[2 * i]>>]

(* Mutant: the end of the chunk inside the buffer is not looked for. *)
SpanLength_All == Len(buf)

SpanLength == Least(Len(buf), ing.chunk_remaining)

(* on_payload with what the buffer has of the chunk. *)
ChunkData ==
    /\ buf # <<>>
    /\ ing.state = "CHUNK_DATA"
    /\ payload' = payload \o Take(buf, SpanLength)
    /\ samples' = samples \o Decode(Take(buf, SpanLength))
    /\ buf' = Drop(buf, SpanLength)
    /\ ing' = [ing EXCEPT !.chunk_remaining = @ - SpanLength,
                          !.state = IF SpanLength = ing.chunk_remaining
                                    THEN "CHUNK_CRLF" ELSE @]
    /\ UNCHANGED <<input, fed, len, ret>>

FeedReturn ==
    /\ Calling
    /\ buf = <<>> \/ ing.state \in {"DONE", "ERROR"}
    /\ ret' = IF ing.state = "ERROR" THEN -1 ELSE len - Len(buf)
    /\ len' = 0
    /\ buf' = <<>>
    /\ UNCHANGED <<input, fed, ing, payload, samples>>

(* The peer has sent everything, or the connection was closed on an error. *)
Finished ==
    /\ ~Calling
    /\ fed = Len(input.bytes) \/ ret < 0
    /\ UNCHANGED ingestVars

IngestNext ==
    \/ \E k \in 1 .. BufMax : FeedCall(k)
    \/ RequestLine
    \/ HeaderLine
    \/ ChunkSize
    \/ ChunkData
    \/ ChunkCrlf
    \/ Trailer
    \/ FeedReturn
    \/ Finished

IngestSpec == IngestInit /\ [][IngestNext]_ingestVars

-----------------------------------------------------------------------------
(* http_ingest_t; a line leaves room for its terminating NUL in the buffer. *)
http_ingest_t ==
    [state : IngestStates, line : Seq(Bytes), chunk_remaining : 0 .. SizeMod - 1,
     method : Seq(Bytes), path : Seq(Bytes), session_id : Seq(Bytes),
     wake_conf_milli : 0 .. U32Mod - 1, complete : BOOLEAN]

(* The variables hold values of the program's types, and no line, method,  *)
(* path or session id overruns its array.                                  *)
IngestTypeOK ==
    /\ input \in Inputs
    /\ fed \in 0 .. Len(input.bytes)
    /\ len \in 0 .. BufMax
    /\ buf \in Seq(Bytes)
    /\ ret \in -1 .. BufMax
    /\ ing \in http_ingest_t
    /\ Len(ing.line) <= LineMax - 1
    /\ Len(ing.method) <= MethodMax - 1
    /\ Len(ing.path) <= PathMax - 1
    /\ Len(ing.session_id) <= SessionMax - 1
    /\ payload \in Seq(Bytes)
    /\ samples \in Seq(Bytes \X Bytes)

(* stream_proto.c:66-128 against http_ingest.c:155-239: what the device's  *)
(* encoder wrote is accepted however TCP splits it; what has been passed   *)
(* on is always a prefix of the audio, and it is all of it at the end.     *)
(* (With the type invariant.)                                              *)
RoundTrip ==
    /\ IngestTypeOK
    /\ input.device =>
          /\ ing.state # "ERROR"
          /\ IsPrefix(payload, input.pcm)
          /\ (~Calling /\ fed = Len(input.bytes)) =>
                ing.complete /\ payload = input.pcm

(* session.h:39 "Feed a PCM payload (raw little-endian int16 bytes)" and   *)
(* http_ingest.h:19 "May be called many times per chunk": the samples that *)
(* the recogniser hears are the device's samples.                          *)
SamplesIntact ==
    input.device => IsPrefix(samples, Decode(input.pcm))

=============================================================================
