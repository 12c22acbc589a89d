---------------------------- MODULE StreamClient ----------------------------
(***************************************************************************)
(* One streaming session of the device: stream_client_run                  *)
(* (firmware/core/src/net/stream_client.c) over the socket transport of    *)
(* port/esp/net_socket.c, fed by the microphone source of                  *)
(* port/esp/mic_i2s.c, against a server that reads, and at some moment     *)
(* answers and closes or just closes (server/src/main.c).                  *)
(*                                                                         *)
(* TCP is external and modelled by what both ends rely on: each direction  *)
(* is delivered in order; closing with unread data, and data for a closed  *)
(* socket, send a reset; a send on a reset connection fails; recv delivers *)
(* data first, then the close, then the error.                             *)
(***************************************************************************)
EXTENDS StreamProto, SequencesExt

CONSTANTS
    FrameBytes,     \* stream_client_cfg_t.frame_bytes
    ScratchLens,    \* the lengths of the scratch buffer to consider
    FrameSizes,     \* the sizes of frame the source may deliver
    HeaderLen,      \* length of the request header
    MaxChunks,      \* stream_client_cfg_t.max_chunks
    HangFrames,     \* mic_source_t.hang_frames
    FrameCaps,      \* the values of mic_source_t.max_frames to consider
    KindStack,      \* the stack loses no data and no close to a reset (Linux)
    Response        \* length of the server's answer, in recv() calls of 64 bytes

ASSUME ClientAssumption ==
    /\ FrameBytes \in 1 .. SizeMax
    /\ ScratchLens \subseteq 0 .. SizeMax
    /\ FrameSizes \subseteq 1 .. FrameBytes
    /\ HeaderLen \in 1 .. SizeMax
    /\ MaxChunks \in Nat
    /\ HangFrames \in Nat
    /\ FrameCaps \subseteq Nat
    /\ KindStack \in BOOLEAN
    /\ Response \in Nat

VARIABLES
    cpc,        \* where the client is
    scratch_len,
    chunk,      \* chunks sent, the loop counter of stream_client_run
    polls,      \* the loop counter of the drain loop
    n,          \* size of the frame just read
    mic,        \* mic_source_t
    result,     \* the event returned
    wire,       \* history: everything sent, in order
    up,         \* in flight to the server
    inbox,      \* received by the server's kernel, not read by the server
    read,       \* history: messages the server has read
    srv,        \* the server's socket: "open" or "closed"
    cut,        \* history: what the server had read when it closed
    down,       \* in flight to the client: "data", "FIN", "RST"
    rx,         \* response data at the client, in recv() calls
    fin,        \* the client's kernel has the server's FIN
    dead,       \* the connection was reset, or the link is lost
    lost        \* history: the link was lost

client == <<cpc, chunk, polls, n, mic, result>>
server == <<read, srv, cut>>
net == <<up, inbox, down, rx, fin, dead, lost>>
vars == <<cpc, scratch_len, chunk, polls, n, mic, result, wire, up, inbox, read,
          srv, cut, down, rx, fin, dead, lost>>

Init ==
    /\ cpc = "begin"
    /\ scratch_len \in ScratchLens
    /\ chunk = 0
    /\ polls = 0
    /\ n = 0
    /\ \E cap \in FrameCaps :
          mic = [speech_seen |-> FALSE, silence_run |-> 0, total_frames |-> 0,
                 max_frames |-> cap]
    /\ result = "NONE"
    /\ wire = <<>>
    /\ up = <<>>
    /\ inbox = <<>>
    /\ read = <<>>
    /\ srv = "open"
    /\ cut = "none"
    /\ down = <<>>
    /\ rx = 0
    /\ fin = FALSE
    /\ dead = FALSE
    /\ lost = FALSE

-----------------------------------------------------------------------------
(* stream_client_run *)

Return(ev) == cpc' = "done" /\ result' = ev

Goto(where) == cpc' = where /\ UNCHANGED result

(* send_all through tr_send: it sends everything or reports an error. *)
Send(msg) ==
    /\ ~dead
    /\ up' = Append(up, msg)
    /\ wire' = Append(wire, msg)
    /\ UNCHANGED <<inbox, down, rx, fin, dead, lost>>

(* Mutant: the room for the frame itself is forgotten. *)
Need_NoFrame == stream_proto_chunk_overhead(FrameBytes)

Need == FrameBytes + stream_proto_chunk_overhead(FrameBytes)

(* The argument checks and the request header. *)
Begin ==
    /\ cpc = "begin"
    /\ UNCHANGED <<scratch_len, chunk, polls, n, mic, server>>
    /\ LET refused == \/ scratch_len < Need
                      \/ stream_proto_build_request_header(scratch_len, HeaderLen) = 0
       IN  \/ ~refused /\ Send("header") /\ Goto("poll")
           \/ (refused \/ dead) /\ Return("ERROR") /\ UNCHANGED <<wire, net>>

(* Mutant: a receive timeout looks like a close. *)
tr_recv_TimeoutCloses ==
    IF rx > 0 THEN {"data"} ELSE IF dead THEN {"error"} ELSE {"closed"}

(* What recv may return: response data first, then the close.  After both  *)
(* a close and a reset, stacks differ.                                     *)
tr_recv ==
    IF rx > 0 THEN {"data"}
    ELSE IF fin THEN {"closed"} \cup {r \in {"error"} : dead /\ ~KindStack}
    ELSE IF dead THEN {"error"} ELSE {"wouldblock"}

(* poll_close: go on at `next`, or return. *)
PollClose(next) ==
    \E r \in tr_recv :
        /\ rx' = IF r = "data" THEN rx - 1 ELSE rx
        /\ CASE r = "closed" -> Return("SERVER_CLOSED")
             [] r = "error" -> Return("ERROR")
             [] OTHER -> Goto(next)

(* The top of the streaming loop. *)
Poll ==
    /\ cpc = "poll"
    /\ chunk < MaxChunks
    /\ PollClose("read")
    /\ UNCHANGED <<scratch_len, chunk, polls, n, mic, wire, server,
                   up, inbox, down, fin, dead, lost>>

(* The budget is used up: finalise, whatever the send returns. *)
Exhausted ==
    /\ cpc = "poll"
    /\ chunk >= MaxChunks
    /\ Return("SESSION_TIMEOUT")
    /\ Send("final") \/ (dead /\ UNCHANGED <<wire, net>>)
    /\ UNCHANGED <<scratch_len, chunk, polls, n, mic, server>>

(* mic_src_read's bookkeeping for a frame with or without speech. *)
HeardFrame(loud) ==
    [mic EXCEPT !.speech_seen = @ \/ loud,
                !.silence_run = IF loud THEN 0 ELSE @ + 1,
                !.total_frames = @ + 1]

(* Mutant: the hard cap is not checked. *)
StopsAt_NoCap(m) == m.speech_seen /\ m.silence_run >= HangFrames

(* mic_src_read returns 0: the hard cap, or trailing silence after speech. *)
StopsAt(m) ==
    \/ m.total_frames >= m.max_frames
    \/ m.speech_seen /\ m.silence_run >= HangFrames

ReadFrame(loud, size) ==
    /\ cpc = "read"
    /\ mic' = HeardFrame(loud)
    /\ IF StopsAt(mic') THEN n' = 0 /\ Goto("final") ELSE n' = size /\ Goto("send")
    /\ UNCHANGED <<scratch_len, chunk, polls, wire, server, net>>

(* A failed microphone read ends the stream as silence does. *)
ReadFails ==
    /\ cpc = "read"
    /\ n' = 0
    /\ Goto("final")
    /\ UNCHANGED <<scratch_len, chunk, polls, mic, wire, server, net>>

(* The frame sits at the tail of scratch; the chunk is encoded at its head. *)
SendChunk ==
    /\ cpc = "send"
    /\ UNCHANGED <<scratch_len, polls, n, mic, server>>
    /\ LET clen == stream_proto_encode_chunk(scratch_len - FrameBytes, n)
       IN  \/ clen # 0 /\ Send("chunk") /\ Goto("poll") /\ chunk' = chunk + 1
           \/ /\ clen = 0 \/ dead
              /\ Return("ERROR")
              /\ UNCHANGED <<chunk, wire, net>>

(* Mutant: the stream goes on after its final chunk. *)
SendFinal_GoesOn ==
    /\ cpc = "final"
    /\ UNCHANGED <<scratch_len, chunk, polls, n, mic, server>>
    /\ LET flen == stream_proto_encode_final(scratch_len)
       IN  \/ flen # 0 /\ Send("final") /\ Goto("poll")
           \/ (flen = 0 \/ dead) /\ Return("ERROR") /\ UNCHANGED <<wire, net>>

SendFinal ==
    /\ cpc = "final"
    /\ UNCHANGED <<scratch_len, chunk, polls, n, mic, server>>
    /\ LET flen == stream_proto_encode_final(scratch_len)
       IN  \/ flen # 0 /\ Send("final") /\ Goto("drain")
           \/ (flen = 0 \/ dead) /\ Return("ERROR") /\ UNCHANGED <<wire, net>>

(* Mutant: the wait for the server has no budget. *)
Drain_Forever ==
    /\ cpc = "drain"
    /\ PollClose("drain")
    /\ UNCHANGED <<scratch_len, chunk, polls, n, mic, wire, server,
                   up, inbox, down, fin, dead, lost>>

(* Waiting for the server's cut, for at most MaxChunks polls. *)
Drain ==
    /\ cpc = "drain"
    /\ IF polls < MaxChunks
       THEN PollClose("drain") /\ polls' = polls + 1
       ELSE Return("SESSION_TIMEOUT") /\ UNCHANGED <<polls, rx>>
    /\ UNCHANGED <<scratch_len, chunk, n, mic, wire, server,
                   up, inbox, down, fin, dead, lost>>

Client ==
    \/ Begin
    \/ Poll
    \/ Exhausted
    \/ \E loud \in BOOLEAN, size \in FrameSizes : ReadFrame(loud, size)
    \/ ReadFails
    \/ SendChunk
    \/ SendFinal
    \/ Drain

-----------------------------------------------------------------------------
(* The server, as handle_conn uses the socket. *)

Answer == [i \in 1 .. Response |-> "data"]

SrvRead ==
    /\ srv = "open"
    /\ inbox # <<>>
    /\ read' = Append(read, Head(inbox))
    /\ inbox' = Tail(inbox)
    /\ UNCHANGED <<client, scratch_len, wire, srv, cut, up, down, rx, fin, dead, lost>>

(* "complete": the whole stream; "midstream": all that was sent so far, and *)
(* an answer is on its way; "behind": data was unread or in flight.         *)
ReadSoFar(answer) ==
    IF read # <<>> /\ Last(read) = "final" THEN "complete"
    ELSE IF read # <<>> /\ inbox = <<>> /\ up = <<>> /\ answer # <<>> THEN "midstream"
    ELSE "behind"

(* close(): with unread data the kernel resets the connection, and the     *)
(* answer may be lost with it.                                             *)
SrvClose(answer) ==
    /\ srv = "open"
    /\ srv' = "closed"
    /\ cut' = ReadSoFar(answer)
    /\ IF inbox = <<>>
       THEN down' = down \o answer \o <<"FIN">>
       ELSE \E sent \in {answer, <<>>} : down' = down \o sent \o <<"RST">>
    /\ UNCHANGED <<client, scratch_len, wire, read, up, inbox, rx, fin, dead, lost>>

(* The debounce logic cuts: send_cut_response, close. *)
SrvCut == SrvClose(Answer)

(* A malformed stream or a socket error: close without an answer. *)
SrvDrop == SrvClose(<<>>)

(* TCP *)

DeliverUp ==
    /\ up # <<>>
    /\ up' = Tail(up)
    /\ IF srv = "open"
       THEN inbox' = Append(inbox, Head(up)) /\ UNCHANGED down
       ELSE down' = Append(down, "RST") /\ UNCHANGED inbox
    /\ UNCHANGED <<client, scratch_len, wire, server, rx, fin, dead, lost>>

(* A reset may make the stack drop response data that was not read yet. *)
DeliverDown ==
    /\ down # <<>>
    /\ down' = Tail(down)
    /\ CASE Head(down) = "data" -> rx' = rx + 1 /\ UNCHANGED <<fin, dead>>
         [] Head(down) = "FIN" -> fin' = TRUE /\ UNCHANGED <<rx, dead>>
         [] OTHER -> dead' = TRUE /\ rx' \in {rx} \cup {k \in {0} : ~KindStack} /\ UNCHANGED fin
    /\ UNCHANGED <<client, scratch_len, wire, server, up, inbox, lost>>

(* Wi-Fi drops or the peer stops answering: TCP gives up. *)
LinkLost ==
    /\ ~lost
    /\ cpc # "done"
    /\ lost' = TRUE
    /\ dead' = TRUE
    /\ UNCHANGED <<client, scratch_len, wire, server, up, inbox, down, rx, fin>>

Done == cpc = "done" /\ UNCHANGED vars

Next ==
    \/ Client
    \/ SrvRead
    \/ SrvCut
    \/ SrvDrop
    \/ DeliverUp
    \/ DeliverDown
    \/ LinkLost
    \/ Done

Spec == Init /\ [][Next]_vars

(* Only the client's own steps are fair: neither the server nor the        *)
(* network owes it anything.                                               *)
FairSpec == Spec /\ WF_vars(Client)

-----------------------------------------------------------------------------
Msgs == {"header", "chunk", "final"}

(* The variables hold values of the program's types; the budgets bound the *)
(* counters.                                                               *)
TypeOK ==
    /\ cpc \in {"begin", "poll", "read", "send", "final", "drain", "done"}
    /\ scratch_len \in ScratchLens
    /\ chunk \in 0 .. MaxChunks
    /\ polls \in 0 .. MaxChunks
    /\ n \in FrameSizes \cup {0}
    /\ mic \in [speech_seen : BOOLEAN, silence_run : Nat, total_frames : Nat,
               max_frames : FrameCaps]
    /\ result \in {"NONE", "SERVER_CLOSED", "SESSION_TIMEOUT", "ERROR"}
    /\ wire \in Seq(Msgs) /\ up \in Seq(Msgs) /\ inbox \in Seq(Msgs)
    /\ read \in Seq(Msgs)
    /\ srv \in {"open", "closed"}
    /\ cut \in {"none", "complete", "midstream", "behind"}
    /\ down \in Seq({"data", "FIN", "RST"}) /\ rx \in Nat
    /\ fin \in BOOLEAN /\ dead \in BOOLEAN /\ lost \in BOOLEAN

(* stream_client.c:43-56, 86: once the guard on scratch has passed, every  *)
(* frame the source can deliver encodes, and the chunk at the head never   *)
(* reaches the frame at the tail that it is copied from.                   *)
EncodeFits ==
    cpc = "send" =>
        /\ stream_proto_encode_chunk(scratch_len - FrameBytes, n) # 0
        /\ stream_proto_chunk_overhead(n) + FrameBytes <= scratch_len

(* stream_client.c:35-99: the server can only ever see a header, then      *)
(* chunks, then at most one final chunk, and nothing after it.  (With the  *)
(* type invariant.)                                                        *)
WireFormat ==
    /\ TypeOK
    /\ \A i \in 1 .. Len(wire) :
          /\ (wire[i] = "header") <=> (i = 1)
          /\ wire[i] = "final" => i = Len(wire)
    /\ IsPrefix(read, wire)

(* mic_i2s.c:163-170, app_main.c:122: the microphone's cap ends the stream *)
(* before the client's own budget does, so the final chunk is always sent  *)
(* by the branch that then waits for the server.                           *)
CapBeforeBudget ==
    (0 < MaxChunks /\ mic.max_frames <= MaxChunks) => (cpc = "poll" => chunk < MaxChunks)

(* stream_client.c:20-33, 58-84: what the client reports is what happened: *)
(* a close it reports was the server's, and a timeout means that the       *)
(* stream was finalised, or could not be.                                  *)
ResultTrue ==
    /\ result = "SERVER_CLOSED" => srv = "closed"
    /\ result = "SESSION_TIMEOUT" =>
          dead \/ (wire # <<>> /\ Last(wire) = "final")

(* stream_client.c:68-84: when the server has read the whole stream before *)
(* it cuts, the client is not told of an error, however the answer and the *)
(* close are delivered.                                                    *)
CleanCutNoError ==
    (cpc = "done" /\ cut = "complete" /\ ~lost) => result # "ERROR"

(* stream_client.c:58-98: the client always comes back to the session      *)
(* runner, even if the server and the network never do anything.           *)
Terminates == <>(cpc = "done")

(* stream_client.h:45 "FSM_EV_SERVER_CLOSED (normal cut)": a session that  *)
(* the server cuts with an answer while the device still streams, having   *)
(* read all it was sent so far, is reported as closed by the server.       *)
MidStreamCutIsClosed ==
    (cpc = "done" /\ cut = "midstream" /\ ~lost) => result # "ERROR"

(* app_main.c:6-7 "stream PCM as chunked HTTP until the server debounces a *)
(* command and cuts": a session that ends without losing the link has put  *)
(* at least its request on the wire.                                       *)
SessionStreams == (cpc = "done" /\ ~lost) => wire # <<>>

=============================================================================
