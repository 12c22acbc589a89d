---------------------------- MODULE StreamProofs ----------------------------
(***************************************************************************)
(* Proofs about StreamClient and StreamProto, for every frame size, every  *)
(* scratch length and every behaviour of the server and the network: the   *)
(* guard at the top of stream_client_run is enough for every later chunk,  *)
(* what goes out is one well-formed request, and the client's account of   *)
(* how the session ended is true.                                          *)
(***************************************************************************)
EXTENDS StreamClient, SequenceTheorems, TLAPS

(* stream_proto.c:6-14: a shorter frame needs no more hex digits. *)
LEMMA HexDigitsMonotone ==
    ASSUME NEW a \in Nat, NEW b \in Nat, a <= b
    PROVE  /\ hex_digits(a) \in 1 .. 8
           /\ hex_digits(a) <= hex_digits(b)
BY SMT DEF hex_digits, One

(* stream_proto.c:89-96: a shorter frame makes a shorter chunk. *)
LEMMA OverheadMonotone ==
    ASSUME NEW a \in Nat \ {0}, NEW b \in Nat, a <= b
    PROVE  /\ stream_proto_chunk_overhead(a) \in Nat \ {0}
           /\ stream_proto_chunk_overhead(a) <= stream_proto_chunk_overhead(b)
BY HexDigitsMonotone, SMT DEF stream_proto_chunk_overhead

(* What the assumptions on the sizes come to. *)
LEMMA Sizes ==
    /\ FrameBytes \in Nat \ {0}
    /\ \A len \in ScratchLens : len \in Nat
    /\ \A size \in FrameSizes : size \in Nat \ {0} /\ size <= FrameBytes
<1>1. SizeMax \in Nat
  BY SMT DEF SizeMax
<1>2. /\ FrameBytes \in 1 .. SizeMax
      /\ \A len \in ScratchLens : len \in 0 .. SizeMax
      /\ \A size \in FrameSizes : size \in 1 .. FrameBytes
  BY ClientAssumption
<1> QED
  BY <1>1, <1>2, SMT

(* The part of the client's state that the size of a chunk depends on: the *)
(* guard has passed, and the frame is one the source can deliver.          *)
Guarded ==
    /\ scratch_len \in ScratchLens
    /\ cpc \notin {"begin", "done"} => Need <= scratch_len
    /\ cpc = "send" => n \in FrameSizes

LEMMA NextGuarded == Guarded /\ [Next]_vars => Guarded'
<1> SUFFICES ASSUME Guarded, [Next]_vars PROVE Guarded'
  OBVIOUS
<1> USE DEF Guarded
<1>1. CASE Begin
  <2>1. \/ ~(scratch_len < Need) /\ cpc' = "poll"
        \/ cpc' = "done"
    BY <1>1 DEF Begin, Goto, Return
  <2>2. scratch_len \in Nat /\ Need \in Nat
    <3>1. stream_proto_chunk_overhead(FrameBytes) \in Nat
      BY Sizes, OverheadMonotone, SMT
    <3> QED
      BY <3>1, Sizes, SMT DEF Need
  <2>3. scratch_len' = scratch_len /\ Need' = Need
    BY <1>1 DEF Begin, Need, stream_proto_chunk_overhead
  <2> QED
    BY <2>1, <2>2, <2>3, SMT
<1>2. CASE Poll
  <2>1. cpc' \in {"read", "done"} /\ cpc = "poll"
    BY <1>2 DEF Poll, PollClose, Goto, Return
  <2> QED
    BY <1>2, <2>1 DEF Poll
<1>3. CASE Exhausted
  BY <1>3 DEF Exhausted, Return
<1>4. ASSUME NEW loud \in BOOLEAN, NEW size \in FrameSizes, ReadFrame(loud, size)
      PROVE  Guarded'
  BY <1>4 DEF ReadFrame, Goto
<1>5. CASE ReadFails
  BY <1>5 DEF ReadFails, Goto
<1>6. CASE SendChunk
  <2>1. cpc' \in {"poll", "done"} /\ cpc = "send" /\ scratch_len' = scratch_len
    BY <1>6 DEF SendChunk, Goto, Return
  <2> QED
    BY <2>1
<1>7. CASE SendFinal
  <2>1. cpc' \in {"drain", "done"} /\ cpc = "final" /\ scratch_len' = scratch_len
    BY <1>7 DEF SendFinal, Goto, Return
  <2> QED
    BY <2>1
<1>8. CASE Drain
  <2>1. cpc' \in {"drain", "done"} /\ cpc = "drain" /\ scratch_len' = scratch_len
    BY <1>8 DEF Drain, PollClose, Goto, Return
  <2> QED
    BY <2>1
<1>9. CASE SrvRead \/ SrvCut \/ SrvDrop \/ DeliverUp \/ DeliverDown \/ LinkLost
  BY <1>9 DEF SrvRead, SrvCut, SrvDrop, SrvClose, DeliverUp, DeliverDown, LinkLost,
     client
<1>10. CASE Done \/ UNCHANGED vars
  BY <1>10 DEF Done, vars
<1> QED
  BY <1>1, <1>2, <1>3, <1>4, <1>5, <1>6, <1>7, <1>8, <1>9, <1>10
     DEF Next, Client

(* stream_client.c:43-56, 86-90, for all sizes: no frame is refused by the *)
(* encoder after the guard, and no chunk overlaps its own payload.         *)
THEOREM EncodeAlwaysFits == Spec => []EncodeFits
<1>1. Init => Guarded
  BY DEF Init, Guarded
<1>2. Guarded => EncodeFits
  <2> SUFFICES ASSUME Guarded, cpc = "send" PROVE EncodeFits!2
    BY DEF EncodeFits
  <2>1. n \in Nat \ {0} /\ FrameBytes \in Nat /\ n <= FrameBytes
    BY Sizes, SMT DEF Guarded
  <2>2. /\ stream_proto_chunk_overhead(n) \in Nat \ {0}
        /\ stream_proto_chunk_overhead(FrameBytes) \in Nat
        /\ stream_proto_chunk_overhead(n) <= stream_proto_chunk_overhead(FrameBytes)
    BY <2>1, OverheadMonotone, SMT
  <2>3. scratch_len \in Nat
        /\ FrameBytes + stream_proto_chunk_overhead(FrameBytes) <= scratch_len
    BY Sizes, SMT DEF Guarded, Need
  <2>4. stream_proto_chunk_overhead(n) + FrameBytes <= scratch_len
    BY <2>1, <2>2, <2>3, SMT
  <2>5. stream_proto_encode_chunk(scratch_len - FrameBytes, n) # 0
    BY <2>1, <2>2, <2>3, <2>4, SMT DEF stream_proto_encode_chunk
  <2> QED
    BY <2>4, <2>5
<1> QED
  BY <1>1, <1>2, NextGuarded, PTL DEF Spec

-----------------------------------------------------------------------------
(* The whole session: the inductive invariant *)

(* The final chunk has been sent. *)
Finalised == wire # <<>> /\ wire[Len(wire)] = "final"

(* What is on the wire, and how it goes with where the client is. *)
Format ==
    /\ \A i \in 1 .. Len(wire) :
          /\ (wire[i] = "header") <=> (i = 1)
          /\ wire[i] = "final" => i = Len(wire)
    /\ cpc = "begin" => wire = <<>>
    /\ cpc \in {"poll", "read", "send", "final"} => wire # <<>>
    /\ Finalised => cpc \in {"drain", "done"}
    /\ cpc = "drain" => Finalised

(* Nothing is lost or reordered on its way to a server that is still       *)
(* reading.                                                                *)
Piped ==
    /\ Len(read) <= Len(wire)
    /\ \A i \in 1 .. Len(read) : read[i] = wire[i]
    /\ srv = "open" =>
         /\ Len(wire) = Len(read) + Len(inbox) + Len(up)
         /\ \A i \in 1 .. Len(inbox) : inbox[i] = wire[Len(read) + i]
         /\ \A i \in 1 .. Len(up) : up[i] = wire[Len(read) + Len(inbox) + i]

(* The client's counters: one frame was read for every chunk sent, and the *)
(* one that reached the cap was not.                                       *)
Counted ==
    /\ cpc \in {"read", "send"} => chunk < MaxChunks
    /\ cpc = "begin" => chunk = 0
    /\ cpc \in {"begin", "poll", "read"} => mic.total_frames = chunk
    /\ cpc \in {"poll", "read"} => chunk = 0 \/ chunk < mic.max_frames
    /\ cpc = "send" => mic.total_frames = chunk + 1 /\ chunk + 1 < mic.max_frames

(* What the client may have been told.  Until the server closes nothing    *)
(* comes from it; a server that had read the whole stream leaves no data   *)
(* behind for which it would send a reset.                                 *)
Told ==
    /\ srv = "open" =>
         cut = "none" /\ down = <<>> /\ rx = 0 /\ ~fin /\ (dead => lost)
    /\ cut = "complete" =>
         /\ srv = "closed" /\ Finalised /\ up = <<>>
         /\ \A i \in 1 .. Len(down) : down[i] # "RST"
         /\ dead => lost
    /\ cpc # "done" => result = "NONE"
    /\ result = "SERVER_CLOSED" => srv = "closed"
    /\ result = "SESSION_TIMEOUT" => dead \/ Finalised
    /\ result = "ERROR" /\ ~lost /\ Finalised => srv = "closed" /\ cut # "complete"

IInv == TypeOK /\ Format /\ Piped /\ Counted /\ Told

(* What sending a message does to the wire. *)
LEMMA SendFacts ==
    ASSUME TypeOK, NEW msg \in Msgs, Send(msg)
    PROVE  /\ wire' \in Seq(Msgs) /\ up' \in Seq(Msgs)
           /\ wire' # <<>> /\ up' # <<>>
           /\ Len(wire) \in Nat /\ Len(up) \in Nat
           /\ Len(wire') = Len(wire) + 1 /\ Len(up') = Len(up) + 1
           /\ \A i \in 1 .. Len(wire) : wire'[i] = wire[i]
           /\ \A i \in 1 .. Len(up) : up'[i] = up[i]
           /\ wire'[Len(wire) + 1] = msg /\ up'[Len(up) + 1] = msg
           /\ ~dead
           /\ UNCHANGED <<inbox, down, rx, fin, dead, lost>>
<1>1. wire \in Seq(Msgs) /\ up \in Seq(Msgs)
  BY DEF TypeOK
<1>2. wire' = Append(wire, msg) /\ up' = Append(up, msg) /\ ~dead
      /\ UNCHANGED <<inbox, down, rx, fin, dead, lost>>
  BY DEF Send
<1> QED
  BY <1>1, <1>2, AppendProperties, LenProperties

(* A header that is the first message, or a chunk, or a final chunk that   *)
(* takes the client out of its loop, keeps the format.                     *)
LEMMA SendFormat ==
    ASSUME TypeOK, Format, NEW msg \in Msgs, Send(msg),
           cpc \in {"begin", "poll", "send", "final"},
           msg = "header" <=> cpc = "begin",
           \/ msg # "final" /\ cpc' = "poll"
           \/ msg = "final" /\ cpc' \in {"drain", "done"}
    PROVE  Format'
<1> DEFINE len == Len(wire)
<1>1. /\ len \in Nat /\ Len(wire') = len + 1 /\ wire' # <<>>
      /\ \A i \in 1 .. len : wire'[i] = wire[i]
      /\ wire'[len + 1] = msg
  BY SendFacts
<1>2. (cpc = "begin") <=> (len = 0)
  BY EmptySeq DEF Format, TypeOK
<1>3. \A i \in 1 .. len : wire[i] # "final"
  BY DEF Format, Finalised
<1>4. \A i \in 1 .. len : (wire[i] = "header") <=> (i = 1)
  BY DEF Format
<1> HIDE DEF len
<1>5. ASSUME NEW i \in 1 .. Len(wire')
      PROVE  /\ (wire'[i] = "header") <=> (i = 1)
             /\ wire'[i] = "final" => i = Len(wire')
  <2>1. CASE i \in 1 .. len
    BY <1>1, <1>3, <1>4, <2>1
  <2>2. CASE i = len + 1
    <3>1. wire'[i] = msg /\ i = Len(wire') /\ ((i = 1) <=> (len = 0))
      BY <1>1, <2>2
    <3> QED
      BY <1>2, <3>1
  <2> QED
    BY <1>1, <2>1, <2>2
<1>6. Finalised' <=> msg = "final"
  BY <1>1 DEF Finalised
<1> QED
  BY <1>1, <1>5, <1>6 DEF Format

(* A step that sends nothing keeps the format where it does not leave the  *)
(* drain loop for another.                                                 *)
LEMMA QuietFormat ==
    ASSUME Format, UNCHANGED wire,
           \/ cpc' = cpc
           \/ cpc' = "done"
           \/ /\ cpc \in {"poll", "read", "send", "final"}
              /\ cpc' \in {"poll", "read", "send", "final"}
    PROVE  Format'
BY DEF Format, Finalised

LEMMA SendPiped ==
    ASSUME TypeOK, Piped, NEW msg \in Msgs, Send(msg), UNCHANGED <<read, srv>>
    PROVE  Piped'
<1>1. Len(read) \in Nat /\ Len(inbox) \in Nat
  BY LenProperties DEF TypeOK
<1>2. /\ Len(wire) \in Nat /\ Len(up) \in Nat
      /\ Len(wire') = Len(wire) + 1 /\ Len(up') = Len(up) + 1
      /\ \A i \in 1 .. Len(wire) : wire'[i] = wire[i]
      /\ \A i \in 1 .. Len(up) : up'[i] = up[i]
      /\ wire'[Len(wire) + 1] = msg /\ up'[Len(up) + 1] = msg
      /\ inbox' = inbox
  BY SendFacts
<1>3. Len(read) <= Len(wire) /\ \A i \in 1 .. Len(read) : read[i] = wire[i]
  BY DEF Piped
<1>4. Len(read') <= Len(wire') /\ \A i \in 1 .. Len(read') : read'[i] = wire'[i]
  BY <1>1, <1>2, <1>3
<1>5. ASSUME srv = "open"
      PROVE  /\ Len(wire') = Len(read) + Len(inbox) + Len(up')
             /\ \A i \in 1 .. Len(inbox) : inbox[i] = wire'[Len(read) + i]
             /\ \A i \in 1 .. Len(up') : up'[i] = wire'[Len(read) + Len(inbox) + i]
  <2>1. /\ Len(wire) = Len(read) + Len(inbox) + Len(up)
        /\ \A i \in 1 .. Len(inbox) : inbox[i] = wire[Len(read) + i]
        /\ \A i \in 1 .. Len(up) : up[i] = wire[Len(read) + Len(inbox) + i]
    BY <1>5 DEF Piped
  <2>2. ASSUME NEW i \in 1 .. Len(inbox) PROVE inbox[i] = wire'[Len(read) + i]
    <3>1. Len(read) + i \in 1 .. Len(wire)
      BY <1>1, <1>2, <2>1
    <3> QED
      BY <1>2, <2>1, <3>1
  <2>3. ASSUME NEW i \in 1 .. Len(up')
        PROVE  up'[i] = wire'[Len(read) + Len(inbox) + i]
    <3>1. CASE i \in 1 .. Len(up)
      <4>1. Len(read) + Len(inbox) + i \in 1 .. Len(wire)
        BY <1>1, <1>2, <2>1, <3>1
      <4> QED
        BY <1>2, <2>1, <3>1, <4>1
    <3>2. CASE i = Len(up) + 1
      <4>1. Len(read) + Len(inbox) + i = Len(wire) + 1
        BY <1>1, <1>2, <2>1, <3>2
      <4> QED
        BY <1>2, <3>2, <4>1
    <3> QED
      BY <1>2, <3>1, <3>2
  <2> QED
    BY <1>1, <1>2, <2>1, <2>2, <2>3
<1> QED
  BY <1>2, <1>4, <1>5 DEF Piped

LEMMA QuietPiped ==
    ASSUME Piped, UNCHANGED <<wire, read, inbox, up, srv>>
    PROVE  Piped'
BY DEF Piped

-----------------------------------------------------------------------------
(* The client's steps *)

(* poll_close: a close it reports was received, an error was one. *)
LEMMA PollCloseFacts ==
    ASSUME TypeOK, NEW next, PollClose(next)
    PROVE  /\ rx' \in Nat /\ (rx = 0 => rx' = 0)
           /\ \/ cpc' = next /\ result' = result
              \/ cpc' = "done" /\ result' = "SERVER_CLOSED" /\ fin
              \/ cpc' = "done" /\ result' = "ERROR" /\ dead
<1>1. PICK r \in tr_recv :
        /\ rx' = IF r = "data" THEN rx - 1 ELSE rx
        /\ CASE r = "closed" -> Return("SERVER_CLOSED")
             [] r = "error" -> Return("ERROR")
             [] OTHER -> Goto(next)
  BY DEF PollClose
<1>2. rx \in Nat /\ (r = "data" => rx > 0) /\ (r = "closed" => fin)
      /\ (r = "error" => dead)
  BY DEF tr_recv, TypeOK
<1>3. rx' \in Nat /\ (rx = 0 => rx' = 0)
  BY <1>1, <1>2
<1>4. CASE r = "closed"
  BY <1>1, <1>2, <1>3, <1>4 DEF Return
<1>5. CASE r = "error"
  BY <1>1, <1>2, <1>3, <1>5 DEF Return
<1>6. CASE r \notin {"closed", "error"}
  BY <1>1, <1>3, <1>6 DEF Goto
<1> QED
  BY <1>4, <1>5, <1>6

(* What the client was told stays true when it goes on, or returns         *)
(* something that is true.                                                 *)
LEMMA ClientTold ==
    ASSUME TypeOK, Told, cpc # "done",
           UNCHANGED <<srv, cut, up, down, fin, dead, lost, wire>>,
           srv = "open" => rx' = 0,
           \/ cpc' # "done" /\ result' = result
           \/ cpc' = "done" /\ result' = "SERVER_CLOSED" /\ srv = "closed"
           \/ cpc' = "done" /\ result' = "SESSION_TIMEOUT" /\ (dead \/ Finalised)
           \/ cpc' = "done" /\ result' = "ERROR" /\ (dead \/ ~Finalised)
    PROVE  Told'
<1>1. Finalised' = Finalised /\ result = "NONE"
  BY DEF Finalised, Told
<1>2. /\ srv' = "open" =>
           cut' = "none" /\ down' = <<>> /\ rx' = 0 /\ ~fin' /\ (dead' => lost')
      /\ cut' = "complete" =>
           /\ srv' = "closed" /\ Finalised' /\ up' = <<>>
           /\ \A i \in 1 .. Len(down') : down'[i] # "RST"
           /\ dead' => lost'
  BY <1>1 DEF Told
<1>3. result' = "ERROR" /\ ~lost' /\ Finalised' =>
          srv' = "closed" /\ cut' # "complete"
  <2> SUFFICES ASSUME result' = "ERROR", ~lost, Finalised
               PROVE  srv = "closed" /\ cut # "complete"
    BY <1>1
  <2>1. dead
    BY <1>1
  <2> QED
    BY <2>1 DEF Told, TypeOK
<1> QED
  BY <1>1, <1>2, <1>3 DEF Told

(* Sending: the client is still running, so the server has not read the    *)
(* whole stream.                                                           *)
LEMMA SendTold ==
    ASSUME TypeOK, Format, Told, NEW msg \in Msgs, Send(msg),
           cpc \in {"begin", "poll", "send", "final"},
           UNCHANGED <<srv, cut>>,
           \/ cpc' # "done" /\ result' = result
           \/ cpc' = "done" /\ result' = "SESSION_TIMEOUT" /\ msg = "final"
    PROVE  Told'
<1>1. ~Finalised /\ cut # "complete" /\ result = "NONE"
  BY DEF Format, Told
<1>2. UNCHANGED <<inbox, down, rx, fin, dead, lost>>
  BY SendFacts
<1>3. msg = "final" => Finalised'
  BY SendFacts DEF Finalised
<1> QED
  BY <1>1, <1>2, <1>3 DEF Told

LEMMA BeginIInv == IInv /\ Begin => IInv'
<1> SUFFICES ASSUME IInv, Begin PROVE IInv'
  OBVIOUS
<1>0. /\ cpc = "begin" /\ UNCHANGED <<scratch_len, chunk, polls, n, mic, read, srv, cut>>
      /\ TypeOK /\ Format /\ Piped /\ Told
  BY DEF IInv, Begin, server
<1>1. CASE Send("header") /\ Goto("poll")
  <2>1. cpc' = "poll" /\ result' = result /\ "header" \in Msgs
    BY <1>1 DEF Goto, Msgs
  <2>2. Format' /\ Piped' /\ Told'
    BY <1>0, <1>1, <2>1, SendFormat, SendPiped, SendTold
  <2>3. TypeOK'
    <3>1. wire' \in Seq(Msgs) /\ up' \in Seq(Msgs)
          /\ UNCHANGED <<inbox, down, rx, fin, dead, lost>>
      BY <1>0, <1>1, <2>1, SendFacts
    <3> QED
      BY <1>0, <2>1, <3>1 DEF TypeOK
  <2>4. Counted'
    BY <1>0, <2>1 DEF IInv, Counted
  <2> QED
    BY <2>2, <2>3, <2>4 DEF IInv
<1>2. CASE Return("ERROR") /\ UNCHANGED <<wire, net>>
  <2>1. /\ cpc' = "done" /\ result' = "ERROR"
        /\ UNCHANGED <<wire, up, inbox, down, rx, fin, dead, lost>>
    BY <1>2 DEF Return, net
  <2>2. Format' /\ Piped'
    BY <1>0, <2>1, QuietFormat, QuietPiped
  <2>3. ~Finalised /\ (srv = "open" => rx' = 0)
    BY <1>0, <2>1 DEF Format, Told
  <2>4. Told'
    BY <1>0, <2>1, <2>3, ClientTold
  <2>5. TypeOK' /\ Counted'
    BY <1>0, <2>1 DEF TypeOK, Counted
  <2> QED
    BY <2>2, <2>4, <2>5 DEF IInv
<1> QED
  BY <1>1, <1>2 DEF Begin

LEMMA PollIInv == IInv /\ Poll => IInv'
<1> SUFFICES ASSUME IInv, Poll PROVE IInv'
  OBVIOUS
<1>0. /\ cpc = "poll" /\ chunk < MaxChunks
      /\ UNCHANGED <<scratch_len, chunk, polls, n, mic, wire, read, srv, cut,
                     up, inbox, down, fin, dead, lost>>
      /\ TypeOK /\ Format /\ Piped /\ Counted /\ Told
  BY DEF IInv, Poll, server
<1>1. /\ rx' \in Nat /\ (rx = 0 => rx' = 0)
      /\ \/ cpc' = "read" /\ result' = result
         \/ cpc' = "done" /\ result' = "SERVER_CLOSED" /\ fin
         \/ cpc' = "done" /\ result' = "ERROR" /\ dead
  BY <1>0, PollCloseFacts DEF Poll
<1>2. Format' /\ Piped'
  BY <1>0, <1>1, QuietFormat, QuietPiped
<1>3. (srv = "open" => rx' = 0) /\ (fin => srv = "closed")
  BY <1>0, <1>1 DEF Told, TypeOK
<1>4. Told'
  BY <1>0, <1>1, <1>3, ClientTold
<1>5. TypeOK'
  BY <1>0, <1>1 DEF TypeOK
<1>6. Counted'
  BY <1>0, <1>1 DEF Counted
<1> QED
  BY <1>2, <1>4, <1>5, <1>6 DEF IInv

LEMMA DrainIInv == IInv /\ Drain => IInv'
<1> SUFFICES ASSUME IInv, Drain PROVE IInv'
  OBVIOUS
<1>0. /\ cpc = "drain"
      /\ UNCHANGED <<scratch_len, chunk, n, mic, wire, read, srv, cut,
                     up, inbox, down, fin, dead, lost>>
      /\ TypeOK /\ Format /\ Piped /\ Counted /\ Told
  BY DEF IInv, Drain, server
<1>1. /\ rx' \in Nat /\ (rx = 0 => rx' = 0) /\ polls' \in 0 .. MaxChunks
      /\ \/ cpc' = "drain" /\ result' = result
         \/ cpc' = "done" /\ result' = "SERVER_CLOSED" /\ fin
         \/ cpc' = "done" /\ result' = "ERROR" /\ dead
         \/ cpc' = "done" /\ result' = "SESSION_TIMEOUT"
  <2>1. polls \in 0 .. MaxChunks /\ MaxChunks \in Nat /\ rx \in Nat
    BY <1>0, ClientAssumption DEF TypeOK
  <2>2. CASE polls < MaxChunks
    <3>1. PollClose("drain") /\ polls' = polls + 1
      BY <2>2 DEF Drain
    <3>2. polls' \in 0 .. MaxChunks
      BY <2>1, <2>2, <3>1
    <3> QED
      BY <1>0, <3>1, <3>2, PollCloseFacts
  <2>3. CASE ~(polls < MaxChunks)
    BY <2>1, <2>3 DEF Drain, Return
  <2> QED
    BY <2>2, <2>3
<1>2. Format' /\ Piped'
  BY <1>0, <1>1, QuietFormat, QuietPiped
<1>3. (srv = "open" => rx' = 0) /\ (fin => srv = "closed") /\ Finalised
  BY <1>0, <1>1 DEF Told, TypeOK, Format
<1>4. Told'
  BY <1>0, <1>1, <1>3, ClientTold
<1>5. TypeOK'
  BY <1>0, <1>1 DEF TypeOK
<1>6. Counted'
  BY <1>0, <1>1 DEF Counted
<1> QED
  BY <1>2, <1>4, <1>5, <1>6 DEF IInv

LEMMA ExhaustedIInv == IInv /\ Exhausted => IInv'
<1> SUFFICES ASSUME IInv, Exhausted PROVE IInv'
  OBVIOUS
<1>0. /\ cpc = "poll" /\ cpc' = "done" /\ result' = "SESSION_TIMEOUT"
      /\ UNCHANGED <<scratch_len, chunk, polls, n, mic, read, srv, cut>>
      /\ TypeOK /\ Format /\ Piped /\ Told
  BY DEF IInv, Exhausted, server, Return
<1>1. Counted'
  BY <1>0 DEF Counted
<1>2. CASE Send("final")
  <2>1. "final" \in Msgs
    BY DEF Msgs
  <2>2. Format' /\ Piped' /\ Told'
    BY <1>0, <1>2, <2>1, SendFormat, SendPiped, SendTold
  <2>3. wire' \in Seq(Msgs) /\ up' \in Seq(Msgs)
        /\ UNCHANGED <<inbox, down, rx, fin, dead, lost>>
    BY <1>0, <1>2, <2>1, SendFacts
  <2>4. TypeOK'
    BY <1>0, <2>3 DEF TypeOK
  <2> QED
    BY <1>1, <2>2, <2>4 DEF IInv
<1>3. CASE dead /\ UNCHANGED <<wire, net>>
  <2>1. UNCHANGED <<wire, up, inbox, down, rx, fin, dead, lost>>
    BY <1>3 DEF net
  <2>2. Format' /\ Piped'
    BY <1>0, <2>1, QuietFormat, QuietPiped
  <2>3. srv = "open" => rx' = 0
    BY <1>0, <2>1 DEF Told
  <2>4. Told'
    BY <1>0, <1>3, <2>1, <2>3, ClientTold
  <2>5. TypeOK'
    BY <1>0, <2>1 DEF TypeOK
  <2> QED
    BY <1>1, <2>2, <2>4, <2>5 DEF IInv
<1> QED
  BY <1>2, <1>3 DEF Exhausted

LEMMA ReadFrameIInv ==
    ASSUME IInv, NEW loud \in BOOLEAN, NEW size \in FrameSizes, ReadFrame(loud, size)
    PROVE  IInv'
<1>0. /\ cpc = "read" /\ result' = result /\ cpc' \in {"final", "send"}
      /\ UNCHANGED <<scratch_len, chunk, polls, wire, read, srv, cut,
                     up, inbox, down, rx, fin, dead, lost>>
      /\ mic' = HeardFrame(loud)
      /\ n' \in FrameSizes \cup {0}
      /\ cpc' = "send" => ~StopsAt(mic')
      /\ TypeOK /\ Format /\ Piped /\ Counted /\ Told
  BY DEF IInv, ReadFrame, Goto, server, net
<1>1. mic \in [speech_seen : BOOLEAN, silence_run : Nat, total_frames : Nat,
               max_frames : FrameCaps]
  BY <1>0 DEF TypeOK
<1>2. mic' \in [speech_seen : BOOLEAN, silence_run : Nat, total_frames : Nat,
                max_frames : FrameCaps]
      /\ mic'.total_frames = mic.total_frames + 1
      /\ mic'.max_frames = mic.max_frames
  <2>1. (mic.speech_seen \/ loud) \in BOOLEAN
    OBVIOUS
  <2>2. (IF loud THEN 0 ELSE mic.silence_run + 1) \in Nat /\ mic.total_frames + 1 \in Nat
    BY <1>1
  <2> QED
    BY <1>0, <1>1, <2>1, <2>2 DEF HeardFrame
<1>3. mic.total_frames = chunk /\ chunk < MaxChunks
  BY <1>0 DEF Counted
<1>4. cpc' = "send" => mic'.total_frames < mic'.max_frames
  <2>1. mic'.max_frames \in Nat /\ mic'.total_frames \in Nat
    BY <1>2, ClientAssumption
  <2> QED
    BY <1>0, <2>1 DEF StopsAt
<1>5. Counted'
  BY <1>0, <1>2, <1>3, <1>4 DEF Counted
<1>6. TypeOK'
  BY <1>0, <1>2 DEF TypeOK
<1>7. Format' /\ Piped'
  BY <1>0, QuietFormat, QuietPiped
<1>8. srv = "open" => rx' = 0
  BY <1>0 DEF Told
<1>9. Told'
  BY <1>0, <1>8, ClientTold
<1> QED
  BY <1>5, <1>6, <1>7, <1>9 DEF IInv

LEMMA ReadFailsIInv == IInv /\ ReadFails => IInv'
<1> SUFFICES ASSUME IInv, ReadFails PROVE IInv'
  OBVIOUS
<1>0. /\ cpc = "read" /\ result' = result /\ cpc' = "final" /\ n' = 0
      /\ UNCHANGED <<scratch_len, chunk, polls, mic, wire, read, srv, cut,
                     up, inbox, down, rx, fin, dead, lost>>
      /\ TypeOK /\ Format /\ Piped /\ Counted /\ Told
  BY DEF IInv, ReadFails, Goto, server, net
<1>1. Format' /\ Piped'
  BY <1>0, QuietFormat, QuietPiped
<1>2. srv = "open" => rx' = 0
  BY <1>0 DEF Told
<1>3. Told'
  BY <1>0, <1>2, ClientTold
<1> QED
  BY <1>0, <1>1, <1>3 DEF IInv, TypeOK, Counted

(* A send that fails: nothing goes out, and no final chunk had. *)
LEMMA SendFailsIInv ==
    ASSUME IInv, cpc \in {"send", "final"}, Return("ERROR"),
           UNCHANGED <<scratch_len, chunk, polls, n, mic, wire, server, net>>
    PROVE  IInv'
<1>0. /\ cpc' = "done" /\ result' = "ERROR"
      /\ UNCHANGED <<wire, read, srv, cut, up, inbox, down, rx, fin, dead, lost>>
      /\ TypeOK /\ Format /\ Piped /\ Told
  BY DEF IInv, Return, server, net
<1>1. Format' /\ Piped'
  BY <1>0, QuietFormat, QuietPiped
<1>2. ~Finalised /\ (srv = "open" => rx' = 0)
  BY <1>0 DEF Told, Format
<1>3. Told'
  BY <1>0, <1>2, ClientTold
<1> QED
  BY <1>0, <1>1, <1>3 DEF IInv, TypeOK, Counted

LEMMA SendChunkIInv == IInv /\ SendChunk => IInv'
<1> SUFFICES ASSUME IInv, SendChunk PROVE IInv'
  OBVIOUS
<1>0. /\ cpc = "send"
      /\ UNCHANGED <<scratch_len, polls, n, mic, read, srv, cut>>
      /\ TypeOK /\ Format /\ Piped /\ Counted /\ Told
  BY DEF IInv, SendChunk, server
<1>1. CASE Send("chunk") /\ Goto("poll") /\ chunk' = chunk + 1
  <2>1. cpc' = "poll" /\ result' = result /\ "chunk" \in Msgs
    BY <1>1 DEF Goto, Msgs
  <2>2. Format' /\ Piped' /\ Told'
    BY <1>0, <1>1, <2>1, SendFormat, SendPiped, SendTold
  <2>3. wire' \in Seq(Msgs) /\ up' \in Seq(Msgs)
        /\ UNCHANGED <<inbox, down, rx, fin, dead, lost>>
    BY <1>0, <1>1, <2>1, SendFacts
  <2>4. chunk' \in 0 .. MaxChunks
    BY <1>0, <1>1, ClientAssumption DEF TypeOK, Counted
  <2>5. TypeOK'
    BY <1>0, <2>1, <2>3, <2>4 DEF TypeOK
  <2>6. Counted'
    BY <1>0, <1>1, <2>1 DEF Counted
  <2> QED
    BY <2>2, <2>5, <2>6 DEF IInv
<1>2. CASE Return("ERROR") /\ UNCHANGED <<chunk, wire, net>>
  BY <1>0, <1>2, SendFailsIInv DEF server
<1> QED
  BY <1>1, <1>2 DEF SendChunk

LEMMA SendFinalIInv == IInv /\ SendFinal => IInv'
<1> SUFFICES ASSUME IInv, SendFinal PROVE IInv'
  OBVIOUS
<1>0. /\ cpc = "final"
      /\ UNCHANGED <<scratch_len, chunk, polls, n, mic, read, srv, cut>>
      /\ TypeOK /\ Format /\ Piped /\ Told
  BY DEF IInv, SendFinal, server
<1>1. CASE Send("final") /\ Goto("drain")
  <2>1. cpc' = "drain" /\ result' = result /\ "final" \in Msgs
    BY <1>1 DEF Goto, Msgs
  <2>2. Format' /\ Piped' /\ Told'
    BY <1>0, <1>1, <2>1, SendFormat, SendPiped, SendTold
  <2>3. wire' \in Seq(Msgs) /\ up' \in Seq(Msgs)
        /\ UNCHANGED <<inbox, down, rx, fin, dead, lost>>
    BY <1>0, <1>1, <2>1, SendFacts
  <2>4. TypeOK'
    BY <1>0, <2>1, <2>3 DEF TypeOK
  <2>5. Counted'
    BY <2>1 DEF Counted
  <2> QED
    BY <2>2, <2>4, <2>5 DEF IInv
<1>2. CASE Return("ERROR") /\ UNCHANGED <<wire, net>>
  BY <1>0, <1>2, SendFailsIInv DEF server
<1> QED
  BY <1>1, <1>2 DEF SendFinal

-----------------------------------------------------------------------------
(* The server's steps, and the network's *)

(* None of them moves the client or changes what was sent. *)
LEMMA ClientStays ==
    ASSUME IInv, UNCHANGED <<client, scratch_len, wire>>
    PROVE  /\ Format' /\ Counted'
           /\ UNCHANGED <<cpc, chunk, polls, n, mic, result, wire, scratch_len>>
           /\ Finalised' = Finalised
BY DEF IInv, client, Format, Counted, Finalised

LEMMA SrvReadIInv == IInv /\ SrvRead => IInv'
<1> SUFFICES ASSUME IInv, SrvRead PROVE IInv'
  OBVIOUS
<1>0. /\ srv = "open" /\ inbox # <<>>
      /\ read' = Append(read, Head(inbox)) /\ inbox' = Tail(inbox)
      /\ UNCHANGED <<srv, cut, up, down, rx, fin, dead, lost>>
      /\ TypeOK /\ Piped /\ Told
  BY DEF IInv, SrvRead
<1>1. /\ Format' /\ Counted'
      /\ UNCHANGED <<cpc, chunk, polls, n, mic, result, wire, scratch_len>>
      /\ Finalised' = Finalised
  BY ClientStays DEF SrvRead
<1>2. /\ read \in Seq(Msgs) /\ inbox \in Seq(Msgs) /\ up \in Seq(Msgs)
      /\ Len(read) \in Nat /\ Len(inbox) \in Nat /\ Len(up) \in Nat
      /\ Len(wire) \in Nat
  BY <1>0, LenProperties DEF TypeOK
<1>3. /\ Tail(inbox) \in Seq(Msgs) /\ Head(inbox) \in Msgs
      /\ Len(inbox') = Len(inbox) - 1 /\ Len(inbox) > 0
      /\ \A i \in 1 .. Len(inbox') : inbox'[i] = inbox[i + 1]
      /\ Head(inbox) = inbox[1]
  BY <1>0, <1>2, HeadTailProperties, EmptySeq
<1>4. /\ read' \in Seq(Msgs) /\ Len(read') = Len(read) + 1
      /\ \A i \in 1 .. Len(read) : read'[i] = read[i]
      /\ read'[Len(read) + 1] = inbox[1]
  BY <1>0, <1>2, <1>3, AppendProperties
<1>5. Piped'
  <2>1. /\ Len(read) <= Len(wire)
        /\ \A i \in 1 .. Len(read) : read[i] = wire[i]
        /\ Len(wire) = Len(read) + Len(inbox) + Len(up)
        /\ \A i \in 1 .. Len(inbox) : inbox[i] = wire[Len(read) + i]
        /\ \A i \in 1 .. Len(up) : up[i] = wire[Len(read) + Len(inbox) + i]
    BY <1>0 DEF Piped
  <2>2. /\ Len(read') <= Len(wire)
        /\ Len(wire) = Len(read') + Len(inbox') + Len(up)
    BY <1>2, <1>3, <1>4, <2>1
  <2>3. ASSUME NEW i \in 1 .. Len(read') PROVE read'[i] = wire[i]
    <3>1. inbox[1] = wire[Len(read) + 1]
      BY <1>2, <1>3, <2>1
    <3> QED
      BY <1>2, <1>4, <2>1, <3>1
  <2>4. ASSUME NEW i \in 1 .. Len(inbox') PROVE inbox'[i] = wire[Len(read') + i]
    <3>1. i + 1 \in 1 .. Len(inbox) /\ Len(read') + i = Len(read) + (i + 1)
      BY <1>2, <1>3, <1>4
    <3> QED
      BY <1>3, <2>1, <3>1
  <2>5. ASSUME NEW i \in 1 .. Len(up)
        PROVE  up[i] = wire[Len(read') + Len(inbox') + i]
    <3>1. Len(read') + Len(inbox') + i = Len(read) + Len(inbox) + i
      BY <1>2, <1>3, <1>4
    <3> QED
      BY <2>1, <3>1
  <2> QED
    BY <1>0, <1>1, <2>2, <2>3, <2>4, <2>5 DEF Piped
<1>6. TypeOK'
  BY <1>0, <1>1, <1>3, <1>4 DEF TypeOK
<1>7. Told'
  BY <1>0, <1>1 DEF Told
<1> QED
  BY <1>1, <1>5, <1>6, <1>7 DEF IInv

(* A server that has read the final chunk has read everything. *)
LEMMA CompleteIsAll ==
    ASSUME IInv, srv = "open", read # <<>>, Last(read) = "final"
    PROVE  Finalised /\ up = <<>> /\ inbox = <<>>
<1>1. /\ read \in Seq(Msgs) /\ inbox \in Seq(Msgs) /\ up \in Seq(Msgs)
      /\ wire \in Seq(Msgs)
      /\ Len(read) \in Nat /\ Len(inbox) \in Nat /\ Len(up) \in Nat
      /\ Len(wire) \in Nat
  BY LenProperties DEF IInv, TypeOK
<1>2. Len(read) \in 1 .. Len(wire)
  BY <1>1, EmptySeq DEF IInv, Piped
<1>3. wire[Len(read)] = "final"
  BY <1>1, <1>2 DEF IInv, Piped, Last
<1>4. Len(read) = Len(wire)
  BY <1>2, <1>3 DEF IInv, Format
<1>5. Len(inbox) = 0 /\ Len(up) = 0
  BY <1>1, <1>4 DEF IInv, Piped
<1>6. wire # <<>>
  BY <1>2, EmptySeq
<1> QED
  BY <1>1, <1>3, <1>4, <1>5, <1>6, EmptySeq DEF Finalised

(* The answer is data. *)
LEMMA AnswerIsData == Answer \in Seq({"data"}) /\ <<>> \in Seq({"data"})
<1>1. Response \in Nat
  BY ClientAssumption
<1>2. Answer \in [1 .. Response -> {"data"}]
  BY DEF Answer
<1> QED
  BY <1>1, <1>2, SeqDef

LEMMA SrvCloseIInv ==
    ASSUME IInv, NEW answer \in Seq({"data"}), SrvClose(answer)
    PROVE  IInv'
<1>0. /\ srv = "open" /\ srv' = "closed" /\ cut' = ReadSoFar(answer)
      /\ UNCHANGED <<read, up, inbox, rx, fin, dead, lost>>
      /\ TypeOK /\ Piped /\ Told /\ down = <<>> /\ (dead => lost)
  BY DEF IInv, SrvClose, Told
<1>1. /\ Format' /\ Counted'
      /\ UNCHANGED <<cpc, chunk, polls, n, mic, result, wire, scratch_len>>
      /\ Finalised' = Finalised
  BY ClientStays DEF SrvClose
<1>2. Piped'
  BY <1>0, <1>1 DEF Piped
<1>3. \A s \in Seq({"data"}), last \in {"FIN", "RST"} :
          /\ (<<>> \o s) \o <<last>> \in Seq({"data", "FIN", "RST"})
          /\ last # "RST" => \A i \in 1 .. Len((<<>> \o s) \o <<last>>) :
                                ((<<>> \o s) \o <<last>>)[i] # "RST"
  <2> SUFFICES ASSUME NEW s \in Seq({"data"}), NEW last \in {"FIN", "RST"}
               PROVE  /\ (<<>> \o s) \o <<last>> \in Seq({"data", "FIN", "RST"})
                      /\ last # "RST" =>
                            \A i \in 1 .. Len((<<>> \o s) \o <<last>>) :
                                ((<<>> \o s) \o <<last>>)[i] # "RST"
    OBVIOUS
  <2>1. s \in Seq({"data", "FIN", "RST"}) /\ s \in Seq({"data", "FIN"})
    BY SeqMonotonic
  <2>2. <<>> \o s = s
    BY <2>1, ConcatEmptySeq
  <2>3. <<last>> \in Seq({"data", "FIN", "RST"})
        /\ (last # "RST" => <<last>> \in Seq({"data", "FIN"}))
    OBVIOUS
  <2>4. s \o <<last>> \in Seq({"data", "FIN", "RST"})
    BY <2>1, <2>3, ConcatProperties
  <2>5. last # "RST" => s \o <<last>> \in Seq({"data", "FIN"})
    BY <2>1, <2>3, ConcatProperties
  <2>6. last # "RST" => \A i \in 1 .. Len(s \o <<last>>) :
                            (s \o <<last>>)[i] # "RST"
    BY <2>5, ElementOfSeq
  <2> QED
    BY <2>2, <2>4, <2>6
<1>4. down' \in Seq({"data", "FIN", "RST"})
      /\ (inbox = <<>> => \A i \in 1 .. Len(down') : down'[i] # "RST")
  <2>1. CASE inbox = <<>>
    <3>1. down' = (<<>> \o answer) \o <<"FIN">>
      BY <1>0, <2>1 DEF SrvClose
    <3> QED
      BY <1>3, <3>1
  <2>2. CASE inbox # <<>>
    <3>1. PICK sent \in {answer, <<>>} : down' = (<<>> \o sent) \o <<"RST">>
      BY <1>0, <2>2 DEF SrvClose
    <3>2. sent \in Seq({"data"})
      BY AnswerIsData
    <3> QED
      BY <1>3, <2>2, <3>1, <3>2
  <2> QED
    BY <2>1, <2>2
<1>5. cut' \in {"complete", "midstream", "behind"}
      /\ (cut' = "complete" => read # <<>> /\ Last(read) = "final")
  BY <1>0 DEF ReadSoFar
<1>6. TypeOK'
  BY <1>0, <1>1, <1>4, <1>5 DEF TypeOK
<1>7. cut' = "complete" =>
          /\ Finalised' /\ up' = <<>>
          /\ \A i \in 1 .. Len(down') : down'[i] # "RST"
          /\ dead' => lost'
  BY <1>0, <1>1, <1>4, <1>5, CompleteIsAll
<1>8. result = "ERROR" /\ ~lost => ~Finalised
  BY <1>0 DEF Told
<1>9. Told'
  BY <1>0, <1>1, <1>7, <1>8 DEF Told
<1> QED
  BY <1>1, <1>2, <1>6, <1>9 DEF IInv

LEMMA DeliverUpIInv == IInv /\ DeliverUp => IInv'
<1> SUFFICES ASSUME IInv, DeliverUp PROVE IInv'
  OBVIOUS
<1>0. /\ up # <<>> /\ up' = Tail(up)
      /\ UNCHANGED <<read, srv, cut, rx, fin, dead, lost>>
      /\ TypeOK /\ Piped /\ Told /\ cut # "complete"
  BY DEF IInv, DeliverUp, server, Told
<1>1. /\ Format' /\ Counted'
      /\ UNCHANGED <<cpc, chunk, polls, n, mic, result, wire, scratch_len>>
      /\ Finalised' = Finalised
  BY ClientStays DEF DeliverUp
<1>2. /\ read \in Seq(Msgs) /\ inbox \in Seq(Msgs) /\ up \in Seq(Msgs)
      /\ down \in Seq({"data", "FIN", "RST"})
      /\ Len(read) \in Nat /\ Len(inbox) \in Nat /\ Len(up) \in Nat
      /\ Len(wire) \in Nat
  BY <1>0, LenProperties DEF TypeOK
<1>3. /\ Tail(up) \in Seq(Msgs) /\ Head(up) \in Msgs
      /\ Len(up') = Len(up) - 1 /\ Len(up) > 0
      /\ \A i \in 1 .. Len(up') : up'[i] = up[i + 1]
      /\ Head(up) = up[1]
  BY <1>0, <1>2, HeadTailProperties, EmptySeq
<1>4. CASE srv = "open"
  <2>0. inbox' = Append(inbox, Head(up)) /\ down' = down
    BY <1>4 DEF DeliverUp
  <2>1. /\ inbox' \in Seq(Msgs) /\ Len(inbox') = Len(inbox) + 1
        /\ \A i \in 1 .. Len(inbox) : inbox'[i] = inbox[i]
        /\ inbox'[Len(inbox) + 1] = up[1]
    BY <1>2, <1>3, <2>0, AppendProperties
  <2>2. /\ Len(wire) = Len(read) + Len(inbox) + Len(up)
        /\ \A i \in 1 .. Len(inbox) : inbox[i] = wire[Len(read) + i]
        /\ \A i \in 1 .. Len(up) : up[i] = wire[Len(read) + Len(inbox) + i]
    BY <1>0, <1>4 DEF Piped
  <2>3. Len(wire) = Len(read) + Len(inbox') + Len(up')
    BY <1>2, <1>3, <2>1, <2>2
  <2>4. ASSUME NEW i \in 1 .. Len(inbox') PROVE inbox'[i] = wire[Len(read) + i]
    <3>1. CASE i \in 1 .. Len(inbox)
      BY <2>1, <2>2, <3>1
    <3>2. CASE i = Len(inbox) + 1
      <4>1. 1 \in 1 .. Len(up) /\ Len(read) + i = Len(read) + Len(inbox) + 1
        BY <1>2, <1>3, <3>2
      <4>2. up[1] = wire[Len(read) + Len(inbox) + 1]
        BY <2>2, <4>1
      <4> QED
        BY <2>1, <3>2, <4>1, <4>2
    <3> QED
      BY <1>2, <2>1, <3>1, <3>2
  <2>5. ASSUME NEW i \in 1 .. Len(up')
        PROVE  up'[i] = wire[Len(read) + Len(inbox') + i]
    <3>1. /\ i + 1 \in 1 .. Len(up)
          /\ Len(read) + Len(inbox') + i = Len(read) + Len(inbox) + (i + 1)
      BY <1>2, <1>3, <2>1
    <3> QED
      BY <1>3, <2>2, <3>1
  <2>6. Piped'
    BY <1>0, <1>1, <2>3, <2>4, <2>5 DEF Piped
  <2>7. TypeOK'
    BY <1>0, <1>1, <1>3, <2>0, <2>1 DEF TypeOK
  <2>8. Told'
    BY <1>0, <1>1, <2>0 DEF Told
  <2> QED
    BY <1>1, <2>6, <2>7, <2>8 DEF IInv
<1>5. CASE srv = "closed"
  <2>0. down' = Append(down, "RST") /\ inbox' = inbox
    BY <1>5 DEF DeliverUp
  <2>1. down' \in Seq({"data", "FIN", "RST"})
    BY <1>2, <2>0, AppendProperties
  <2>2. Piped'
    BY <1>0, <1>1, <1>5 DEF Piped
  <2>3. TypeOK'
    BY <1>0, <1>1, <1>3, <2>0, <2>1 DEF TypeOK
  <2>4. Told'
    BY <1>0, <1>1, <1>5 DEF Told
  <2> QED
    BY <1>1, <2>2, <2>3, <2>4 DEF IInv
<1> QED
  BY <1>0, <1>4, <1>5 DEF TypeOK

LEMMA DeliverDownIInv == IInv /\ DeliverDown => IInv'
<1> SUFFICES ASSUME IInv, DeliverDown PROVE IInv'
  OBVIOUS
<1>0. /\ down # <<>> /\ down' = Tail(down)
      /\ UNCHANGED <<read, srv, cut, up, inbox, lost>>
      /\ TypeOK /\ Piped /\ Told /\ srv = "closed"
  BY DEF IInv, DeliverDown, server, Told, TypeOK
<1>1. /\ Format' /\ Counted'
      /\ UNCHANGED <<cpc, chunk, polls, n, mic, result, wire, scratch_len>>
      /\ Finalised' = Finalised
  BY ClientStays DEF DeliverDown
<1>2. down \in Seq({"data", "FIN", "RST"}) /\ rx \in Nat
      /\ fin \in BOOLEAN /\ dead \in BOOLEAN
  BY <1>0 DEF TypeOK
<1>3. /\ down' \in Seq({"data", "FIN", "RST"})
      /\ Head(down) \in {"data", "FIN", "RST"} /\ Head(down) = down[1]
      /\ 1 \in 1 .. Len(down)
      /\ \A i \in 1 .. Len(down') : down'[i] = down[i + 1] /\ i + 1 \in 1 .. Len(down)
  <2>1. Len(down) \in Nat \ {0} /\ Len(down') = Len(down) - 1
    BY <1>0, <1>2, EmptySeq, HeadTailProperties
  <2> QED
    BY <1>0, <1>2, <2>1, HeadTailProperties
<1>4. /\ rx' \in Nat /\ fin' \in BOOLEAN /\ dead' \in BOOLEAN
      /\ dead => dead'
      /\ Head(down) # "RST" => dead' = dead
  <2>1. CASE Head(down) = "data"
    BY <1>2, <2>1 DEF DeliverDown
  <2>2. CASE Head(down) = "FIN"
    BY <1>2, <2>2 DEF DeliverDown
  <2>3. CASE Head(down) = "RST"
    <3>1. dead' = TRUE /\ rx' \in {rx} \cup {k \in {0} : ~KindStack} /\ fin' = fin
      BY <2>3 DEF DeliverDown
    <3>2. rx' \in Nat
      BY <1>2, <3>1
    <3>3. dead' \in BOOLEAN /\ (dead => dead')
      BY <3>1
    <3> QED
      BY <1>2, <2>3, <3>1, <3>2, <3>3
  <2> QED
    BY <1>3, <2>1, <2>2, <2>3
<1>5. Piped'
  BY <1>0, <1>1, QuietPiped
<1>6. TypeOK'
  BY <1>0, <1>1, <1>3, <1>4 DEF TypeOK
<1>7. cut' = "complete" =>
          /\ srv' = "closed" /\ Finalised' /\ up' = <<>>
          /\ \A i \in 1 .. Len(down') : down'[i] # "RST"
          /\ dead' => lost'
  BY <1>0, <1>1, <1>3, <1>4 DEF Told
<1>8. Told'
  BY <1>0, <1>1, <1>4, <1>7 DEF Told
<1> QED
  BY <1>1, <1>5, <1>6, <1>8 DEF IInv

LEMMA LinkLostIInv == IInv /\ LinkLost => IInv'
<1> SUFFICES ASSUME IInv, LinkLost PROVE IInv'
  OBVIOUS
<1>0. /\ lost' = TRUE /\ dead' = TRUE
      /\ UNCHANGED <<read, srv, cut, up, inbox, down, rx, fin>>
      /\ TypeOK /\ Piped /\ Told
  BY DEF IInv, LinkLost, server
<1>1. /\ Format' /\ Counted'
      /\ UNCHANGED <<cpc, chunk, polls, n, mic, result, wire, scratch_len>>
      /\ Finalised' = Finalised
  BY ClientStays DEF LinkLost
<1>2. Piped' /\ TypeOK'
  BY <1>0, <1>1, QuietPiped DEF TypeOK
<1>3. Told'
  BY <1>0, <1>1 DEF Told
<1> QED
  BY <1>1, <1>2, <1>3 DEF IInv

-----------------------------------------------------------------------------
LEMMA InitIInv == Init => IInv
<1> SUFFICES ASSUME Init PROVE IInv
  OBVIOUS
<1>0. /\ <<>> \in Seq(Msgs) /\ <<>> \in Seq({"data", "FIN", "RST"})
      /\ Len(<<>>) = 0 /\ 0 \in 0 .. MaxChunks
  BY EmptySeq, ClientAssumption
<1>1. mic \in [speech_seen : BOOLEAN, silence_run : Nat, total_frames : Nat,
               max_frames : FrameCaps]
      /\ mic.total_frames = 0
  BY DEF Init
<1>2. TypeOK
  BY <1>0, <1>1 DEF Init, TypeOK
<1>3. Format /\ Piped /\ Told
  BY <1>0 DEF Init, Format, Piped, Told, Finalised
<1>4. Counted
  BY <1>1 DEF Init, Counted
<1> QED
  BY <1>2, <1>3, <1>4 DEF IInv

LEMMA NextIInv == IInv /\ [Next]_vars => IInv'
<1> SUFFICES ASSUME IInv, [Next]_vars PROVE IInv'
  OBVIOUS
<1>1. CASE Begin \/ Poll \/ Exhausted
  BY <1>1, BeginIInv, PollIInv, ExhaustedIInv
<1>2. ASSUME NEW loud \in BOOLEAN, NEW size \in FrameSizes, ReadFrame(loud, size)
      PROVE  IInv'
  BY <1>2, ReadFrameIInv
<1>3. CASE ReadFails \/ SendChunk \/ SendFinal \/ Drain
  BY <1>3, ReadFailsIInv, SendChunkIInv, SendFinalIInv, DrainIInv
<1>4. CASE SrvRead
  BY <1>4, SrvReadIInv
<1>5. CASE SrvCut \/ SrvDrop
  BY <1>5, AnswerIsData, SrvCloseIInv DEF SrvCut, SrvDrop
<1>6. CASE DeliverUp \/ DeliverDown \/ LinkLost
  BY <1>6, DeliverUpIInv, DeliverDownIInv, LinkLostIInv
<1>7. CASE Done \/ UNCHANGED vars
  <2>1. UNCHANGED vars
    BY <1>7 DEF Done
  <2> QED
    BY <2>1 DEF vars, IInv, TypeOK, Format, Piped, Counted, Told, Finalised
<1> QED
  BY <1>1, <1>2, <1>3, <1>4, <1>5, <1>6, <1>7 DEF Next, Client

LEMMA SpecIInv == Spec => []IInv
BY InitIInv, NextIInv, PTL DEF Spec

(* stream_client.c:35-99, net_socket.c: whatever the server and the        *)
(* network do, what the server reads is the beginning of one well-formed   *)
(* request: the header, chunks, at most one final chunk and nothing more.  *)
THEOREM WellFormedOnWire == Spec => []WireFormat
<1>1. ASSUME IInv PROVE WireFormat
  <2>1. /\ read \in Seq(Msgs) /\ wire \in Seq(Msgs)
        /\ Len(read) \in Nat /\ Len(wire) \in Nat /\ Len(read) <= Len(wire)
        /\ \A i \in 1 .. Len(read) : read[i] = wire[i]
    BY <1>1, LenProperties DEF IInv, TypeOK, Piped
  <2>2. \A i \in 1 .. Len(read) : read[i] \in Msgs /\ wire[i] \in Msgs
    BY <2>1, ElementOfSeq
  <2>3. SubSeq(read, 1, Len(read)) = SubSeq(wire, 1, Len(read))
    <3> DEFINE r == SubSeq(read, 1, Len(read))
               w == SubSeq(wire, 1, Len(read))
    <3>1. r \in Seq(Msgs) /\ Len(r) = Len(read)
          /\ \A i \in 1 .. Len(read) : r[i] = read[i]
      BY <2>1, <2>2, SubSeqFull
    <3>2. w \in Seq(Msgs) /\ Len(w) = Len(read)
          /\ \A i \in 1 .. Len(read) : w[i] = wire[i]
      BY <2>1, <2>2, SubSeqProperties
    <3> HIDE DEF r, w
    <3>3. r = w
      BY <2>1, <3>1, <3>2, SeqEqual
    <3> QED
      BY <3>3 DEF r, w
  <2>4. IsPrefix(read, wire)
    BY <2>1, <2>3 DEF IsPrefix
  <2> QED
    BY <1>1, <2>4 DEF IInv, Format, WireFormat
<1> QED
  BY <1>1, SpecIInv, PTL

(* mic_i2s.c:163-170, app_main.c:122: for every cap that does not exceed   *)
(* the budget, the budget is never what ends a session.                    *)
THEOREM CapEndsFirst == Spec => []CapBeforeBudget
<1>1. ASSUME IInv PROVE CapBeforeBudget
  <2>0. mic.max_frames \in FrameCaps /\ chunk \in 0 .. MaxChunks
    BY <1>1 DEF IInv, TypeOK
  <2>1. chunk \in Nat /\ MaxChunks \in Nat /\ mic.max_frames \in Nat
    <3>1. MaxChunks \in Nat /\ \A cap \in FrameCaps : cap \in Nat
      BY ClientAssumption
    <3>2. chunk \in Nat
      BY <2>0, <3>1
    <3>3. mic.max_frames \in Nat
      BY <2>0, <3>1, Zenon
    <3> QED
      BY <3>1, <3>2, <3>3
  <2>2. cpc = "poll" => chunk = 0 \/ chunk < mic.max_frames
    BY <1>1 DEF IInv, Counted
  <2> QED
    BY <2>1, <2>2 DEF CapBeforeBudget
<1> QED
  BY <1>1, SpecIInv, PTL

(* stream_client.c:20-33, 58-84: the event the client returns is true of   *)
(* the connection, and stays true.                                         *)
THEOREM ReportsTruth == Spec => []ResultTrue
<1>1. IInv => ResultTrue
  BY DEF IInv, Told, Finalised, ResultTrue, Last
<1> QED
  BY <1>1, SpecIInv, PTL

(* stream_client.c:68-84: a cut by a server that has read the whole stream *)
(* is never reported as an error, on any stack.                            *)
THEOREM CleanCutReported == Spec => []CleanCutNoError
<1>1. IInv => CleanCutNoError
  BY DEF IInv, Told, CleanCutNoError
<1> QED
  BY <1>1, SpecIInv, PTL

=============================================================================
