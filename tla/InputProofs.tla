---------------------------- MODULE InputProofs ----------------------------
(***************************************************************************)
(* Proofs about what the server makes of what it receives.                 *)
(*                                                                         *)
(* SttSegmenter: for both backends, every ring of two slots or more, every *)
(* hang that is no shorter than a span, and any number of samples and      *)
(* sessions.                                                               *)
(*                                                                         *)
(* HttpIngest: for every stream, every way to cut it into buffers and      *)
(* every size of the parser's arrays; and for every session of a device    *)
(* whose lines fit into them.                                              *)
(***************************************************************************)
EXTENDS SttSegmenter, IngestWire, SequenceTheorems, WellFoundedInduction, TLAPS

-----------------------------------------------------------------------------
(* The recogniser *)

(* stt_stub.c:7: the next slot, without the remainder. *)
LEMMA SlotCases ==
    ASSUME NEW h \in Slots
    PROVE  /\ NextSlot(h) = IF h + 1 = MaxPending THEN 0 ELSE h + 1
           /\ NextSlot(h) \in Slots
           /\ NextSlot(h) # h
<1>1. NextSlot(h) = IF h + 1 = MaxPending THEN 0 ELSE h + 1
  BY SegmenterAssumption, SMT DEF NextSlot, Slots
<1> QED
  BY <1>1, SegmenterAssumption, SMT DEF Slots

(* The number of transcripts waiting, when it is none or one. *)
LEMMA Distance ==
    ASSUME NEW h \in Slots
    PROVE  /\ (h - h) % MaxPending = 0
           /\ (NextSlot(h) - h) % MaxPending = 1
           /\ (h + 1 - 1) % MaxPending = h
<1>1. NextSlot(h) = IF h + 1 = MaxPending THEN 0 ELSE h + 1
  BY SlotCases
<1>2. /\ (h - h) % MaxPending = 0
      /\ (h + 1 - 1) % MaxPending = h
  BY SegmenterAssumption, SMT DEF Slots
<1>3. (NextSlot(h) - h) % MaxPending = 1
  <2>1. CASE h + 1 = MaxPending
    <3>1. NextSlot(h) - h = 1 - MaxPending
      BY <1>1, <2>1, SMT DEF Slots
    <3>2. (1 - MaxPending) % MaxPending = 1
      BY SegmenterAssumption, SMT
    <3> QED
      BY <3>1, <3>2
  <2>2. CASE h + 1 # MaxPending
    <3>1. NextSlot(h) - h = 1
      BY <1>1, <2>2, SegmenterAssumption, SMT DEF Slots
    <3>2. 1 % MaxPending = 1
      BY SegmenterAssumption, SMT
    <3> QED
      BY <3>1, <3>2
  <2> QED
    BY <2>1, <2>2
<1> QED
  BY <1>2, <1>3

-----------------------------------------------------------------------------
(* The inductive invariant *)

(* At most one transcript waits, and it is the last one made. *)
OneWaits ==
    \/ ring.pend_head = ring.pend_tail /\ polled = due
    \/ /\ ring.pend_tail = NextSlot(ring.pend_head)
       /\ due = Append(polled, ring.pending[ring.pend_head])

(* Between spans nothing waits; while a transcript waits the rest of the   *)
(* span is too short to bring the silence up to the hang again.            *)
RoomForNext ==
    /\ phase = "idle" => ring.pend_head = ring.pend_tail
    /\ phase = "feed" /\ ring.pend_head # ring.pend_tail =>
            run.silence_run + left < HangSamples

(* Audio that is still counted belongs to the session being served. *)
OwnAudio == run.speech_run # 0 \/ acc.acc_len # 0 => origin = session

IInv == TypeOK /\ OneWaits /\ RoomForNext /\ OwnAudio /\ NoCrossTalk /\ AccInBounds

(* A ring in which at most one transcript waits delivers each one once. *)
LEMMA OneWaitsDelivers == TypeOK /\ OneWaits => EachTranscriptOnce
<1> SUFFICES ASSUME TypeOK, OneWaits PROVE EachTranscriptOnce
  OBVIOUS
<1> DEFINE h == ring.pend_head
           t == ring.pend_tail
           k == (t - h) % MaxPending
<1>1. h \in Slots /\ t \in Slots /\ polled \in Seq(Entries)
  BY DEF TypeOK
<1>2. CASE h = t /\ polled = due
  <2>1. k = 0
    BY <1>1, <1>2, Distance
  <2>2. Waiting = << >>
    <3>1. 1 .. k = {}
      BY <2>1, SMT
    <3> QED
      BY <3>1, SMT DEF Waiting
  <2> QED
    BY <1>1, <1>2, <2>2, ConcatEmptySeq DEF EachTranscriptOnce
<1>3. CASE t = NextSlot(h) /\ due = Append(polled, ring.pending[h])
  <2>1. k = 1 /\ (h + 1 - 1) % MaxPending = h
    BY <1>1, <1>3, Distance
  <2>2. Waiting = <<ring.pending[h]>>
    <3>1. Waiting = [i \in 1 .. 1 |-> ring.pending[(h + i - 1) % MaxPending]]
      BY <2>1 DEF Waiting
    <3> QED
      BY <2>1, <3>1, SMT
  <2>3. ring.pending[h] \in Entries
    BY <1>1 DEF TypeOK
  <2> QED
    BY <1>1, <1>3, <2>2, <2>3, AppendIsConcat DEF EachTranscriptOnce
<1> QED
  BY <1>2, <1>3 DEF OneWaits

-----------------------------------------------------------------------------
(* The parts of a step *)

LEMMA InitIInv == Init => IInv
<1> SUFFICES ASSUME Init PROVE IInv
  OBVIOUS
<1> USE SegmenterAssumption
<1>1. TypeOK
  <2>1. 0 \in Slots
    BY SMT DEF Slots
  <2>2. /\ ring \in [pending : [Slots -> Entries], pend_head : Slots, pend_tail : Slots]
        /\ run \in [in_speech : BOOLEAN, speech_run : Nat, silence_run : Nat]
    BY <2>1, SMT DEF Init, Idle, Nothing, Entries
  <2>3. due \in Seq(Entries) /\ polled \in Seq(Entries)
    BY EmptySeq DEF Init
  <2> QED
    BY <2>2, <2>3, SMT DEF Init, TypeOK
<1>2. OneWaits /\ RoomForNext
  BY DEF Init, OneWaits, RoomForNext
<1>3. OwnAudio
  BY DEF Init, OwnAudio
<1>4. NoCrossTalk
  BY EmptySeq, SMT DEF Init, NoCrossTalk
<1>5. AccInBounds
  BY SMT DEF Init, AccInBounds
<1> QED
  BY <1>1, <1>2, <1>3, <1>4, <1>5 DEF IInv

(* stt_whisper.c:97-115: one more sample fits, or is left out. *)
LEMMA PushedInBounds ==
    ASSUME acc \in [acc_len : Nat, acc_cap : Nat], AccInBounds, NEW realloc \in BOOLEAN
    PROVE  /\ Pushed(realloc) \in [acc_len : Nat, acc_cap : Nat]
           /\ Pushed(realloc).acc_len <= Pushed(realloc).acc_cap
           /\ Pushed(realloc).acc_cap <= AccMax
<1> USE SegmenterAssumption
<1>1. Grown \in Nat /\ Grown <= AccMax /\ (acc.acc_cap < AccMax => acc.acc_cap < Grown)
  BY SMT DEF Grown, AccInBounds
<1>2. /\ acc_push(realloc) \in [acc_len : Nat, acc_cap : Nat]
      /\ acc_push(realloc).acc_len <= acc_push(realloc).acc_cap
      /\ acc_push(realloc).acc_cap <= AccMax
  <2>1. CASE acc.acc_len >= AccMax
    BY <2>1, SMT DEF acc_push, AccInBounds
  <2>2. CASE ~(acc.acc_len >= AccMax) /\ acc.acc_len = acc.acc_cap
    <3> DEFINE grown == [acc_len |-> acc.acc_len + 1, acc_cap |-> Grown]
    <3>1. acc_push(realloc) = grown \/ acc_push(realloc) = acc
      BY <2>2, Zenon DEF acc_push
    <3>2. /\ grown \in [acc_len : Nat, acc_cap : Nat]
          /\ grown.acc_len <= grown.acc_cap
          /\ grown.acc_cap <= AccMax
      BY <1>1, <2>2, SMT
    <3> QED
      BY <3>1, <3>2, SMT DEF AccInBounds
  <2>3. CASE ~(acc.acc_len >= AccMax) /\ acc.acc_len # acc.acc_cap
    <3>1. acc_push(realloc) = [acc EXCEPT !.acc_len = @ + 1]
      BY <2>3 DEF acc_push
    <3> QED
      BY <2>3, <3>1, SMT DEF AccInBounds
  <2> QED
    BY <2>1, <2>2, <2>3
<1> QED
  BY <1>2, SMT DEF Pushed, AccInBounds

(* The session of the audio that counts is the one being served. *)
LEMMA OriginIsSession == TypeOK /\ OwnAudio => OriginNow = session
BY SMT DEF TypeOK, OwnAudio, OriginNow

-----------------------------------------------------------------------------
(* One lemma per action *)

LEMMA SessionInitIInv == IInv /\ SessionInit => IInv'
<1> SUFFICES ASSUME IInv, SessionInit PROVE IInv'
  OBVIOUS
<1> USE SegmenterAssumption
<1>0. TypeOK /\ AccInBounds
  BY DEF IInv
<1>1. /\ run' = Idle /\ acc' = [acc EXCEPT !.acc_len = 0]
      /\ ring' = [ring EXCEPT !.pend_head = 0, !.pend_tail = 0]
      /\ due' = << >> /\ polled' = << >> /\ session' = session + 1 /\ session < MaxSessions
      /\ total' = 0 /\ next_script' = 0
      /\ UNCHANGED <<backend, phase, left, origin>>
  BY DEF SessionInit
<1>2. TypeOK'
  <2>1. 0 \in Slots
    BY SMT DEF Slots
  <2>2. /\ ring' \in [pending : [Slots -> Entries], pend_head : Slots, pend_tail : Slots]
        /\ acc' \in [acc_len : Nat, acc_cap : Nat]
        /\ run' \in [in_speech : BOOLEAN, speech_run : Nat, silence_run : Nat]
    <3>1. ring \in [pending : [Slots -> Entries], pend_head : Slots, pend_tail : Slots]
          /\ acc \in [acc_len : Nat, acc_cap : Nat]
      BY <1>0 DEF TypeOK
    <3>2. ring' \in [pending : [Slots -> Entries], pend_head : Slots, pend_tail : Slots]
      BY <1>1, <2>1, <3>1
    <3>3. acc' \in [acc_len : Nat, acc_cap : Nat]
      BY <1>1, <3>1, SMT
    <3>4. run' \in [in_speech : BOOLEAN, speech_run : Nat, silence_run : Nat]
      BY <1>1, SMT DEF Idle
    <3> QED
      BY <3>2, <3>3, <3>4
  <2>3. due' \in Seq(Entries) /\ polled' \in Seq(Entries)
    BY <1>1, EmptySeq
  <2>4. session' \in 1 .. MaxSessions /\ total' \in Nat /\ next_script' \in Nat
    <3>1. session \in 1 .. MaxSessions
      BY <1>0 DEF TypeOK
    <3> QED
      BY <1>1, <3>1, SMT
  <2> QED
    BY <1>0, <1>1, <2>2, <2>3, <2>4 DEF TypeOK
<1>3. ring'.pend_head = ring'.pend_tail /\ acc'.acc_len = 0 /\ acc'.acc_cap = acc.acc_cap
  BY <1>0, <1>1, SMT DEF TypeOK
<1>4. OneWaits' /\ RoomForNext'
  BY <1>1, <1>3 DEF OneWaits, RoomForNext
<1>5. OwnAudio'
  BY <1>1, <1>3 DEF OwnAudio, Idle
<1>6. NoCrossTalk'
  BY <1>1, EmptySeq, SMT DEF NoCrossTalk
<1>7. AccInBounds'
  BY <1>0, <1>3, SMT DEF AccInBounds, TypeOK
<1> QED
  BY <1>2, <1>4, <1>5, <1>6, <1>7 DEF IInv

LEMMA OnPcmIInv ==
    ASSUME IInv, NEW k \in 0 .. SpanMax, OnPcm(k)
    PROVE  IInv'
<1>1. TypeOK'
  BY SegmenterAssumption, SMT DEF IInv, OnPcm, TypeOK
<1>2. OneWaits' /\ RoomForNext'
  BY DEF IInv, OnPcm, OneWaits, RoomForNext
<1>3. OwnAudio' /\ NoCrossTalk' /\ AccInBounds'
  BY DEF IInv, OnPcm, OwnAudio, NoCrossTalk, AccInBounds
<1> QED
  BY <1>1, <1>2, <1>3 DEF IInv

LEMMA FeedSampleIInv ==
    ASSUME IInv, NEW loud \in BOOLEAN, NEW realloc \in BOOLEAN, FeedSample(loud, realloc)
    PROVE  IInv'
<1> USE SegmenterAssumption
<1>0. TypeOK /\ OneWaits /\ RoomForNext /\ OwnAudio /\ NoCrossTalk /\ AccInBounds
  BY DEF IInv
<1>1. /\ phase = "feed" /\ left > 0 /\ left' = left - 1 /\ total' = total + 1
      /\ run' = Heard(loud) /\ acc' = Pushed(realloc) /\ origin' = session
      /\ UNCHANGED <<backend, phase, session, polled, ring, next_script, due>>
  BY <1>0, OriginIsSession DEF FeedSample, Consume
<1>2. /\ acc' \in [acc_len : Nat, acc_cap : Nat]
      /\ AccInBounds'
  BY <1>0, <1>1, PushedInBounds DEF TypeOK, AccInBounds
<1>3. /\ run' \in [in_speech : BOOLEAN, speech_run : Nat, silence_run : Nat]
      /\ run'.silence_run <= run.silence_run + 1
  <2>1. run \in [in_speech : BOOLEAN, speech_run : Nat, silence_run : Nat]
    BY <1>0 DEF TypeOK
  <2>2. CASE loud
    <3>1. run' = [in_speech |-> TRUE, speech_run |-> run.speech_run + 1, silence_run |-> 0]
      BY <1>1, <2>2 DEF Heard
    <3> QED
      BY <2>1, <3>1, SMT
  <2>3. CASE ~loud
    <3>1. run' = [run EXCEPT !.silence_run = @ + 1] \/ run' = run
      BY <1>1, <2>3, Zenon DEF Heard
    <3> QED
      BY <2>1, <3>1, SMT
  <2> QED
    BY <2>2, <2>3
<1>4. TypeOK'
  BY <1>0, <1>1, <1>2, <1>3, SMT DEF TypeOK
<1>5. OneWaits'
  BY <1>0, <1>1 DEF OneWaits
<1>6. RoomForNext'
  <2>1. run.silence_run \in Nat /\ left \in Nat /\ run'.silence_run \in Nat
    BY <1>0, <1>3, SMT DEF TypeOK
  <2> QED
    BY <1>0, <1>1, <1>3, <2>1, SMT DEF RoomForNext
<1>7. OwnAudio' /\ NoCrossTalk'
  BY <1>0, <1>1 DEF OwnAudio, NoCrossTalk
<1> QED
  BY <1>2, <1>4, <1>5, <1>6, <1>7 DEF IInv

(* A span that ends a second utterance would be longer than the hang, so   *)
(* an utterance always ends with an empty ring.                            *)
LEMMA EndUtteranceIInv ==
    ASSUME IInv, NEW recognised \in BOOLEAN, NEW realloc \in BOOLEAN,
           EndUtterance(recognised, realloc)
    PROVE  IInv'
<1> USE SegmenterAssumption
<1> DEFINE h == ring.pend_head
           a == Pushed(realloc)
           entry == [text |-> Len(due) + 1, origin |-> session]
<1>0. TypeOK /\ OneWaits /\ RoomForNext /\ OwnAudio /\ NoCrossTalk /\ AccInBounds
  BY DEF IInv
<1>1. /\ phase = "feed" /\ left > 0 /\ left' = left - 1 /\ total' = total + 1
      /\ run' = Idle /\ acc' = [a EXCEPT !.acc_len = 0] /\ origin' = session
      /\ UNCHANGED <<backend, phase, session, polled>>
  BY DEF EndUtterance, Consume
<1>2. \/ /\ ring' = push_pending(entry) /\ due' = Append(due, entry)
         /\ next_script' \in {next_script, next_script + 1}
      \/ UNCHANGED <<ring, due, next_script>>
  <2>1. OriginNow = session
    BY <1>0, OriginIsSession
  <2> QED
    BY <2>1, Zenon DEF EndUtterance
<1>3. h = ring.pend_tail /\ polled = due
  <2>1. run.silence_run + 1 >= HangSamples
    BY DEF EndUtterance, Ends
  <2>2. run.silence_run \in Nat /\ left \in Nat
    BY <1>0, SMT DEF TypeOK
  <2>3. h = ring.pend_tail
    BY <1>0, <1>1, <2>1, <2>2, SMT DEF RoomForNext
  <2>4. h \in Slots
    BY <1>0 DEF TypeOK
  <2> QED
    BY <1>0, <2>3, <2>4, SlotCases DEF OneWaits
<1>4. entry \in Entries
  <2>1. Len(due) \in Nat /\ session \in Nat
    BY <1>0, LenProperties, SMT DEF TypeOK
  <2> QED
    BY <2>1, SMT DEF Entries
<1>5. /\ ring' \in [pending : [Slots -> Entries], pend_head : Slots, pend_tail : Slots]
      /\ OneWaits'
  <2>1. /\ ring \in [pending : [Slots -> Entries], pend_head : Slots, pend_tail : Slots]
        /\ h \in Slots
    BY <1>0 DEF TypeOK
  <2>2. CASE ring' = push_pending(entry) /\ due' = Append(due, entry)
    <3>1. NextSlot(h) \in Slots /\ NextSlot(h) # h
      BY <2>1, SlotCases
    <3>2. ring' = [ring EXCEPT !.pending[h] = entry, !.pend_tail = NextSlot(h)]
      BY <1>3, <2>2, <3>1 DEF push_pending, Full
    <3>3. /\ ring' \in [pending : [Slots -> Entries], pend_head : Slots, pend_tail : Slots]
          /\ ring'.pend_head = h /\ ring'.pend_tail = NextSlot(h)
          /\ ring'.pending[h] = entry
      BY <1>4, <2>1, <3>1, <3>2
    <3>4. due' = Append(polled', ring'.pending[ring'.pend_head])
      BY <1>1, <1>3, <2>2, <3>3
    <3>5. ring'.pend_tail = NextSlot(ring'.pend_head)
      BY <3>3
    <3> QED
      BY <3>3, <3>4, <3>5 DEF OneWaits, NextSlot
  <2>3. CASE UNCHANGED <<ring, due>>
    BY <1>0, <1>1, <2>1, <2>3 DEF OneWaits, NextSlot
  <2> QED
    BY <1>2, <2>2, <2>3
<1>6. /\ acc' \in [acc_len : Nat, acc_cap : Nat] /\ acc'.acc_len = 0
      /\ AccInBounds'
  <2>1. a \in [acc_len : Nat, acc_cap : Nat] /\ a.acc_cap <= AccMax
    BY <1>0, PushedInBounds DEF TypeOK
  <2> HIDE DEF a
  <2> QED
    BY <1>1, <2>1, SMT DEF AccInBounds
<1>7. due' \in Seq(Entries) /\ NoCrossTalk'
  <2>1. due \in Seq(Entries)
    BY <1>0 DEF TypeOK
  <2>2. CASE due' = Append(due, entry)
    <3> HIDE DEF entry
    <3>1. /\ due' \in Seq(Entries)
          /\ Len(due') = Len(due) + 1 /\ Len(due) \in Nat
          /\ \A i \in 1 .. Len(due) : due'[i] = due[i]
          /\ due'[Len(due) + 1] = entry
      BY <1>4, <2>1, <2>2, AppendProperties, LenProperties
    <3>2. entry.origin = session
      BY DEF entry
    <3>3. \A i \in 1 .. Len(due') : due'[i].origin = session
      <4> TAKE i \in 1 .. Len(due')
      <4>1. i \in 1 .. Len(due) \/ i = Len(due) + 1
        BY <3>1, SMT
      <4> QED
        BY <1>0, <3>1, <3>2, <4>1 DEF NoCrossTalk
    <3> QED
      BY <1>1, <3>1, <3>3 DEF NoCrossTalk
  <2>3. CASE due' = due
    BY <1>0, <1>1, <2>1, <2>3 DEF NoCrossTalk
  <2> QED
    BY <1>2, <2>2, <2>3
<1>8. TypeOK'
  <2>1. run' \in [in_speech : BOOLEAN, speech_run : Nat, silence_run : Nat]
    BY <1>1, SMT DEF Idle
  <2>2. next_script' \in Nat
    BY <1>0, <1>2, SMT DEF TypeOK
  <2>3. left' \in 0 .. SpanMax /\ total' \in Nat /\ origin' \in Nat
    <3>1. left \in 0 .. SpanMax /\ total \in Nat /\ session \in 1 .. MaxSessions
      BY <1>0 DEF TypeOK
    <3> QED
      BY <1>1, <3>1, SMT
  <2> QED
    BY <1>0, <1>1, <1>5, <1>6, <1>7, <2>1, <2>2, <2>3 DEF TypeOK
<1>9. RoomForNext'
  <2>1. run'.silence_run = 0
    BY <1>1 DEF Idle
  <2>2. left \in 0 .. SpanMax
    BY <1>0 DEF TypeOK
  <2>3. run'.silence_run + left' < HangSamples /\ phase' = "feed"
    BY <1>1, <2>1, <2>2, SMT
  <2> QED
    BY <2>3 DEF RoomForNext
<1>10. OwnAudio'
  BY <1>1, <1>6 DEF OwnAudio
<1> QED
  BY <1>5, <1>6, <1>7, <1>8, <1>9, <1>10 DEF IInv

LEMMA PollIInv == IInv /\ Poll => IInv'
<1> SUFFICES ASSUME IInv, Poll PROVE IInv'
  OBVIOUS
<1> DEFINE h == ring.pend_head
<1>0. TypeOK /\ OneWaits /\ OwnAudio /\ NoCrossTalk /\ AccInBounds
  BY DEF IInv
<1>1. /\ phase = "drain" /\ h # ring.pend_tail
      /\ polled' = Append(polled, ring.pending[h])
      /\ ring' = [ring EXCEPT !.pend_head = NextSlot(h)]
      /\ UNCHANGED <<backend, phase, session, left, total, run, acc, next_script, origin, due>>
  BY DEF Poll
<1>2. /\ ring \in [pending : [Slots -> Entries], pend_head : Slots, pend_tail : Slots]
      /\ h \in Slots /\ ring.pending[h] \in Entries /\ polled \in Seq(Entries)
  BY <1>0 DEF TypeOK
<1>3. NextSlot(h) \in Slots
  BY <1>2, SlotCases
<1>4. /\ ring' \in [pending : [Slots -> Entries], pend_head : Slots, pend_tail : Slots]
      /\ ring'.pend_head = NextSlot(h) /\ ring'.pend_tail = ring.pend_tail
  BY <1>1, <1>2, <1>3
<1>5. polled' \in Seq(Entries)
  BY <1>1, <1>2, AppendProperties
<1>6. TypeOK'
  BY <1>0, <1>1, <1>4, <1>5 DEF TypeOK
<1>7. OneWaits' /\ RoomForNext'
  BY <1>0, <1>1, <1>4 DEF OneWaits, RoomForNext
<1>8. OwnAudio' /\ NoCrossTalk' /\ AccInBounds'
  BY <1>0, <1>1 DEF OwnAudio, NoCrossTalk, AccInBounds
<1> QED
  BY <1>6, <1>7, <1>8 DEF IInv

LEMMA NextIInv == IInv /\ [Next]_vars => IInv'
<1> SUFFICES ASSUME IInv, [Next]_vars PROVE IInv'
  OBVIOUS
<1>1. CASE SpanFed \/ Drained
  <2>1. TypeOK'
    BY <1>1 DEF IInv, SpanFed, Drained, TypeOK
  <2>2. OneWaits' /\ RoomForNext'
    BY <1>1 DEF IInv, SpanFed, Drained, OneWaits, RoomForNext
  <2>3. OwnAudio' /\ NoCrossTalk' /\ AccInBounds'
    BY <1>1 DEF IInv, SpanFed, Drained, OwnAudio, NoCrossTalk, AccInBounds
  <2> QED
    BY <2>1, <2>2, <2>3 DEF IInv
<1>2. CASE Wait \/ UNCHANGED vars
  BY <1>2 DEF Wait, vars, IInv, TypeOK, OneWaits, RoomForNext, OwnAudio, NoCrossTalk,
     AccInBounds
<1> QED
  BY <1>1, <1>2, SessionInitIInv, OnPcmIInv, FeedSampleIInv, EndUtteranceIInv, PollIInv
     DEF Next

LEMMA Inductive == Spec => []IInv
BY InitIInv, NextIInv, PTL DEF Spec

-----------------------------------------------------------------------------
(* The variables hold values of the program's types, for every size. *)
THEOREM TypeCorrect == Spec => []TypeOK
<1>1. IInv => TypeOK
  BY DEF IInv
<1> QED
  BY <1>1, Inductive, PTL

(* stt_stub.c:5-28, 59-74: no transcript is dropped by the bounded ring,   *)
(* repeated or reordered, whatever the audio and however it is split.      *)
THEOREM TranscriptsDelivered == Spec => []EachTranscriptOnce
<1>1. IInv => EachTranscriptOnce
  BY OneWaitsDelivers DEF IInv
<1> QED
  BY <1>1, Inductive, PTL

(* stt_stub.c:30-38, stt_whisper.c:117-122: the backend's reset separates  *)
(* one session from the next, wherever the first one was broken off.       *)
THEOREM SessionsSeparate == Spec => []NoCrossTalk
<1>1. IInv => NoCrossTalk
  BY DEF IInv
<1> QED
  BY <1>1, Inductive, PTL

(* stt_whisper.c:97-115: the sample buffer is never written past its end,  *)
(* and never grows past max_samples.                                       *)
THEOREM SamplesInBounds == Spec => []AccInBounds
<1>1. IInv => AccInBounds
  BY DEF IInv
<1> QED
  BY <1>1, Inductive, PTL

-----------------------------------------------------------------------------
(* The parser: induction and recursion, with sets and functions for the predicates *)

(* The least element of a set of naturals. *)
LEMMA LeastElement ==
    ASSUME NEW T, T \subseteq Nat, T # {}
    PROVE  \E x \in T : \A y \in T : x <= y
<1> DEFINE R == OpToRel(<, Nat)
<1>1. \A x \in Nat, y \in Nat : y < x => <<y, x>> \in R
  BY DEF OpToRel
<1>2. IsWellFoundedOn(R, Nat)
  BY NatLessThanWellFounded
<1> HIDE DEF R
<1>3. PICK x \in T : \A y \in T : ~(<<y, x>> \in R)
  BY <1>2, WFMin, Zenon
<1>4. \A y \in T : ~(y < x) /\ y \in Nat /\ x \in Nat
  BY <1>1, <1>3
<1> QED
  BY <1>3, <1>4

(* Induction along a rank. *)
LEMMA RankInduction ==
    ASSUME NEW D, NEW r, \A i \in D : r[i] \in Nat, NEW T,
           \A i \in D : (\A j \in D : r[j] < r[i] => j \in T) => i \in T
    PROVE  \A i \in D : i \in T
<1> DEFINE C == {r[i] : i \in {j \in D : j \notin T}}
<1> SUFFICES ASSUME NEW k \in D, k \notin T PROVE FALSE
  OBVIOUS
<1>1. C \subseteq Nat /\ r[k] \in C
  OBVIOUS
<1>2. PICK x \in C : \A y \in C : x <= y
  BY <1>1, LeastElement
<1>3. PICK i \in D : i \notin T /\ x = r[i]
  BY <1>2
<1>4. ASSUME NEW j \in D, r[j] < r[i] PROVE j \in T
  <2> SUFFICES ASSUME j \notin T PROVE FALSE
    OBVIOUS
  <2>1. r[j] \in C
    OBVIOUS
  <2>2. r[i] <= r[j] /\ r[i] \in Nat /\ r[j] \in Nat
    BY <2>1, <1>2, <1>3
  <2> QED
    BY <2>2, <1>4
<1> QED
  BY <1>3, <1>4

(* Induction over the naturals. *)
LEMMA Induction ==
    ASSUME NEW T, 0 \in T, \A m \in Nat : m \in T => m + 1 \in T
    PROVE  \A m \in Nat : m \in T
<1> DEFINE r == [i \in Nat |-> i]
<1>1. ASSUME NEW i \in Nat, \A j \in Nat : r[j] < r[i] => j \in T PROVE i \in T
  <2>1. CASE i = 0
    BY <2>1
  <2>2. CASE i # 0
    <3>1. i - 1 \in Nat /\ i - 1 < i /\ (i - 1) + 1 = i
      BY <2>2
    <3> QED
      BY <3>1, <1>1
  <2> QED
    BY <2>1, <2>2
<1>2. \A i \in Nat : r[i] \in Nat
  OBVIOUS
<1> HIDE DEF r
<1> QED
  BY <1>1, <1>2, RankInduction

(* f[i] is b[i] on B, and elsewhere what st[i] makes of f at p[i], which has *)
(* a lower rank.                                                             *)
Recursive(D, r, n, V, B, b, p, st) ==
    /\ n \in Nat
    /\ \A i \in D : r[i] \in 0 .. n
    /\ V # {}
    /\ \A i \in D : i \in B => b[i] \in V
    /\ \A i \in D : i \notin B => p[i] \in D /\ r[p[i]] < r[i]
    /\ \A i \in D : i \notin B => \A v \in V : st[i][v] \in V

Solves(f, D, B, b, p, st) ==
    \A i \in D : f[i] = IF i \in B THEN b[i] ELSE st[i][f[p[i]]]

(* A recursive definition whose rank decreases has a solution. *)
LEMMA Recursion ==
    ASSUME NEW D, NEW r, NEW n, NEW V, NEW B, NEW b, NEW p, NEW st,
           Recursive(D, r, n, V, B, b, p, st)
    PROVE  \E f \in [D -> V] : Solves(f, D, B, b, p, st)
<1> USE DEF Recursive, Solves
<1> PICK v0 \in V : TRUE
  OBVIOUS
<1> DEFINE E(f, i) == IF i \in B THEN b[i] ELSE st[i][f[p[i]]]
           Good(f, m) == \A i \in D : r[i] < m => f[i] = E(f, i)
           T == {m \in Nat : \E f \in [D -> V] : Good(f, m)}
<1>1. 0 \in T
  <2>1. [i \in D |-> v0] \in [D -> V] /\ \A i \in D : ~(r[i] < 0)
    OBVIOUS
  <2> QED
    BY <2>1
<1>2. ASSUME NEW m \in Nat, m \in T PROVE m + 1 \in T
  <2>1. PICK f \in [D -> V] : Good(f, m)
    BY <1>2
  <2> HIDE DEF Good
  <2> DEFINE g == [i \in D |-> IF r[i] < m THEN f[i] ELSE E(f, i)]
  <2>2. \A i \in D : E(f, i) \in V
    OBVIOUS
  <2>3. g \in [D -> V]
    BY <2>2
  <2>4. ASSUME NEW i \in D, r[i] < m + 1 PROVE g[i] = E(g, i)
    <3>1. g[i] = E(f, i)
      BY <2>1 DEF Good
    <3>2. i \notin B => r[p[i]] < m /\ p[i] \in D
      BY <2>4
    <3>3. i \notin B => g[p[i]] = f[p[i]]
      BY <3>2
    <3> QED
      BY <3>1, <3>3
  <2>5. Good(g, m + 1)
    BY <2>4 DEF Good
  <2> QED
    BY <2>3, <2>5
<1> HIDE DEF T
<1>3. n + 1 \in T
  BY <1>1, <1>2, Induction
<1> USE DEF T
<1>4. PICK f \in [D -> V] : Good(f, n + 1)
  BY <1>3
<1>5. \A i \in D : r[i] < n + 1
  OBVIOUS
<1> QED
  BY <1>4, <1>5

-----------------------------------------------------------------------------
(* The model's operators *)

(* The least element of a set of positions. *)
LEMMA MinIs ==
    ASSUME NEW T, T \subseteq Nat, T # {}
    PROVE  Min(T) \in T /\ \A y \in T : Min(T) <= y
<1>1. \E x \in T : \A y \in T : x <= y
  BY LeastElement
<1> QED
  BY <1>1, Zenon DEF Min

(* strchr finds the first one. *)
LEMMA FindIs ==
    ASSUME NEW s, Len(s) \in Nat, NEW c
    PROVE  \/ Find(s, c) = 0 /\ \A i \in 1 .. Len(s) : s[i] # c
           \/ /\ Find(s, c) \in 1 .. Len(s)
              /\ s[Find(s, c)] = c
              /\ \A i \in 1 .. Find(s, c) - 1 : s[i] # c
<1> DEFINE I == {i \in 1 .. Len(s) : s[i] = c}
<1>1. Find(s, c) = IF I # {} THEN Min(I) ELSE 0
  BY DEF Find, SelectInSeq
<1>2. CASE I = {}
  BY <1>1, <1>2
<1>3. CASE I # {}
  <2>1. I \subseteq Nat
    OBVIOUS
  <2>2. Min(I) \in I /\ \A y \in I : Min(I) <= y
    BY <2>1, <1>3, MinIs
  <2> DEFINE m == Min(I)
  <2>3. Find(s, c) = m
    BY <1>1, <1>3
  <2>4. m \in I /\ \A y \in I : m <= y
    BY <2>2
  <2> HIDE DEF m
  <2>5. \A i \in 1 .. m - 1 : s[i] # c
    BY <2>4
  <2> QED
    BY <2>3, <2>4, <2>5
<1> QED
  BY <1>2, <1>3

(* The first LF at or after i, if there is one. *)
LEMMA LineEndIs ==
    ASSUME NEW s, Len(s) \in Nat, NEW i \in Nat \ {0}
    PROVE  \/ LineEnd(s, i) = 0 /\ \A k \in i .. Len(s) : s[k] # "LF"
           \/ /\ LineEnd(s, i) \in i .. Len(s)
              /\ s[LineEnd(s, i)] = "LF"
              /\ \A k \in i .. LineEnd(s, i) - 1 : s[k] # "LF"
<1> DEFINE I == {k \in i .. Len(s) : s[k] = "LF"}
<1>1. LineEnd(s, i) = IF I # {} THEN Min(I) ELSE 0
  BY DEF LineEnd, SelectInSubSeq
<1>2. CASE I = {}
  BY <1>1, <1>2
<1>3. CASE I # {}
  <2>1. I \subseteq Nat
    OBVIOUS
  <2>2. Min(I) \in I /\ \A y \in I : Min(I) <= y
    BY <2>1, <1>3, MinIs
  <2> DEFINE m == Min(I)
  <2>3. LineEnd(s, i) = m
    BY <1>1, <1>3
  <2>4. m \in I /\ \A y \in I : m <= y
    BY <2>2
  <2> HIDE DEF m
  <2>5. \A k \in i .. m - 1 : s[k] # "LF"
    BY <2>4
  <2> QED
    BY <2>3, <2>4, <2>5
<1> QED
  BY <1>2, <1>3

(* An LF with none in front of it is the one found. *)
LEMMA LineEndFound ==
    ASSUME NEW s, Len(s) \in Nat, NEW i \in Nat \ {0}, NEW j \in i .. Len(s),
           s[j] = "LF", \A k \in i .. j - 1 : s[k] # "LF"
    PROVE  LineEnd(s, i) = j
<1>1. LineEnd(s, i) # 0
  BY LineEndIs
<1>2. /\ LineEnd(s, i) \in i .. Len(s)
      /\ s[LineEnd(s, i)] = "LF"
      /\ \A k \in i .. LineEnd(s, i) - 1 : s[k] # "LF"
  BY <1>1, LineEndIs
<1> DEFINE m == LineEnd(s, i)
<1> HIDE DEF m
<1>3. m \in i .. Len(s) /\ s[m] = "LF" /\ \A k \in i .. m - 1 : s[k] # "LF"
  BY <1>2 DEF m
<1>4. ~(j < m) /\ ~(m < j)
  BY <1>3
<1> QED
  BY <1>3, <1>4 DEF m

(* Part of a sequence. *)
LEMMA SubSeqIs ==
    ASSUME NEW S, NEW s \in Seq(S), NEW m \in Nat \ {0}, NEW n \in Nat, n <= Len(s)
    PROVE  /\ SubSeq(s, m, n) \in Seq(S)
           /\ Len(SubSeq(s, m, n)) = IF m <= n THEN n - m + 1 ELSE 0
           /\ \A i \in 1 .. n - m + 1 : SubSeq(s, m, n)[i] = s[m + i - 1]
<1>1. \A i \in m .. n : i \in 1 .. Len(s)
  OBVIOUS
<1>2. \A i \in m .. n : s[i] \in S
  BY <1>1, ElementOfSeq
<1> QED
  BY <1>2, SubSeqProperties

(* The first k bytes, and what follows them. *)
LEMMA TakeIs ==
    ASSUME NEW S, NEW s \in Seq(S), NEW k \in Nat, k <= Len(s)
    PROVE  /\ Take(s, k) \in Seq(S)
           /\ Len(Take(s, k)) = k
           /\ \A i \in 1 .. k : Take(s, k)[i] = s[i]
<1>1. Least(k, Len(s)) = k
  BY DEF Least
<1>2. Take(s, k) = SubSeq(s, 1, k)
  BY <1>1 DEF Take
<1> QED
  BY <1>2, SubSeqIs

LEMMA TakeAtMost ==
    ASSUME NEW S, NEW s \in Seq(S), NEW k \in Nat
    PROVE  Take(s, k) \in Seq(S) /\ Len(Take(s, k)) <= k
<1>1. Len(s) \in Nat
  BY LenProperties
<1>2. Least(k, Len(s)) \in Nat /\ Least(k, Len(s)) <= Len(s) /\ Least(k, Len(s)) <= k
  BY <1>1 DEF Least
<1> DEFINE l == Least(k, Len(s))
<1> HIDE DEF l
<1>3. l \in Nat /\ l <= Len(s) /\ l <= k
  BY <1>2 DEF l
<1>4. SubSeq(s, 1, l) \in Seq(S) /\ Len(SubSeq(s, 1, l)) = IF 1 <= l THEN l - 1 + 1 ELSE 0
  BY <1>3, SubSeqIs
<1>5. Take(s, k) = SubSeq(s, 1, l)
  BY DEF Take, l
<1> QED
  BY <1>3, <1>4, <1>5

LEMMA DropIs ==
    ASSUME NEW S, NEW s \in Seq(S), NEW k \in Nat, k <= Len(s)
    PROVE  /\ Drop(s, k) \in Seq(S)
           /\ Len(Drop(s, k)) = Len(s) - k
           /\ \A i \in 1 .. Len(s) - k : Drop(s, k)[i] = s[k + i]
<1>1. Len(s) \in Nat /\ k + 1 \in Nat \ {0}
  BY LenProperties
<1>2. /\ SubSeq(s, k + 1, Len(s)) \in Seq(S)
      /\ Len(SubSeq(s, k + 1, Len(s))) = IF k + 1 <= Len(s) THEN Len(s) - (k + 1) + 1 ELSE 0
      /\ \A i \in 1 .. Len(s) - (k + 1) + 1 : SubSeq(s, k + 1, Len(s))[i] = s[k + 1 + i - 1]
  BY <1>1, SubSeqIs
<1>3. \A i \in 1 .. Len(s) - k : i \in 1 .. Len(s) - (k + 1) + 1 /\ k + 1 + i - 1 = k + i
  BY <1>1
<1> QED
  BY <1>1, <1>2, <1>3 DEF Drop

(* A remainder is in range. *)
LEMMA ModIs ==
    ASSUME NEW x \in Int, NEW m \in Nat \ {0}
    PROVE  x % m \in 0 .. m - 1
  OBVIOUS

(* Digits with a value each. *)
IsNumeral(digits, value) ==
    Len(digits) \in Nat /\ \A i \in 1 .. Len(digits) : value[digits[i]] \in Nat

(* The values of the prefixes of a numeral. *)
Values(v, digits, value, base, mod) ==
    /\ v \in [0 .. Len(digits) -> 0 .. mod - 1]
    /\ v[0] = 0
    /\ \A i \in 1 .. Len(digits) : v[i] = (v[i - 1] * base + value[digits[i]]) % mod

(* The number that digits denote. *)
LEMMA NumberIs ==
    ASSUME NEW digits, NEW value, IsNumeral(digits, value), NEW base \in Nat,
           NEW mod \in Nat \ {0}
    PROVE  /\ \E v : Values(v, digits, value, base, mod)
                      /\ Number(digits, value, base, mod) = v[Len(digits)]
           /\ Number(digits, value, base, mod) \in 0 .. mod - 1
<1> USE DEF IsNumeral
<1> DEFINE n == Len(digits)
           D == 0 .. n
           V == 0 .. mod - 1
           Eq(f) == f = [i \in D |-> IF i = 0 THEN 0
                                     ELSE (f[i - 1] * base + value[digits[i]]) % mod]
           g == CHOOSE f : Eq(f)
<1>1. \E f : Eq(f)
  <2> DEFINE r == [i \in D |-> i]
             b == [i \in D |-> 0]
             p == [i \in D |-> i - 1]
             st == [i \in D |-> [v \in V |-> (v * base + value[digits[i]]) % mod]]
             B == {0}
  <2>1. \A i \in D : r[i] \in 0 .. n
    OBVIOUS
  <2>2. V # {} /\ \A i \in D : i \in B => b[i] \in V
    OBVIOUS
  <2>3. \A i \in D : i \notin B => p[i] \in D /\ r[p[i]] < r[i]
    <3> TAKE i \in D
    <3> HAVE i \notin B
    <3>1. i - 1 \in D /\ i - 1 < i
      OBVIOUS
    <3> QED
      BY <3>1
  <2>4. \A i \in D : i \notin B => \A v \in V : st[i][v] \in V
    <3> SUFFICES ASSUME NEW i \in D, i \notin B, NEW v \in V PROVE st[i][v] \in V
      OBVIOUS
    <3>1. i \in 1 .. n
      OBVIOUS
    <3>2. v * base + value[digits[i]] \in Int
      BY <3>1
    <3>3. (v * base + value[digits[i]]) % mod \in V
      BY <3>2, ModIs
    <3> QED
      BY <3>3
  <2>5. n \in Nat
    OBVIOUS
  <2>6. \A i \in D : \A v \in V : st[i][v] = (v * base + value[digits[i]]) % mod
    OBVIOUS
  <2>7. \A i \in D : b[i] = 0 /\ p[i] = i - 1
    OBVIOUS
  <2> HIDE DEF r, b, p, st, B, D, V
  <2>10. Recursive(D, r, n, V, B, b, p, st)
    BY <2>1, <2>2, <2>3, <2>4, <2>5 DEF Recursive
  <2>8. PICK f \in [D -> V] : Solves(f, D, B, b, p, st)
    BY <2>10, Recursion, Zenon
  <2>9. ASSUME NEW i \in D
        PROVE  f[i] = IF i = 0 THEN 0 ELSE (f[i - 1] * base + value[digits[i]]) % mod
    <3>1. CASE i = 0
      BY <3>1, <2>7, <2>8 DEF B, Solves
    <3>2. CASE i # 0
      <4>1. i - 1 \in D /\ i \notin B
        BY <3>2 DEF D, B
      <4>2. f[i - 1] \in V
        BY <4>1
      <4> QED
        BY <4>1, <4>2, <3>2, <2>6, <2>7, <2>8 DEF Solves
    <3> QED
      BY <3>1, <3>2
  <2> QED
    BY <2>9
<1>2. Eq(g)
  BY <1>1, Zenon
<1>3. Number(digits, value, base, mod) = g[n]
  BY Zenon DEF Number
<1> HIDE DEF g
<1>4. /\ g[0] = 0
      /\ \A i \in 1 .. n : g[i] = (g[i - 1] * base + value[digits[i]]) % mod
  BY <1>2
<1> DEFINE T == {m \in Nat : m <= n => g[m] \in V}
<1>5. \A m \in Nat : m \in T
  <2>1. 0 \in T
    BY <1>4
  <2>2. ASSUME NEW m \in Nat, m \in T PROVE m + 1 \in T
    <3> SUFFICES ASSUME m + 1 <= n PROVE g[m + 1] \in V
      OBVIOUS
    <3>1. m + 1 \in 1 .. n /\ (m + 1) - 1 = m /\ m <= n
      OBVIOUS
    <3>2. g[m + 1] = (g[m] * base + value[digits[m + 1]]) % mod
      BY <3>1, <1>4
    <3>3. g[m] * base + value[digits[m + 1]] \in Int
      BY <3>1, <2>2
    <3> QED
      BY <3>2, <3>3, ModIs
  <2> HIDE DEF T
  <2> QED
    BY <2>1, <2>2, Induction
<1>6. g \in [D -> V]
  <2>1. \A i \in D : i \in T
    BY <1>5
  <2>2. \A i \in D : g[i] \in V
    BY <2>1
  <2> QED
    BY <2>2, <1>2
<1>7. Values(g, digits, value, base, mod)
  BY <1>4, <1>6 DEF Values
<1>8. g[n] \in V
  BY <1>6
<1> QED
  BY <1>3, <1>7, <1>8

(* The leading bytes of s that are in C: all of them, or up to the first other. *)
LEMMA LeadingIs ==
    ASSUME NEW S, NEW s \in Seq(S), NEW C
    PROVE  /\ Leading(s, C) \in Seq(S)
           /\ Len(Leading(s, C)) <= Len(s)
           /\ \A i \in 1 .. Len(Leading(s, C)) : Leading(s, C)[i] = s[i] /\ s[i] \in C
           /\ (\A i \in 1 .. Len(s) : s[i] \in C) => Leading(s, C) = s
<1> DEFINE I == {i \in 1 .. Len(s) : s[i] \notin C}
           k == SelectInSeq(s, LAMBDA b : b \notin C)
<1>1. k = IF I # {} THEN Min(I) ELSE 0
  BY DEF SelectInSeq
<1>2. Leading(s, C) = IF k = 0 THEN s ELSE Take(s, k - 1)
  BY DEF Leading
<1>3. Len(s) \in Nat
  BY LenProperties
<1> HIDE DEF k
<1>4. CASE I = {}
  BY <1>1, <1>2, <1>3, <1>4
<1>5. CASE I # {}
  <2>1. I \subseteq Nat
    OBVIOUS
  <2>2. k \in I /\ \A y \in I : k <= y
    BY <2>1, <1>1, <1>5, MinIs
  <2>3. k - 1 \in Nat /\ k - 1 <= Len(s) /\ k # 0 /\ \A i \in 1 .. k - 1 : s[i] \in C
    BY <2>2, <1>3
  <2>4. /\ Take(s, k - 1) \in Seq(S)
        /\ Len(Take(s, k - 1)) = k - 1
        /\ \A i \in 1 .. k - 1 : Take(s, k - 1)[i] = s[i]
    BY <2>3, TakeIs
  <2> QED
    BY <2>2, <2>3, <2>4, <1>2, <1>3
<1> QED
  BY <1>4, <1>5

(* What a digit is worth. *)
LEMMA DigitValues ==
    /\ \A c \in DOMAIN Decimal : Decimal[c] \in 0 .. 9
    /\ \A c \in DOMAIN Hex : Hex[c] \in 0 .. 15
<1> DEFINE TenDigits == {"0", "1", "2", "3", "4", "5", "6", "7", "8", "9"}
           Ten == <<"0", "1", "2", "3", "4", "5", "6", "7", "8", "9">>
           Six == <<"a", "b", "c", "d", "e", "f">>
<1>1. ASSUME NEW c \in TenDigits PROVE (CHOOSE v \in 0 .. 9 : c = Ten[v + 1]) \in 0 .. 9
  <2>1. \E v \in 0 .. 9 : c = Ten[v + 1]
    <3>1. /\ Ten[0 + 1] = "0" /\ Ten[1 + 1] = "1" /\ Ten[2 + 1] = "2" /\ Ten[3 + 1] = "3"
          /\ Ten[4 + 1] = "4" /\ Ten[5 + 1] = "5" /\ Ten[6 + 1] = "6" /\ Ten[7 + 1] = "7"
          /\ Ten[8 + 1] = "8" /\ Ten[9 + 1] = "9"
      OBVIOUS
    <3> HIDE DEF Ten
    <3> QED
      BY <3>1
  <2> HIDE DEF Ten
  <2> QED
    BY <2>1
<1>2. ASSUME NEW c \in {"a", "b", "c", "d", "e", "f"}
      PROVE  (CHOOSE v \in 10 .. 15 : c = Six[v - 9]) \in 10 .. 15
  <2>1. \E v \in 10 .. 15 : c = Six[v - 9]
    <3>1. /\ Six[10 - 9] = "a" /\ Six[11 - 9] = "b" /\ Six[12 - 9] = "c"
          /\ Six[13 - 9] = "d" /\ Six[14 - 9] = "e" /\ Six[15 - 9] = "f"
      OBVIOUS
    <3> HIDE DEF Six
    <3> QED
      BY <3>1
  <2> HIDE DEF Six
  <2> QED
    BY <2>1
<1>3. DOMAIN Decimal = TenDigits /\ \A c \in TenDigits : Decimal[c] \in 0 .. 9
  BY <1>1 DEF Decimal
<1>4. /\ DOMAIN Hex = DOMAIN Decimal \cup {"a", "b", "c", "d", "e", "f"}
      /\ \A c \in DOMAIN Hex : Hex[c] = IF c \in DOMAIN Decimal THEN Decimal[c]
                                        ELSE CHOOSE v \in 10 .. 15 : c = Six[v - 9]
  BY DEF Hex
<1> HIDE DEF Ten, Six, TenDigits
<1>5. ASSUME NEW c \in DOMAIN Hex PROVE Hex[c] \in 0 .. 15
  <2>1. CASE c \in DOMAIN Decimal
    BY <2>1, <1>3, <1>4
  <2>2. CASE c \notin DOMAIN Decimal
    <3>1. Hex[c] \in 10 .. 15
      BY <2>2, <1>2, <1>4
    <3> QED
      BY <3>1
  <2> QED
    BY <2>1, <2>2
<1> QED
  BY <1>3, <1>5

-----------------------------------------------------------------------------
(* What the reference parser computes *)

(* Numbers that were parsed are in range. *)
LEMMA ParsedInRange ==
    ASSUME NEW line \in Seq(Bytes)
    PROVE  parse_chunk_size(line) \in 0 .. SizeMod - 1 /\ parse_u32(line) \in 0 .. U32Mod - 1
<1> USE IngestAssumption
<1>1. Len(line) \in Nat
  BY LenProperties
<1>2. parse_u32(line) \in 0 .. U32Mod - 1
  <2> DEFINE l == Leading(line, DOMAIN Decimal)
  <2>1. l \in Seq(Bytes) /\ \A i \in 1 .. Len(l) : l[i] \in DOMAIN Decimal
    BY LeadingIs
  <2> HIDE DEF l
  <2>2. IsNumeral(l, Decimal)
    BY <2>1, DigitValues, LenProperties DEF IsNumeral
  <2>3. Number(l, Decimal, 10, U32Mod) \in 0 .. U32Mod - 1
    BY <2>2, NumberIs
  <2> QED
    BY <2>3 DEF parse_u32, l
<1>3. parse_chunk_size(line) \in 0 .. SizeMod - 1
  <2> DEFINE l == IF Find(line, ";") = 0 THEN line ELSE Take(line, Find(line, ";") - 1)
  <2>1. l \in Seq(Bytes)
    <3> DEFINE q == Find(line, ";")
    <3>1. q # 0 => q \in 1 .. Len(line)
      BY <1>1, FindIs
    <3> HIDE DEF q
    <3>2. q # 0 => q - 1 \in Nat /\ q - 1 <= Len(line)
      BY <3>1, <1>1
    <3>3. q # 0 => Take(line, q - 1) \in Seq(Bytes)
      BY <3>2, TakeIs
    <3> QED
      BY <3>3 DEF q
  <2>2. parse_chunk_size(line) = IF l = <<>> \/ Leading(l, DOMAIN Hex) # l THEN SizeMod - 1
                                 ELSE Number(l, Hex, 16, SizeMod)
    BY DEF parse_chunk_size
  <2> HIDE DEF l
  <2>3. CASE l = <<>> \/ Leading(l, DOMAIN Hex) # l
    BY <2>2, <2>3
  <2>4. CASE Leading(l, DOMAIN Hex) = l /\ l # <<>>
    <3>1. \A i \in 1 .. Len(l) : l[i] \in DOMAIN Hex
      BY <2>1, <2>4, LeadingIs
    <3>2. IsNumeral(l, Hex)
      BY <2>1, <3>1, DigitValues, LenProperties DEF IsNumeral
    <3>3. Number(l, Hex, 16, SizeMod) \in 0 .. SizeMod - 1
      BY <3>2, NumberIs
    <3> QED
      BY <3>3, <2>2, <2>4
  <2> QED
    BY <2>3, <2>4
<1> QED
  BY <1>2, <1>3

Verdicts == [verdict : {"error", "more", "complete"}, payload : Seq(Bytes)]

LEMMA VerdictTypes ==
    /\ \A v \in {"error", "more", "complete"}, p \in Seq(Bytes) : Verdict(v, p) \in Verdicts
    /\ \A p \in Seq(Bytes), v \in Verdicts : After(p, v) \in Verdicts
    /\ <<>> \in Seq(Bytes)
<1>1. <<>> \in Seq(Bytes)
  BY EmptySeq
<1>2. \A p, q \in Seq(Bytes) : p \o q \in Seq(Bytes)
  BY ConcatProperties
<1> QED
  BY <1>1, <1>2 DEF Verdict, After, Verdicts

(* A line of a stream is a sequence of bytes. *)
LEMMA LineAtType ==
    ASSUME NEW s \in Seq(Bytes), NEW i \in Nat \ {0}, LineEnd(s, i) # 0
    PROVE  LineAt(s, i) \in Seq(Bytes)
<1> DEFINE j == LineEnd(s, i)
           e == IF j > i /\ s[j - 1] = "CR" THEN j - 2 ELSE j - 1
<1>1. Len(s) \in Nat
  BY LenProperties
<1>2. j \in i .. Len(s)
  BY <1>1, LineEndIs
<1>3. e \in Nat /\ e <= Len(s)
  BY <1>1, <1>2
<1>4. LineAt(s, i) = SubSeq(s, i, e)
  BY DEF LineAt
<1> HIDE DEF e
<1> QED
  BY <1>3, <1>4, SubSeqIs

(* Where the chunk at i goes on: the data, and the position of the next    *)
(* chunk-size line, if it is reached.                                      *)
SizeAt(s, i) == parse_chunk_size(LineAt(s, i))
DataFrom(s, i) == LineEnd(s, i) + 1
CrlfFrom(s, i) == DataFrom(s, i) + SizeAt(s, i)
NextFrom(s, i) == LineEnd(s, CrlfFrom(s, i)) + 1
HasNext(s, i) ==
    /\ ~TooLong(s, i) /\ LineEnd(s, i) # 0
    /\ SizeAt(s, i) # SizeMod - 1 /\ SizeAt(s, i) # 0
    /\ ~(Len(s) < DataFrom(s, i) + SizeAt(s, i) - 1)
    /\ ~TooLong(s, CrlfFrom(s, i)) /\ LineEnd(s, CrlfFrom(s, i)) # 0
    /\ LineAt(s, CrlfFrom(s, i)) = <<>>

LEMMA BodyPositions ==
    ASSUME NEW s \in Seq(Bytes), NEW i \in 1 .. Len(s) + 1, LineEnd(s, i) # 0
    PROVE  /\ LineEnd(s, i) \in i .. Len(s)
           /\ SizeAt(s, i) \in 0 .. SizeMod - 1
           /\ DataFrom(s, i) \in 1 .. Len(s) + 1 /\ DataFrom(s, i) > i
           /\ CrlfFrom(s, i) \in Nat \ {0} /\ CrlfFrom(s, i) > i
           /\ HasNext(s, i) => NextFrom(s, i) \in 1 .. Len(s) + 1 /\ NextFrom(s, i) > i
<1> USE IngestAssumption
<1>1. Len(s) \in Nat
  BY LenProperties
<1>2. LineEnd(s, i) \in i .. Len(s)
  BY <1>1, LineEndIs
<1>3. SizeAt(s, i) \in 0 .. SizeMod - 1
  BY LineAtType, ParsedInRange DEF SizeAt
<1>4. DataFrom(s, i) \in 1 .. Len(s) + 1 /\ DataFrom(s, i) > i
  BY <1>1, <1>2 DEF DataFrom
<1>5. CrlfFrom(s, i) \in Nat \ {0} /\ CrlfFrom(s, i) > i
  BY <1>1, <1>3, <1>4 DEF CrlfFrom
<1>6. ASSUME HasNext(s, i) PROVE NextFrom(s, i) \in 1 .. Len(s) + 1 /\ NextFrom(s, i) > i
  <2>1. LineEnd(s, CrlfFrom(s, i)) # 0
    BY <1>6 DEF HasNext
  <2>2. LineEnd(s, CrlfFrom(s, i)) \in CrlfFrom(s, i) .. Len(s)
    BY <2>1, <1>1, <1>5, LineEndIs
  <2> QED
    BY <2>2, <1>1, <1>5 DEF NextFrom
<1> QED
  BY <1>2, <1>3, <1>4, <1>5, <1>6

(* Only a chunk that is complete needs what follows it. *)
LEMMA BodyAtIs ==
    ASSUME NEW s, NEW i, NEW f, NEW g
    PROVE  /\ HasNext(s, i) =>
                 BodyAt(s, i, f)
                    = After(SubSeq(s, DataFrom(s, i), DataFrom(s, i) + SizeAt(s, i) - 1),
                            f[NextFrom(s, i)])
           /\ ~HasNext(s, i) => BodyAt(s, i, f) = BodyAt(s, i, g)
  BY DEF HasNext, BodyAt, OfLine, DataAt, CrlfAt, After, DataFrom, CrlfFrom, SizeAt, NextFrom

LEMMA BodyAtType ==
    ASSUME NEW s \in Seq(Bytes), NEW i \in 1 .. Len(s) + 1, NEW f,
           HasNext(s, i) => f[NextFrom(s, i)] \in Verdicts
    PROVE  BodyAt(s, i, f) \in Verdicts
<1>1. Len(s) \in Nat
  BY LenProperties
<1>2. CASE HasNext(s, i)
  <2>1. LineEnd(s, i) # 0 /\ ~(Len(s) < DataFrom(s, i) + SizeAt(s, i) - 1)
    BY <1>2 DEF HasNext
  <2>2. /\ DataFrom(s, i) \in Nat \ {0}
        /\ DataFrom(s, i) + SizeAt(s, i) - 1 \in Nat
        /\ DataFrom(s, i) + SizeAt(s, i) - 1 <= Len(s)
    BY <2>1, <1>1, BodyPositions
  <2>3. SubSeq(s, DataFrom(s, i), DataFrom(s, i) + SizeAt(s, i) - 1) \in Seq(Bytes)
    BY <2>2, SubSeqIs
  <2> QED
    BY <2>3, <1>2, BodyAtIs, VerdictTypes
<1>3. CASE ~HasNext(s, i)
  <2> DEFINE E == Verdict("error", <<>>)
             M == Verdict("more", <<>>)
             C == Verdict("complete", <<>>)
             S == SizeAt(s, i)
             d == DataFrom(s, i)
             c == CrlfFrom(s, i)
  <2>1. E \in Verdicts /\ M \in Verdicts /\ C \in Verdicts
    BY VerdictTypes
  <2>2. CASE TooLong(s, i) \/ LineEnd(s, i) = 0 \/ S = SizeMod - 1
    BY <2>1, <2>2 DEF BodyAt, OfLine, SizeAt
  <2>3. CASE ~(TooLong(s, i) \/ LineEnd(s, i) = 0 \/ S = SizeMod - 1) /\ S = 0
    BY <2>1, <2>3 DEF BodyAt, OfLine, SizeAt, TrailerAt
  <2>4. CASE ~(TooLong(s, i) \/ LineEnd(s, i) = 0 \/ S = SizeMod - 1) /\ S # 0
    <3>1. BodyAt(s, i, f) = DataAt(s, d, S, f)
      BY <2>4 DEF BodyAt, OfLine, SizeAt, DataFrom
    <3>2. /\ d \in Nat \ {0} /\ S \in Nat /\ c = d + S
      BY <2>4, <1>1, BodyPositions DEF CrlfFrom
    <3>3. CASE Len(s) < d + S - 1
      <4>1. SubSeq(s, d, Len(s)) \in Seq(Bytes)
        BY <1>1, <3>2, SubSeqIs
      <4> QED
        BY <4>1, <3>1, <3>3, VerdictTypes DEF DataAt
    <3>4. CASE ~(Len(s) < d + S - 1)
      <4>1. SubSeq(s, d, d + S - 1) \in Seq(Bytes)
        <5>1. d + S - 1 \in Nat /\ d + S - 1 <= Len(s)
          BY <1>1, <3>2, <3>4
        <5> QED
          BY <5>1, <3>2, SubSeqIs
      <4>2. DataAt(s, d, S, f) = After(SubSeq(s, d, d + S - 1), CrlfAt(s, c, f))
        BY <3>2, <3>4 DEF DataAt
      <4>3. TooLong(s, c) \/ LineEnd(s, c) = 0 \/ LineAt(s, c) # <<>>
        BY <1>3, <2>4, <3>4 DEF HasNext
      <4>4. CrlfAt(s, c, f) \in Verdicts
        BY <4>3, <2>1 DEF CrlfAt, OfLine
      <4> QED
        BY <4>1, <4>2, <4>4, <3>1, VerdictTypes
    <3> QED
      BY <3>3, <3>4
  <2> QED
    BY <2>2, <2>3, <2>4
<1> QED
  BY <1>2, <1>3

(* The body of a stream satisfies its recursive definition. *)
LEMMA BodyIs ==
    ASSUME NEW s \in Seq(Bytes)
    PROVE  /\ Body(s) \in [1 .. Len(s) + 1 -> Verdicts]
           /\ \A i \in 1 .. Len(s) + 1 : Body(s)[i] = BodyAt(s, i, Body(s))
<1> DEFINE L == Len(s)
           D == 1 .. L + 1
           Eq(f) == f = [i \in D |-> BodyAt(s, i, f)]
           g == CHOOSE f : Eq(f)
           r == [i \in D |-> L + 1 - i]
<1>1. L \in Nat
  BY LenProperties
<1>2. Body(s) = g
  BY Zenon DEF Body
<1> HIDE DEF L
<1>3. \A i \in D : r[i] \in 0 .. L /\ r[i] \in Nat
  BY <1>1
<1>4. \A i \in D : HasNext(s, i) => NextFrom(s, i) \in D /\ r[NextFrom(s, i)] < r[i]
  <2> SUFFICES ASSUME NEW i \in D, HasNext(s, i)
               PROVE  NextFrom(s, i) \in D /\ r[NextFrom(s, i)] < r[i]
    OBVIOUS
  <2>1. NextFrom(s, i) \in D /\ NextFrom(s, i) > i
    BY BodyPositions DEF HasNext, L
  <2> QED
    BY <2>1, <1>1
<1>5. \E f : Eq(f)
  <2> DEFINE f0 == [i \in D |-> 0]
             B == {i \in D : ~HasNext(s, i)}
             b == [i \in D |-> BodyAt(s, i, f0)]
             p == [i \in D |-> NextFrom(s, i)]
             data(i) == SubSeq(s, DataFrom(s, i), DataFrom(s, i) + SizeAt(s, i) - 1)
             st == [i \in D |-> [v \in Verdicts |-> After(data(i), v)]]
  <2>1. \A i \in D : i \in B => b[i] \in Verdicts
    BY BodyAtType DEF L
  <2>2. \A i \in D : i \notin B => p[i] \in D /\ r[p[i]] < r[i]
    BY <1>4
  <2>3. \A i \in D : i \notin B => \A v \in Verdicts : st[i][v] \in Verdicts
    <3> SUFFICES ASSUME NEW i \in D, HasNext(s, i), NEW v \in Verdicts
                 PROVE  After(data(i), v) \in Verdicts
      OBVIOUS
    <3> DEFINE h == [k \in D |-> v]
    <3>1. h[NextFrom(s, i)] = v
      BY <1>4
    <3> HIDE DEF h
    <3>2. BodyAt(s, i, h) \in Verdicts
      BY <3>1, BodyAtType DEF L
    <3> QED
      BY <3>1, <3>2, BodyAtIs
  <2>4. Verdicts # {}
    BY VerdictTypes
  <2>5. \A i \in D : b[i] = BodyAt(s, i, f0) /\ p[i] = NextFrom(s, i)
                     /\ \A v \in Verdicts : st[i][v] = After(data(i), v)
    OBVIOUS
  <2>6. \A i \in D : i \in B <=> ~HasNext(s, i)
    OBVIOUS
  <2> HIDE DEF D, B, b, p, st, r, f0
  <2>7. Recursive(D, r, L, Verdicts, B, b, p, st)
    BY <1>1, <1>3, <2>1, <2>2, <2>3, <2>4 DEF Recursive
  <2>8. PICK f \in [D -> Verdicts] : Solves(f, D, B, b, p, st)
    BY <2>7, Recursion, Zenon
  <2>9. ASSUME NEW i \in D PROVE f[i] = BodyAt(s, i, f)
    <3>1. CASE HasNext(s, i)
      <4>1. f[i] = st[i][f[NextFrom(s, i)]]
        BY <3>1, <2>5, <2>6, <2>8 DEF Solves
      <4>2. f[NextFrom(s, i)] \in Verdicts
        BY <3>1, <1>4
      <4>3. f[i] = After(data(i), f[NextFrom(s, i)])
        BY <4>1, <4>2, <2>5
      <4> QED
        BY <4>3, <3>1, BodyAtIs
    <3>2. CASE ~HasNext(s, i)
      <4>1. f[i] = BodyAt(s, i, f0)
        BY <3>2, <2>5, <2>6, <2>8 DEF Solves
      <4> QED
        BY <4>1, <3>2, BodyAtIs
    <3> QED
      BY <3>1, <3>2
  <2> QED
    BY <2>9
<1>6. Eq(g)
  BY <1>5, Zenon
<1> HIDE DEF g
<1>7. \A i \in D : g[i] = BodyAt(s, i, g)
  BY <1>6
<1> DEFINE T == {i \in D : g[i] \in Verdicts}
<1>8. \A i \in D : i \in T
  <2>1. ASSUME NEW i \in D, \A j \in D : r[j] < r[i] => j \in T PROVE i \in T
    <3>1. HasNext(s, i) => g[NextFrom(s, i)] \in Verdicts
      BY <1>4, <2>1
    <3>2. BodyAt(s, i, g) \in Verdicts
      BY <3>1, BodyAtType DEF L
    <3> QED
      BY <3>2, <1>7
  <2> HIDE DEF T, r, D
  <2> QED
    BY <2>1, <1>3, RankInduction
<1>9. g \in [D -> Verdicts]
  BY <1>8, <1>6
<1> QED
  BY <1>2, <1>7, <1>9 DEF L

(* So do the headers. *)
MoreHeaders(s, i) == ~TooLong(s, i) /\ LineEnd(s, i) # 0 /\ LineAt(s, i) # <<>>

LEMMA HeadersAtType ==
    ASSUME NEW s \in Seq(Bytes), NEW i \in 1 .. Len(s) + 1, NEW f,
           MoreHeaders(s, i) => f[LineEnd(s, i) + 1] \in Verdicts
    PROVE  HeadersAt(s, i, f) \in Verdicts
<1>1. CASE MoreHeaders(s, i)
  BY <1>1 DEF MoreHeaders, HeadersAt, OfLine
<1>2. CASE TooLong(s, i) \/ LineEnd(s, i) = 0
  BY <1>2, VerdictTypes DEF HeadersAt, OfLine
<1>3. CASE ~TooLong(s, i) /\ LineEnd(s, i) # 0 /\ LineAt(s, i) = <<>>
  <2>1. LineEnd(s, i) \in i .. Len(s) /\ Len(s) \in Nat
    BY <1>3, BodyPositions, LenProperties
  <2>2. LineEnd(s, i) + 1 \in 1 .. Len(s) + 1
    BY <2>1
  <2>3. Body(s)[LineEnd(s, i) + 1] \in Verdicts
    BY <2>2, BodyIs
  <2> QED
    BY <1>3, <2>3 DEF HeadersAt, OfLine
<1> QED
  BY <1>1, <1>2, <1>3 DEF MoreHeaders

LEMMA HeadersIs ==
    ASSUME NEW s \in Seq(Bytes)
    PROVE  /\ Headers(s) \in [1 .. Len(s) + 1 -> Verdicts]
           /\ \A i \in 1 .. Len(s) + 1 : Headers(s)[i] = HeadersAt(s, i, Headers(s))
<1> DEFINE L == Len(s)
           D == 1 .. L + 1
           Eq(f) == f = [i \in D |-> HeadersAt(s, i, f)]
           g == CHOOSE f : Eq(f)
           r == [i \in D |-> L + 1 - i]
           nx(i) == LineEnd(s, i) + 1
<1>1. L \in Nat
  BY LenProperties
<1>2. Headers(s) = g
  BY Zenon DEF Headers
<1> HIDE DEF L
<1>3. \A i \in D : r[i] \in 0 .. L /\ r[i] \in Nat
  BY <1>1
<1>4. \A i \in D : MoreHeaders(s, i) => nx(i) \in D /\ r[nx(i)] < r[i]
  <2> SUFFICES ASSUME NEW i \in D, MoreHeaders(s, i)
               PROVE  nx(i) \in D /\ r[nx(i)] < r[i]
    OBVIOUS
  <2>1. LineEnd(s, i) \in i .. L
    BY BodyPositions DEF MoreHeaders, L
  <2>2. nx(i) \in D /\ nx(i) > i
    BY <2>1, <1>1
  <2> QED
    BY <2>2, <1>1
<1>a. \A i \in D : \A f : MoreHeaders(s, i) => HeadersAt(s, i, f) = f[nx(i)]
  BY DEF MoreHeaders, HeadersAt, OfLine
<1>b. \A i \in D : \A f, h : ~MoreHeaders(s, i) => HeadersAt(s, i, f) = HeadersAt(s, i, h)
  BY DEF MoreHeaders, HeadersAt, OfLine
<1> HIDE DEF nx
<1>5. \E f : Eq(f)
  <2> DEFINE f0 == [i \in D |-> 0]
             B == {i \in D : ~MoreHeaders(s, i)}
             b == [i \in D |-> HeadersAt(s, i, f0)]
             p == [i \in D |-> nx(i)]
             st == [i \in D |-> [v \in Verdicts |-> v]]
  <2>1. \A i \in D : i \in B => b[i] \in Verdicts
    BY HeadersAtType DEF L
  <2>2. \A i \in D : i \notin B => p[i] \in D /\ r[p[i]] < r[i]
    BY <1>4
  <2>3. \A i \in D : i \notin B => \A v \in Verdicts : st[i][v] \in Verdicts
    OBVIOUS
  <2>4. Verdicts # {}
    BY VerdictTypes
  <2>5. \A i \in D : b[i] = HeadersAt(s, i, f0) /\ p[i] = nx(i)
                     /\ \A v \in Verdicts : st[i][v] = v
    OBVIOUS
  <2>6. \A i \in D : i \in B <=> ~MoreHeaders(s, i)
    OBVIOUS
  <2> HIDE DEF D, B, b, p, st, r, f0
  <2>7. Recursive(D, r, L, Verdicts, B, b, p, st)
    BY <1>1, <1>3, <2>1, <2>2, <2>3, <2>4 DEF Recursive
  <2>8. PICK f \in [D -> Verdicts] : Solves(f, D, B, b, p, st)
    BY <2>7, Recursion, Zenon
  <2>9. ASSUME NEW i \in D PROVE f[i] = HeadersAt(s, i, f)
    <3>1. CASE MoreHeaders(s, i)
      <4>1. f[i] = st[i][f[nx(i)]]
        BY <3>1, <2>5, <2>6, <2>8 DEF Solves
      <4>2. f[nx(i)] \in Verdicts
        BY <3>1, <1>4
      <4>3. f[i] = f[nx(i)]
        BY <4>1, <4>2, <2>5
      <4> QED
        BY <4>3, <3>1, <1>a
    <3>2. CASE ~MoreHeaders(s, i)
      <4>1. f[i] = HeadersAt(s, i, f0)
        BY <3>2, <2>5, <2>6, <2>8 DEF Solves
      <4> QED
        BY <4>1, <3>2, <1>b
    <3> QED
      BY <3>1, <3>2
  <2> QED
    BY <2>9
<1>6. Eq(g)
  BY <1>5, Zenon
<1> HIDE DEF g
<1>7. \A i \in D : g[i] = HeadersAt(s, i, g)
  BY <1>6
<1> DEFINE T == {i \in D : g[i] \in Verdicts}
<1>8. \A i \in D : i \in T
  <2>1. ASSUME NEW i \in D, \A j \in D : r[j] < r[i] => j \in T PROVE i \in T
    <3>1. MoreHeaders(s, i) => g[nx(i)] \in Verdicts
      BY <1>4, <2>1
    <3>2. HeadersAt(s, i, g) \in Verdicts
      BY <3>1, HeadersAtType DEF L, nx
    <3> QED
      BY <3>2, <1>7
  <2> HIDE DEF T, r, D
  <2> QED
    BY <2>1, <1>3, RankInduction
<1>9. g \in [D -> Verdicts]
  BY <1>8, <1>6
<1> QED
  BY <1>2, <1>7, <1>9 DEF L

-----------------------------------------------------------------------------
(* The inductive invariant *)

(* The bytes read so far, and where the line being read starts. *)
Consumed == fed - Len(buf)
LineLen == Len(ing.line)
Start == Consumed - LineLen + 1

(* The buffer holds what was received and not yet read. *)
BufInv ==
    /\ Len(buf) <= len
    /\ Len(buf) <= fed
    /\ \A k \in 1 .. Len(buf) : buf[k] = input.bytes[Consumed + k]

(* The line buffer holds what was read of the line. *)
LineInv ==
    ing.state # "ERROR" =>
       /\ LineLen <= Consumed
       /\ \A k \in 1 .. LineLen :
             ing.line[k] = input.bytes[Start - 1 + k] /\ ing.line[k] # "LF"

StateInv ==
    /\ ing.complete <=> ing.state = "DONE"
    /\ ing.state = "REQUEST_LINE" => Start = 1
    /\ ing.state = "CHUNK_DATA" => ing.chunk_remaining > 0
    /\ ing.state \in {"CHUNK_DATA", "DONE"} => ing.line = <<>>

(* What the reference still has to read of the stream s. *)
Rest(s) ==
    CASE ing.state = "REQUEST_LINE" -> Reference(s)
      [] ing.state = "HEADER_LINE" -> Headers(s)[Start]
      [] ing.state = "CHUNK_SIZE" -> Body(s)[Start]
      [] ing.state = "CHUNK_DATA" -> DataAt(s, Consumed + 1, ing.chunk_remaining, Body(s))
      [] ing.state = "CHUNK_CRLF" -> CrlfAt(s, Start, Body(s))
      [] ing.state = "TRAILER" -> TrailerAt(s, Start)
      [] ing.state = "DONE" -> Verdict("complete", <<>>)
      [] OTHER -> Verdict("error", <<>>)

(* The first n bytes of the stream. *)
First(n) == SubSeq(input.bytes, 1, n)

(* However much more is received, the reference makes of it what was passed *)
(* on, followed by what it makes of the rest from here.                     *)
MeaningInv ==
    \A n \in Consumed .. Len(input.bytes) : Reference(First(n)) = After(payload, Rest(First(n)))

IngestInv == IngestTypeOK /\ BufInv /\ LineInv /\ StateInv /\ MeaningInv

(* The parser's types, unpacked. *)
LEMMA Types ==
    ASSUME IngestInv
    PROVE  /\ input.bytes \in Seq(Bytes) /\ Len(input.bytes) \in Nat
           /\ fed \in Nat /\ fed <= Len(input.bytes)
           /\ buf \in Seq(Bytes) /\ Len(buf) \in Nat /\ Len(buf) <= fed
           /\ ing.line \in Seq(Bytes) /\ LineLen \in Nat
           /\ Consumed \in Nat /\ Consumed = fed - Len(buf)
           /\ Start \in Int /\ Start = Consumed - LineLen + 1
           /\ ing.state # "ERROR" => Start \in Nat \ {0} /\ LineLen <= Consumed
           /\ payload \in Seq(Bytes)
<1>1. input.bytes \in Seq(Bytes)
  BY IngestAssumption DEF IngestInv, IngestTypeOK
<1>2. buf \in Seq(Bytes) /\ payload \in Seq(Bytes) /\ fed \in 0 .. Len(input.bytes)
  BY DEF IngestInv, IngestTypeOK
<1>3. ing.line \in Seq(Bytes)
  BY DEF IngestInv, IngestTypeOK, http_ingest_t
<1>4. Len(input.bytes) \in Nat /\ Len(buf) \in Nat /\ LineLen \in Nat
  BY <1>1, <1>2, <1>3, LenProperties DEF LineLen
<1>5. Len(buf) <= fed
  BY DEF IngestInv, BufInv
<1>6. ing.state # "ERROR" => LineLen <= Consumed
  BY DEF IngestInv, LineInv
<1>7. Consumed \in Nat /\ Consumed = fed - Len(buf)
  BY <1>2, <1>4, <1>5 DEF Consumed
<1>8. Start = Consumed - LineLen + 1
  BY DEF Start
<1> QED
  BY <1>1, <1>2, <1>3, <1>4, <1>5, <1>6, <1>7, <1>8

LEMMA FirstIs ==
    ASSUME NEW n \in Nat, n <= Len(input.bytes), input.bytes \in Seq(Bytes)
    PROVE  /\ First(n) \in Seq(Bytes)
           /\ Len(First(n)) = n
           /\ \A i \in 1 .. n : First(n)[i] = input.bytes[i]
<1>1. /\ SubSeq(input.bytes, 1, n) \in Seq(Bytes)
      /\ Len(SubSeq(input.bytes, 1, n)) = IF 1 <= n THEN n - 1 + 1 ELSE 0
      /\ \A i \in 1 .. n - 1 + 1 : SubSeq(input.bytes, 1, n)[i] = input.bytes[1 + i - 1]
  BY SubSeqIs
<1> QED
  BY <1>1 DEF First

(* The part of the buffer that belongs to the line. *)
LEMMA PieceIs ==
    ASSUME buf \in Seq(Bytes)
    PROVE  /\ Piece \in Seq(Bytes) /\ Len(Piece) \in Nat /\ Len(Piece) <= Len(buf)
           /\ \A k \in 1 .. Len(Piece) : Piece[k] = buf[k] /\ buf[k] # "LF"
           /\ Find(buf, "LF") = 0 => Piece = buf
           /\ Find(buf, "LF") # 0 =>
                 /\ Find(buf, "LF") \in 1 .. Len(buf)
                 /\ Len(Piece) = Find(buf, "LF") - 1
                 /\ buf[Find(buf, "LF")] = "LF"
<1> DEFINE F == Find(buf, "LF")
<1>1. Len(buf) \in Nat
  BY LenProperties
<1>2. \/ F = 0 /\ \A i \in 1 .. Len(buf) : buf[i] # "LF"
      \/ F \in 1 .. Len(buf) /\ buf[F] = "LF" /\ \A i \in 1 .. F - 1 : buf[i] # "LF"
  BY <1>1, FindIs
<1>3. Piece = IF F = 0 THEN buf ELSE Take(buf, F - 1)
  BY DEF Piece
<1> HIDE DEF F
<1>4. CASE F = 0
  BY <1>1, <1>2, <1>3, <1>4 DEF F
<1>5. CASE F # 0
  <2>1. F - 1 \in Nat /\ F - 1 <= Len(buf)
    BY <1>1, <1>2, <1>5
  <2>2. /\ Take(buf, F - 1) \in Seq(Bytes)
        /\ Len(Take(buf, F - 1)) = F - 1
        /\ \A i \in 1 .. F - 1 : Take(buf, F - 1)[i] = buf[i]
    BY <2>1, TakeIs
  <2>3. /\ Piece \in Seq(Bytes) /\ Len(Piece) = F - 1
        /\ \A k \in 1 .. Len(Piece) : Piece[k] = buf[k] /\ buf[k] # "LF"
    BY <2>2, <1>2, <1>3, <1>5
  <2> QED
    BY <2>1, <2>3, <1>2, <1>5 DEF F
<1> QED
  BY <1>4, <1>5

(* The line with that part: all of it is in the stream, from Start on. *)
LEMMA JoinIs ==
    ASSUME IngestInv, ing.state # "ERROR"
    PROVE  LET line == ing.line \o Piece
           IN  /\ line \in Seq(Bytes) /\ Len(line) = LineLen + Len(Piece)
               /\ \A k \in 1 .. Len(line) : line[k] = input.bytes[Start - 1 + k] /\ line[k] # "LF"
<1> DEFINE line == ing.line \o Piece
           N == LineLen
           P == Len(Piece)
<1>1. /\ ing.line \in Seq(Bytes) /\ N \in Nat /\ Consumed \in Nat
      /\ Start \in Nat \ {0} /\ Start = Consumed - N + 1
  BY Types
<1>2. /\ Piece \in Seq(Bytes) /\ P \in Nat /\ P <= Len(buf)
      /\ \A k \in 1 .. P : Piece[k] = buf[k] /\ buf[k] # "LF"
  BY Types, PieceIs
<1>3. \A k \in 1 .. N : ing.line[k] = input.bytes[Start - 1 + k] /\ ing.line[k] # "LF"
  BY DEF IngestInv, LineInv
<1>4. \A k \in 1 .. Len(buf) : buf[k] = input.bytes[Consumed + k]
  BY DEF IngestInv, BufInv
<1>5. /\ line \in Seq(Bytes) /\ Len(line) = N + P
      /\ \A k \in 1 .. N + P : line[k] = IF k <= N THEN ing.line[k] ELSE Piece[k - N]
  BY <1>1, <1>2, ConcatProperties DEF LineLen
<1>6. Len(buf) \in Nat
  BY Types
<1> HIDE DEF line, N, P
<1>7. ASSUME NEW k \in 1 .. N + P
      PROVE  line[k] = input.bytes[Start - 1 + k] /\ line[k] # "LF"
  <2>1. CASE k <= N
    <3>1. k \in 1 .. N
      BY <2>1, <1>1
    <3> QED
      BY <3>1, <2>1, <1>3, <1>5
  <2>2. CASE ~(k <= N)
    <3>1. k - N \in 1 .. P /\ k - N \in 1 .. Len(buf) /\ Consumed + (k - N) = Start - 1 + k
      BY <2>2, <1>1, <1>2, <1>6
    <3> QED
      BY <3>1, <2>2, <1>2, <1>4, <1>5
  <2> QED
    BY <2>1, <2>2
<1> QED
  BY <1>5, <1>7 DEF line, N, P

(* accumulate_line returns -1, 0 or 1. *)
LEMMA AccumulateCases ==
    /\ accumulate_line.r \in {"overflow", "more", "line"}
    /\ accumulate_line.r = "overflow" =>
          Len(ing.line \o Piece) > LineMax - 1 /\ accumulate_line.rest = <<>>
    /\ accumulate_line.r = "more" =>
          /\ ~(Len(ing.line \o Piece) > LineMax - 1)
          /\ Find(buf, "LF") = 0
          /\ accumulate_line.line = ing.line \o Piece
          /\ accumulate_line.rest = <<>>
    /\ accumulate_line.r = "line" =>
          /\ ~(Len(ing.line \o Piece) > LineMax - 1)
          /\ Find(buf, "LF") # 0
          /\ accumulate_line.line = StripCR(ing.line \o Piece)
          /\ accumulate_line.rest = Drop(buf, Find(buf, "LF"))
<1> DEFINE line == ing.line \o Piece
<1>1. CASE Len(line) > LineMax - 1
  <2>1. accumulate_line = [r |-> "overflow", line |-> <<>>, rest |-> <<>>]
    BY <1>1 DEF accumulate_line
  <2> QED
    BY <2>1, <1>1
<1>2. CASE ~(Len(line) > LineMax - 1) /\ Find(buf, "LF") = 0
  <2>1. accumulate_line = [r |-> "more", line |-> line, rest |-> <<>>]
    BY <1>2 DEF accumulate_line
  <2> QED
    BY <2>1, <1>2
<1>3. CASE ~(Len(line) > LineMax - 1) /\ Find(buf, "LF") # 0
  <2>1. accumulate_line = [r |-> "line", line |-> StripCR(line),
                           rest |-> Drop(buf, Find(buf, "LF"))]
    BY <1>3 DEF accumulate_line
  <2> QED
    BY <2>1, <1>3
<1> QED
  BY <1>1, <1>2, <1>3

(* A line that overflows is too long, however it goes on. *)
LEMMA Overflows ==
    ASSUME IngestInv, ing.state # "ERROR", accumulate_line.r = "overflow",
           NEW n \in fed .. Len(input.bytes)
    PROVE  TooLong(First(n), Start)
<1> DEFINE line == ing.line \o Piece
           s == First(n)
           e == LineEnd(s, Start)
<1>1. Len(line) > LineMax - 1
  BY AccumulateCases
<1>2. /\ Len(line) = LineLen + Len(Piece)
      /\ \A k \in 1 .. Len(line) : line[k] = input.bytes[Start - 1 + k] /\ line[k] # "LF"
  BY JoinIs
<1>3. /\ input.bytes \in Seq(Bytes) /\ Len(input.bytes) \in Nat /\ fed \in Nat
      /\ Len(buf) \in Nat /\ LineLen \in Nat /\ Consumed = fed - Len(buf)
      /\ Start \in Nat \ {0} /\ Start = Consumed - LineLen + 1
  BY Types
<1>4. Len(Piece) \in Nat /\ Len(Piece) <= Len(buf)
  BY Types, PieceIs
<1>5. n \in Nat /\ n <= Len(input.bytes) /\ Len(line) \in Nat /\ Start - 1 + Len(line) <= n
  BY <1>2, <1>3, <1>4
<1>6. Len(s) = n /\ \A i \in 1 .. n : s[i] = input.bytes[i]
  BY <1>3, <1>5, FirstIs
<1>7. \/ e = 0
      \/ e \in Start .. Len(s) /\ s[e] = "LF"
  BY <1>3, <1>5, <1>6, LineEndIs
<1>8. TooLong(s, Start) <=> (IF e = 0 THEN Len(s) + 1 ELSE e) - Start > LineMax - 1
  BY DEF TooLong
<1>9. LineMax \in Nat
  BY IngestAssumption
<1> HIDE DEF line, s, e
<1>10. CASE e = 0
  BY <1>10, <1>1, <1>3, <1>5, <1>6, <1>8, <1>9 DEF s
<1>11. CASE e # 0
  <2>1. ~(e <= Start - 1 + Len(line))
    <3> SUFFICES ASSUME e <= Start - 1 + Len(line) PROVE FALSE
      OBVIOUS
    <3>1. e - Start + 1 \in 1 .. Len(line) /\ Start - 1 + (e - Start + 1) = e /\ e \in 1 .. n
      BY <1>3, <1>5, <1>6, <1>7, <1>11
    <3>2. input.bytes[e] # "LF"
      BY <3>1, <1>2
    <3> QED
      BY <3>1, <3>2, <1>6, <1>7, <1>11
  <2>2. e \in Nat
    BY <1>3, <1>5, <1>6, <1>7, <1>11
  <2> QED
    BY <2>1, <2>2, <1>11, <1>1, <1>3, <1>5, <1>8, <1>9 DEF s
<1> QED
  BY <1>10, <1>11

(* A line without its end is kept as it is in the stream. *)
LEMMA GoesOn ==
    ASSUME IngestInv, ing.state # "ERROR", accumulate_line.r = "more"
    PROVE  /\ accumulate_line.rest = <<>>
           /\ accumulate_line.line \in Seq(Bytes)
           /\ Len(accumulate_line.line) = LineLen + Len(buf)
           /\ Len(accumulate_line.line) <= LineMax - 1
           /\ \A k \in 1 .. Len(accumulate_line.line) :
                 /\ accumulate_line.line[k] = input.bytes[Start - 1 + k]
                 /\ accumulate_line.line[k] # "LF"
<1> DEFINE line == ing.line \o Piece
<1>1. /\ ~(Len(line) > LineMax - 1)
      /\ Find(buf, "LF") = 0
      /\ accumulate_line.line = line
      /\ accumulate_line.rest = <<>>
  BY AccumulateCases
<1>2. /\ line \in Seq(Bytes) /\ Len(line) = LineLen + Len(Piece)
      /\ \A k \in 1 .. Len(line) : line[k] = input.bytes[Start - 1 + k] /\ line[k] # "LF"
  BY JoinIs
<1>3. Piece = buf /\ LineMax \in Nat /\ Len(line) \in Nat
  BY <1>1, <1>2, Types, PieceIs, IngestAssumption, LenProperties
<1> HIDE DEF line
<1>4. Len(line) <= LineMax - 1
  BY <1>1, <1>3
<1> QED
  BY <1>1, <1>2, <1>3, <1>4

(* What StripCR leaves. *)
LEMMA StripIs ==
    ASSUME NEW line \in Seq(Bytes)
    PROVE  /\ StripCR(line) \in Seq(Bytes)
           /\ Len(StripCR(line)) = IF Len(line) > 0 /\ line[Len(line)] = "CR"
                                   THEN Len(line) - 1 ELSE Len(line)
           /\ \A k \in 1 .. Len(StripCR(line)) : StripCR(line)[k] = line[k]
<1> DEFINE n == Len(line)
<1>1. n \in Nat /\ (line = <<>> <=> n = 0)
  BY EmptySeq, LenProperties
<1> HIDE DEF n
<1>2. CASE n > 0 /\ line[n] = "CR"
  <2>1. StripCR(line) = SubSeq(line, 1, n - 1)
    BY <1>1, <1>2 DEF StripCR, Front, Last, n
  <2>2. n - 1 \in Nat /\ n - 1 <= Len(line)
    BY <1>1, <1>2 DEF n
  <2>3. /\ SubSeq(line, 1, n - 1) \in Seq(Bytes)
        /\ Len(SubSeq(line, 1, n - 1)) = IF 1 <= n - 1 THEN n - 1 - 1 + 1 ELSE 0
        /\ \A i \in 1 .. n - 1 - 1 + 1 : SubSeq(line, 1, n - 1)[i] = line[1 + i - 1]
    BY <2>2, SubSeqIs
  <2>4. Len(StripCR(line)) = n - 1
    BY <2>1, <2>2, <2>3
  <2> QED
    BY <2>1, <2>2, <2>3, <2>4, <1>2 DEF n
<1>3. CASE ~(n > 0 /\ line[n] = "CR")
  <2>1. StripCR(line) = line
    BY <1>1, <1>3 DEF StripCR, Last, n
  <2> QED
    BY <2>1, <1>3 DEF n
<1> QED
  BY <1>2, <1>3

(* A complete line is the one the reference reads at Start. *)
LEMMA Completes ==
    ASSUME IngestInv, ing.state # "ERROR", accumulate_line.r = "line"
    PROVE  /\ accumulate_line.line \in Seq(Bytes)
           /\ Len(accumulate_line.line) <= LineMax - 1
           /\ accumulate_line.rest \in Seq(Bytes)
           /\ Len(accumulate_line.rest) < Len(buf)
           /\ \A k \in 1 .. Len(accumulate_line.rest) :
                 accumulate_line.rest[k] = input.bytes[fed - Len(accumulate_line.rest) + k]
           /\ \A n \in fed - Len(accumulate_line.rest) .. Len(input.bytes) :
                 /\ ~TooLong(First(n), Start)
                 /\ LineEnd(First(n), Start) = fed - Len(accumulate_line.rest)
                 /\ LineAt(First(n), Start) = accumulate_line.line
<1> DEFINE line == ing.line \o Piece
           F == Find(buf, "LF")
           e == Consumed + F
           rest == accumulate_line.rest
           text == accumulate_line.line
<1>1. /\ ~(Len(line) > LineMax - 1)
      /\ F # 0
      /\ text = StripCR(line)
      /\ rest = Drop(buf, F)
  BY AccumulateCases
<1>2. /\ line \in Seq(Bytes) /\ Len(line) = LineLen + Len(Piece)
      /\ \A k \in 1 .. Len(line) : line[k] = input.bytes[Start - 1 + k] /\ line[k] # "LF"
  BY JoinIs
<1>3. F \in 1 .. Len(buf) /\ Len(Piece) = F - 1 /\ buf[F] = "LF"
  BY <1>1, Types, PieceIs
<1>4. /\ input.bytes \in Seq(Bytes) /\ Len(input.bytes) \in Nat
      /\ fed \in Nat /\ fed <= Len(input.bytes)
      /\ buf \in Seq(Bytes) /\ Len(buf) \in Nat /\ LineLen \in Nat
      /\ Consumed \in Nat /\ Consumed = fed - Len(buf)
      /\ Start \in Nat \ {0} /\ Start = Consumed - LineLen + 1
  BY Types
<1>5. \A k \in 1 .. Len(buf) : buf[k] = input.bytes[Consumed + k]
  BY DEF IngestInv, BufInv
<1>6. F \in Nat /\ F <= Len(buf)
  BY <1>3, <1>4
<1> HIDE DEF F, rest, line, text
<1>7. /\ rest \in Seq(Bytes)
      /\ Len(rest) = Len(buf) - F
      /\ \A i \in 1 .. Len(buf) - F : rest[i] = buf[F + i]
  <2>1. buf \in Seq(Bytes) /\ F \in Nat /\ F <= Len(buf) /\ rest = Drop(buf, F)
    BY <1>1, <1>4, <1>6
  <2> QED
    BY <2>1, DropIs
<1>8. LineMax \in Nat
  BY IngestAssumption
<1>9. /\ text \in Seq(Bytes)
      /\ Len(text) = IF Len(line) > 0 /\ line[Len(line)] = "CR"
                     THEN Len(line) - 1 ELSE Len(line)
      /\ \A k \in 1 .. Len(text) : text[k] = line[k]
  BY <1>1, <1>2, StripIs
<1>10. Len(line) \in Nat /\ Len(text) \in Nat
  BY <1>2, <1>9, LenProperties
<1> HIDE DEF e
<1>11. /\ e \in Nat /\ e = Start + Len(line) /\ e = fed - Len(rest) /\ e <= fed
       /\ input.bytes[e] = "LF"
  BY <1>2, <1>3, <1>4, <1>5, <1>7 DEF e
<1>a. Start \in Nat \ {0} /\ Len(line) \in Nat /\ e \in Nat /\ e = Start + Len(line)
  BY <1>4, <1>10, <1>11
<1>12. Len(text) <= LineMax - 1 /\ Len(rest) < Len(buf)
  BY <1>1, <1>3, <1>4, <1>7, <1>8, <1>9, <1>10
<1>13. ASSUME NEW k \in 1 .. Len(rest) PROVE rest[k] = input.bytes[fed - Len(rest) + k]
  <2>1. F + k \in 1 .. Len(buf) /\ k \in 1 .. Len(buf) - F /\ Consumed + (F + k) = fed - Len(rest) + k
    BY <1>3, <1>4, <1>7
  <2> QED
    BY <2>1, <1>5, <1>7
<1>14. ASSUME NEW n \in fed - Len(rest) .. Len(input.bytes)
       PROVE  /\ ~TooLong(First(n), Start)
              /\ LineEnd(First(n), Start) = e
              /\ LineAt(First(n), Start) = text
  <2> DEFINE s == First(n)
  <2>1. n \in Nat /\ n <= Len(input.bytes) /\ e <= n
    BY <1>4, <1>11
  <2>2. s \in Seq(Bytes) /\ Len(s) = n /\ \A i \in 1 .. n : s[i] = input.bytes[i]
    BY <2>1, <1>4, FirstIs
  <2> HIDE DEF s
  <2>3. \A k \in Start .. e - 1 : s[k] = line[k - Start + 1] /\ s[k] # "LF"
    <3> TAKE k \in Start .. e - 1
    <3>1. k - Start + 1 \in 1 .. Len(line) /\ Start - 1 + (k - Start + 1) = k /\ k \in 1 .. n
      BY <1>a, <2>1
    <3> QED
      BY <3>1, <2>2, <1>2
  <2>4. e \in Start .. Len(s) /\ s[e] = "LF" /\ e \in 1 .. n
    BY <1>4, <1>10, <1>11, <2>1, <2>2
  <2>5. LineEnd(s, Start) = e
    <3>1. Len(s) \in Nat /\ Start \in Nat \ {0} /\ \A k \in Start .. e - 1 : s[k] # "LF"
      BY <1>a, <2>1, <2>2, <2>3
    <3> QED
      BY <3>1, <2>4, LineEndFound
  <2>6. e # 0 /\ e - Start = Len(line)
    BY <1>4, <1>10, <1>11
  <2>7. ~TooLong(s, Start)
    BY <2>5, <2>6, <1>1 DEF TooLong
  <2> DEFINE stop == IF e > Start /\ s[e - 1] = "CR" THEN e - 2 ELSE e - 1
  <2>8. LineAt(s, Start) = SubSeq(s, Start, stop)
    BY <2>5 DEF LineAt
  <2>9. stop \in Nat /\ stop <= Len(s) /\ stop - Start + 1 = Len(text)
    <3>1. CASE Len(line) > 0
      <4>1. e - 1 \in Start .. e - 1 /\ (e - 1) - Start + 1 = Len(line) /\ e > Start
        BY <3>1, <1>4, <1>10, <1>11
      <4>2. s[e - 1] = line[Len(line)]
        BY <4>1, <2>3
      <4>3. e \in Nat /\ e <= Len(s) /\ Start \in Nat /\ e = Start + Len(line)
        BY <1>a, <2>1, <2>2
      <4>4. Len(text) = IF s[e - 1] = "CR" THEN Len(line) - 1 ELSE Len(line)
        BY <4>2, <3>1, <1>9
      <4> QED
        <5>1. CASE s[e - 1] = "CR"
          <6>1. stop = e - 2 /\ Len(text) = Len(line) - 1
            BY <5>1, <4>1, <4>4
          <6> QED
            BY <6>1, <4>1, <4>3, <1>a
        <5>2. CASE s[e - 1] # "CR"
          <6>1. stop = e - 1 /\ Len(text) = Len(line)
            BY <5>2, <4>1, <4>4
          <6> QED
            BY <6>1, <4>1, <4>3, <1>a
        <5> QED
          BY <5>1, <5>2
    <3>2. CASE ~(Len(line) > 0)
      <4>1. Len(line) = 0 /\ e = Start
        BY <3>2, <1>4, <1>10, <1>11
      <4> QED
        BY <4>1, <1>4, <1>9, <1>10, <1>11, <2>1, <2>2
    <3> QED
      BY <3>1, <3>2
  <2> HIDE DEF stop
  <2>10. /\ SubSeq(s, Start, stop) \in Seq(Bytes)
         /\ Len(SubSeq(s, Start, stop)) = IF Start <= stop THEN stop - Start + 1 ELSE 0
         /\ \A i \in 1 .. stop - Start + 1 : SubSeq(s, Start, stop)[i] = s[Start + i - 1]
    BY <2>2, <2>9, <1>4, SubSeqIs
  <2> DEFINE t == SubSeq(s, Start, stop)
  <2>11. t \in Seq(Bytes) /\ Len(t) = Len(text)
    BY <2>9, <2>10, <1>a, <1>10
  <2>12. ASSUME NEW k \in 1 .. Len(t) PROVE t[k] = text[k]
    <3>1. k \in 1 .. stop - Start + 1 /\ k \in 1 .. Len(text)
      BY <2>11, <2>9, <2>12
    <3>2. Start + k - 1 \in Start .. e - 1 /\ (Start + k - 1) - Start + 1 = k
      <4>1. Len(text) \in Nat /\ Len(text) <= Len(line)
        BY <1>9, <1>10
      <4> QED
        BY <4>1, <3>1, <1>a
    <3>3. t[k] = s[Start + k - 1]
      BY <3>1, <2>10
    <3>4. s[Start + k - 1] = line[k]
      BY <3>2, <2>3
    <3> QED
      BY <3>1, <3>3, <3>4, <1>9
  <2> HIDE DEF t
  <2>13. t = text
    BY <2>11, <2>12, <1>9, SeqEqual
  <2> QED
    BY <2>5, <2>7, <2>8, <2>13 DEF s, t
<1> QED
  BY <1>7, <1>9, <1>11, <1>12, <1>13, <1>14 DEF rest, text

-----------------------------------------------------------------------------
(* The fields of the parser stay in their arrays *)

Fits(i) ==
    /\ i \in http_ingest_t
    /\ Len(i.line) <= LineMax - 1
    /\ Len(i.method) <= MethodMax - 1
    /\ Len(i.path) <= PathMax - 1
    /\ Len(i.session_id) <= SessionMax - 1

LEMMA FitsBasics ==
    ASSUME Fits(ing)
    PROVE  /\ Fits(Failed)
           /\ \A state \in IngestStates : Fits(Enter(state))
           /\ \A line \in Seq(Bytes) : Len(line) <= LineMax - 1 => Fits([ing EXCEPT !.line = line])
<1>1. <<>> \in Seq(Bytes) /\ Len(<<>>) = 0
  BY EmptySeq
<1>2. 0 <= LineMax - 1
  BY IngestAssumption
<1>3. Fits(Failed)
  BY DEF Fits, Failed, http_ingest_t, IngestStates
<1>4. ASSUME NEW state \in IngestStates PROVE Fits(Enter(state))
  BY <1>1, <1>2 DEF Fits, Enter, http_ingest_t
<1>5. ASSUME NEW line \in Seq(Bytes), Len(line) <= LineMax - 1
      PROVE  Fits([ing EXCEPT !.line = line])
  BY <1>5 DEF Fits, http_ingest_t
<1> QED
  BY <1>3, <1>4, <1>5

(* http_ingest.c:67-94: method and path are copied only if they fit. *)
LEMMA FitsRequest ==
    ASSUME Fits(ing), NEW line \in Seq(Bytes)
    PROVE  Fits(parse_request_line(line))
<1> USE IngestAssumption
<1> DEFINE sp1 == Find(line, "SP")
           rest == Drop(line, sp1)
           sp2 == Find(rest, "SP")
           method == Take(line, sp1 - 1)
           path == Take(rest, sp2 - 1)
<1>1. parse_request_line(line) =
        CASE sp1 - 1 \notin 1 .. MethodMax - 1 -> Failed
          [] sp1 - 1 \in 1 .. MethodMax - 1 /\ sp2 - 1 \notin 1 .. PathMax - 1 ->
                [Failed EXCEPT !.method = method]
          [] OTHER -> [Enter("HEADER_LINE") EXCEPT !.method = method, !.path = path]
  BY DEF parse_request_line
<1>2. Fits(Failed) /\ Fits(Enter("HEADER_LINE"))
  BY FitsBasics DEF IngestStates
<1>3. Len(line) \in Nat
  BY LenProperties
<1>4. sp1 \in 0 .. Len(line)
  BY <1>3, FindIs
<1> HIDE DEF sp1
<1>5. rest \in Seq(Bytes)
  BY <1>3, <1>4, DropIs
<1> HIDE DEF rest
<1>6. ASSUME sp1 - 1 \in 1 .. MethodMax - 1
      PROVE  method \in Seq(Bytes) /\ Len(method) <= MethodMax - 1
  <2>1. sp1 - 1 \in Nat /\ sp1 - 1 <= MethodMax - 1 /\ MethodMax - 1 \in Nat
    BY <1>4, <1>6
  <2>2. method \in Seq(Bytes) /\ Len(method) <= sp1 - 1
    BY <2>1, TakeAtMost
  <2>3. Len(method) \in Nat
    BY <2>2, LenProperties
  <2> QED
    BY <2>1, <2>2, <2>3
<1>7. ASSUME sp2 - 1 \in 1 .. PathMax - 1
      PROVE  path \in Seq(Bytes) /\ Len(path) <= PathMax - 1
  <2>a. Len(rest) \in Nat
    BY <1>5, LenProperties
  <2>b. sp2 \in 0 .. Len(rest)
    BY <2>a, FindIs
  <2> HIDE DEF sp2
  <2>1. sp2 - 1 \in Nat /\ sp2 - 1 <= PathMax - 1 /\ PathMax - 1 \in Nat
    BY <2>a, <2>b, <1>7
  <2>2. path \in Seq(Bytes) /\ Len(path) <= sp2 - 1
    BY <2>1, <1>5, TakeAtMost
  <2>3. Len(path) \in Nat
    BY <2>2, LenProperties
  <2> QED
    BY <2>1, <2>2, <2>3
<1> HIDE DEF sp2, method, path
<1>8. CASE sp1 - 1 \notin 1 .. MethodMax - 1
  BY <1>8, <1>1, <1>2
<1>9. CASE sp1 - 1 \in 1 .. MethodMax - 1 /\ sp2 - 1 \notin 1 .. PathMax - 1
  <2>1. parse_request_line(line) = [Failed EXCEPT !.method = method]
    BY <1>9, <1>1
  <2> QED
    BY <2>1, <1>2, <1>6, <1>9 DEF Fits, http_ingest_t
<1>10. CASE sp1 - 1 \in 1 .. MethodMax - 1 /\ sp2 - 1 \in 1 .. PathMax - 1
  <2>1. parse_request_line(line)
          = [Enter("HEADER_LINE") EXCEPT !.method = method, !.path = path]
    BY <1>10, <1>1
  <2> QED
    BY <2>1, <1>2, <1>6, <1>7, <1>10 DEF Fits, http_ingest_t
<1> QED
  BY <1>8, <1>9, <1>10

(* http_ingest.c:57-65, 96-126: the session id is cut to its array. *)
LEMMA FitsHeader ==
    ASSUME Fits(ing), NEW line \in Seq(Bytes)
    PROVE  Fits(parse_header_line(line))
<1> USE IngestAssumption
<1> DEFINE colon == Find(line, ":")
           name == Take(line, colon - 1)
           after == Drop(line, colon)
           value == Drop(after, Len(Leading(after, {"SP", "TAB"})))
           H == Enter("HEADER_LINE")
<1>1. parse_header_line(line) =
        IF colon = 0 THEN H
        ELSE IF name = <<"S">> THEN [H EXCEPT !.session_id = Take(value, SessionMax - 1)]
        ELSE IF name = <<"W">> THEN [H EXCEPT !.wake_conf_milli = parse_u32(value)]
        ELSE H
  BY DEF parse_header_line
<1>2. Fits(H)
  BY FitsBasics DEF IngestStates
<1>3. Len(line) \in Nat
  BY LenProperties
<1>4. colon \in 0 .. Len(line)
  BY <1>3, FindIs
<1> HIDE DEF colon
<1>5. after \in Seq(Bytes)
  BY <1>3, <1>4, DropIs
<1> HIDE DEF after
<1>6. value \in Seq(Bytes)
  <2> DEFINE l == Leading(after, {"SP", "TAB"})
  <2>1. l \in Seq(Bytes) /\ Len(l) <= Len(after)
    BY <1>5, LeadingIs
  <2>2. Len(l) \in Nat
    BY <2>1, LenProperties
  <2> HIDE DEF l
  <2>3. Drop(after, Len(l)) \in Seq(Bytes)
    BY <1>5, <2>1, <2>2, DropIs
  <2> QED
    BY <2>3 DEF l
<1> HIDE DEF value
<1>7. SessionMax - 1 \in Nat
  OBVIOUS
<1>8. Take(value, SessionMax - 1) \in Seq(Bytes) /\ Len(Take(value, SessionMax - 1)) <= SessionMax - 1
  BY <1>6, <1>7, TakeAtMost
<1>9. parse_u32(value) \in 0 .. U32Mod - 1
  BY <1>6, ParsedInRange
<1> DEFINE id == Take(value, SessionMax - 1)
           conf == parse_u32(value)
<1> HIDE DEF id, conf, H, name
<1>10. Fits([H EXCEPT !.session_id = id])
  BY <1>2, <1>8 DEF Fits, http_ingest_t, id
<1>11. Fits([H EXCEPT !.wake_conf_milli = conf])
  BY <1>2, <1>9 DEF Fits, http_ingest_t, conf
<1> QED
  BY <1>1, <1>2, <1>10, <1>11 DEF id, conf

-----------------------------------------------------------------------------
(* What the parsed lines do *)

LEMMA FindFound ==
    ASSUME NEW s, Len(s) \in Nat, NEW c, NEW j \in 1 .. Len(s), s[j] = c,
           \A k \in 1 .. j - 1 : s[k] # c
    PROVE  Find(s, c) = j
<1> DEFINE m == Find(s, c)
<1>1. \/ m = 0 /\ \A i \in 1 .. Len(s) : s[i] # c
      \/ m \in 1 .. Len(s) /\ s[m] = c /\ \A i \in 1 .. m - 1 : s[i] # c
  BY FindIs
<1> HIDE DEF m
<1>2. m \in 1 .. Len(s) /\ s[m] = c /\ \A i \in 1 .. m - 1 : s[i] # c
  BY <1>1
<1>3. ~(j < m) /\ ~(m < j)
  BY <1>2
<1> QED
  BY <1>2, <1>3 DEF m

(* The request line is accepted if and only if method and path are there and fit. *)
LEMMA RequestIs ==
    ASSUME NEW line \in Seq(Bytes), Fits(ing)
    PROVE  /\ GoodRequest(line) =>
                 /\ parse_request_line(line).state = "HEADER_LINE"
                 /\ parse_request_line(line).line = <<>>
                 /\ parse_request_line(line).complete = ing.complete
           /\ ~GoodRequest(line) =>
                 /\ parse_request_line(line).state = "ERROR"
                 /\ parse_request_line(line).complete = ing.complete
<1> USE IngestAssumption
<1> DEFINE sp1 == Find(line, "SP")
           rest == Drop(line, sp1)
           sp2 == Find(rest, "SP")
           method == Take(line, sp1 - 1)
           path == Take(rest, sp2 - 1)
           ok1 == sp1 - 1 \in 1 .. MethodMax - 1
           ok2 == sp2 - 1 \in 1 .. PathMax - 1
<1>1. parse_request_line(line) =
        CASE ~ok1 -> Failed
          [] ok1 /\ ~ok2 -> [Failed EXCEPT !.method = method]
          [] OTHER -> [Enter("HEADER_LINE") EXCEPT !.method = method, !.path = path]
  BY DEF parse_request_line
<1>2. Len(line) \in Nat
  BY LenProperties
<1>3. \/ sp1 = 0 /\ \A i \in 1 .. Len(line) : line[i] # "SP"
      \/ sp1 \in 1 .. Len(line) /\ line[sp1] = "SP" /\ \A i \in 1 .. sp1 - 1 : line[i] # "SP"
  BY <1>2, FindIs
<1> HIDE DEF sp1
<1>4. sp1 \in Nat /\ sp1 <= Len(line)
  BY <1>2, <1>3
<1>5. /\ rest \in Seq(Bytes) /\ Len(rest) = Len(line) - sp1
      /\ \A i \in 1 .. Len(line) - sp1 : rest[i] = line[sp1 + i]
  BY <1>4, DropIs
<1> HIDE DEF rest
<1>6. Len(rest) \in Nat
  BY <1>2, <1>4, <1>5
<1>7. \/ sp2 = 0 /\ \A i \in 1 .. Len(rest) : rest[i] # "SP"
      \/ sp2 \in 1 .. Len(rest) /\ rest[sp2] = "SP" /\ \A i \in 1 .. sp2 - 1 : rest[i] # "SP"
  BY <1>6, FindIs
<1> HIDE DEF sp2
<1>8. ASSUME ok1, ok2 PROVE GoodRequest(line)
  <2> DEFINE j == sp1 + sp2
  <2>1. sp1 \in 1 .. Len(line) /\ line[sp1] = "SP" /\ \A i \in 1 .. sp1 - 1 : line[i] # "SP"
    BY <1>3, <1>8
  <2>2. sp2 \in 1 .. Len(rest) /\ rest[sp2] = "SP" /\ \A i \in 1 .. sp2 - 1 : rest[i] # "SP"
    BY <1>7, <1>8
  <2>3. j \in 1 .. Len(line) /\ line[j] = "SP" /\ sp1 < j /\ j - sp1 - 1 = sp2 - 1
    BY <2>1, <2>2, <1>2, <1>5
  <2>4. ASSUME NEW k \in 1 .. j - 1, line[k] = "SP" PROVE k = sp1
    <3>1. ~(k < sp1)
      BY <2>1, <2>4
    <3>2. ~(k > sp1)
      <4> SUFFICES ASSUME k > sp1 PROVE FALSE
        OBVIOUS
      <4>1. k - sp1 \in 1 .. sp2 - 1 /\ k - sp1 \in 1 .. Len(line) - sp1 /\ sp1 + (k - sp1) = k
        BY <2>1, <2>2, <1>2, <1>5
      <4> QED
        BY <4>1, <2>2, <2>4, <1>5
    <3> QED
      BY <3>1, <3>2, <2>1, <2>2
  <2> HIDE DEF j
  <2>5. sp1 - 1 \in 1 .. MethodMax - 1 /\ j - sp1 - 1 \in 1 .. PathMax - 1
    BY <1>8, <2>3
  <2> QED
    BY <2>1, <2>3, <2>4, <2>5 DEF GoodRequest
<1>9. ASSUME GoodRequest(line) PROVE ok1 /\ ok2
  <2>1. PICK i, j \in 1 .. Len(line) :
            /\ line[i] = "SP" /\ line[j] = "SP" /\ i < j
            /\ \A k \in 1 .. j - 1 : line[k] = "SP" => k = i
            /\ i - 1 \in 1 .. MethodMax - 1
            /\ j - i - 1 \in 1 .. PathMax - 1
    BY <1>9, Zenon DEF GoodRequest
  <2>2. \A k \in 1 .. i - 1 : line[k] # "SP"
    BY <2>1, <1>2
  <2>3. sp1 = i
    BY <2>1, <2>2, <1>2, FindFound DEF sp1
  <2>4. j - i \in 1 .. Len(rest) /\ rest[j - i] = "SP"
    BY <2>1, <2>3, <1>2, <1>5
  <2>5. \A k \in 1 .. (j - i) - 1 : rest[k] # "SP"
    <3> TAKE k \in 1 .. (j - i) - 1
    <3>1. i + k \in 1 .. j - 1 /\ i + k # i /\ k \in 1 .. Len(line) - sp1
      BY <2>1, <2>3, <1>2
    <3>2. line[i + k] # "SP"
      BY <3>1, <2>1
    <3> QED
      BY <3>1, <3>2, <2>3, <1>5
  <2>6. sp2 = j - i
    BY <2>4, <2>5, <1>6, FindFound DEF sp2
  <2> QED
    BY <2>1, <2>3, <2>6
<1> HIDE DEF ok1, ok2, method, path
<1>10. /\ Failed.state = "ERROR" /\ Failed.complete = ing.complete
       /\ [Failed EXCEPT !.method = method].state = "ERROR"
       /\ [Failed EXCEPT !.method = method].complete = ing.complete
  BY DEF Failed, Fits, http_ingest_t
<1>11. LET h == [Enter("HEADER_LINE") EXCEPT !.method = method, !.path = path]
       IN  h.state = "HEADER_LINE" /\ h.line = <<>> /\ h.complete = ing.complete
  BY DEF Enter, Fits, http_ingest_t
<1>12. CASE ok1 /\ ok2
  <2>1. parse_request_line(line)
          = [Enter("HEADER_LINE") EXCEPT !.method = method, !.path = path]
    BY <1>1, <1>12
  <2> QED
    BY <2>1, <1>8, <1>11, <1>12
<1>13. CASE ~ok1
  <2>1. parse_request_line(line) = Failed
    BY <1>1, <1>13
  <2> QED
    BY <2>1, <1>9, <1>10, <1>13
<1>14. CASE ok1 /\ ~ok2
  <2>1. parse_request_line(line) = [Failed EXCEPT !.method = method]
    BY <1>1, <1>14
  <2> QED
    BY <2>1, <1>9, <1>10, <1>14
<1> QED
  BY <1>12, <1>13, <1>14

(* A header line changes nothing else. *)
LEMMA HeaderIs ==
    ASSUME NEW line, Fits(ing)
    PROVE  /\ parse_header_line(line).state = "HEADER_LINE"
           /\ parse_header_line(line).line = <<>>
           /\ parse_header_line(line).complete = ing.complete
<1> DEFINE H == Enter("HEADER_LINE")
<1>1. \E id, conf : \/ parse_header_line(line) = H
                    \/ parse_header_line(line) = [H EXCEPT !.session_id = id]
                    \/ parse_header_line(line) = [H EXCEPT !.wake_conf_milli = conf]
  BY Zenon DEF parse_header_line
<1>2. PICK id, conf : \/ parse_header_line(line) = H
                      \/ parse_header_line(line) = [H EXCEPT !.session_id = id]
                      \/ parse_header_line(line) = [H EXCEPT !.wake_conf_milli = conf]
  BY <1>1
<1>3. H.state = "HEADER_LINE" /\ H.line = <<>> /\ H.complete = ing.complete
  BY DEF Enter, Fits, http_ingest_t
<1>4. LET h == [H EXCEPT !.session_id = id]
      IN  h.state = "HEADER_LINE" /\ h.line = <<>> /\ h.complete = ing.complete
  BY DEF Enter, Fits, http_ingest_t
<1>5. LET h == [H EXCEPT !.wake_conf_milli = conf]
      IN  h.state = "HEADER_LINE" /\ h.line = <<>> /\ h.complete = ing.complete
  BY DEF Enter, Fits, http_ingest_t
<1> HIDE DEF H
<1> QED
  BY <1>2, <1>3, <1>4, <1>5

-----------------------------------------------------------------------------
(* The steps *)

Quiet == UNCHANGED <<input, fed, len, ret, payload, samples>>

LineStates == {"REQUEST_LINE", "HEADER_LINE", "CHUNK_SIZE", "CHUNK_CRLF", "TRAILER"}

(* What the reference does with the line at Start, state by state. *)
LineDone(s) ==
    CASE ing.state = "REQUEST_LINE" ->
            IF GoodRequest(LineAt(s, Start)) THEN Headers(s)[LineEnd(s, Start) + 1]
            ELSE Verdict("error", <<>>)
      [] ing.state = "HEADER_LINE" ->
            IF LineAt(s, Start) = <<>> THEN Body(s)[LineEnd(s, Start) + 1]
            ELSE Headers(s)[LineEnd(s, Start) + 1]
      [] ing.state = "CHUNK_SIZE" ->
            IF SizeAt(s, Start) = SizeMod - 1 THEN Verdict("error", <<>>)
            ELSE IF SizeAt(s, Start) = 0 THEN TrailerAt(s, LineEnd(s, Start) + 1)
            ELSE DataAt(s, LineEnd(s, Start) + 1, SizeAt(s, Start), Body(s))
      [] ing.state = "CHUNK_CRLF" ->
            IF LineAt(s, Start) # <<>> THEN Verdict("error", <<>>)
            ELSE Body(s)[LineEnd(s, Start) + 1]
      [] OTHER -> Verdict("complete", <<>>)

LEMMA RestOfLine ==
    ASSUME StateInv, ing.state \in LineStates, NEW s \in Seq(Bytes), Start \in 1 .. Len(s) + 1
    PROVE  Rest(s) = OfLine(s, Start, LineDone(s))
<1>1. CASE ing.state = "REQUEST_LINE"
  <2>1. Start = 1
    BY <1>1 DEF StateInv
  <2>2. Rest(s) = Reference(s)
    BY <1>1 DEF Rest
  <2>3. LineDone(s) = IF GoodRequest(LineAt(s, Start)) THEN Headers(s)[LineEnd(s, Start) + 1]
                      ELSE Verdict("error", <<>>)
    BY <1>1 DEF LineDone
  <2> QED
    BY <2>1, <2>2, <2>3 DEF Reference
<1>2. CASE ing.state = "HEADER_LINE"
  <2>1. Rest(s) = HeadersAt(s, Start, Headers(s))
    BY <1>2, HeadersIs DEF Rest
  <2>2. LineDone(s) = IF LineAt(s, Start) = <<>> THEN Body(s)[LineEnd(s, Start) + 1]
                      ELSE Headers(s)[LineEnd(s, Start) + 1]
    BY <1>2 DEF LineDone
  <2> QED
    BY <2>1, <2>2 DEF HeadersAt
<1>3. CASE ing.state = "CHUNK_SIZE"
  <2>1. Rest(s) = BodyAt(s, Start, Body(s))
    BY <1>3, BodyIs DEF Rest
  <2>2. LineDone(s) = IF SizeAt(s, Start) = SizeMod - 1 THEN Verdict("error", <<>>)
                      ELSE IF SizeAt(s, Start) = 0 THEN TrailerAt(s, LineEnd(s, Start) + 1)
                      ELSE DataAt(s, LineEnd(s, Start) + 1, SizeAt(s, Start), Body(s))
    BY <1>3 DEF LineDone
  <2> QED
    BY <2>1, <2>2 DEF BodyAt, SizeAt
<1>4. CASE ing.state = "CHUNK_CRLF"
  <2>1. Rest(s) = CrlfAt(s, Start, Body(s))
    BY <1>4 DEF Rest
  <2>2. LineDone(s) = IF LineAt(s, Start) # <<>> THEN Verdict("error", <<>>)
                      ELSE Body(s)[LineEnd(s, Start) + 1]
    BY <1>4 DEF LineDone
  <2> QED
    BY <2>1, <2>2 DEF CrlfAt
<1>5. CASE ing.state = "TRAILER"
  <2>1. Rest(s) = TrailerAt(s, Start)
    BY <1>5 DEF Rest
  <2>2. LineDone(s) = Verdict("complete", <<>>)
    BY <1>5 DEF LineDone
  <2> QED
    BY <2>1, <2>2 DEF TrailerAt
<1> QED
  BY <1>1, <1>2, <1>3, <1>4, <1>5 DEF LineStates

(* Quiet steps keep the meaning if they keep what is left to read. *)
LEMMA QuietStep ==
    ASSUME IngestInv, Quiet, Fits(ing'), buf' \in Seq(Bytes), BufInv', LineInv', StateInv',
           Consumed' \in Nat, Consumed <= Consumed',
           \A n \in Consumed' .. Len(input.bytes) : Rest(First(n))' = Rest(First(n))
    PROVE  IngestInv'
<1>1. IngestTypeOK'
  BY DEF IngestInv, IngestTypeOK, Quiet, Fits
<1>2. MeaningInv'
  <2> SUFFICES ASSUME NEW n \in Consumed' .. Len(input.bytes)
               PROVE  Reference(First(n)') = After(payload', Rest(First(n))')
    BY DEF MeaningInv, Quiet
  <2>1. n \in Consumed .. Len(input.bytes)
    BY Types
  <2>2. Reference(First(n)) = After(payload, Rest(First(n)))
    BY <2>1 DEF IngestInv, MeaningInv
  <2>3. First(n)' = First(n)
    BY DEF First, Quiet
  <2> QED
    BY <2>2, <2>3 DEF Quiet
<1> QED
  BY <1>1, <1>2 DEF IngestInv

(* The line did not fit. *)
LEMMA OverflowStep ==
    ASSUME IngestInv, ing.state \in LineStates, Quiet, accumulate_line.r = "overflow",
           ing' = Failed, buf' = accumulate_line.rest
    PROVE  IngestInv'
<1>1. ing.state # "ERROR" /\ ing.state # "DONE"
  BY DEF LineStates
<1>2. Fits(ing)
  BY DEF IngestInv, IngestTypeOK, Fits
<1>3. Fits(ing')
  BY <1>2, FitsBasics
<1>4. ing'.state = "ERROR" /\ ing'.complete = ing.complete
  BY <1>2 DEF Failed, Fits, http_ingest_t
<1>5. buf' = <<>> /\ buf' \in Seq(Bytes) /\ Len(buf') = 0
  BY AccumulateCases, EmptySeq
<1>6. fed' = fed /\ len' = len /\ input' = input
  BY DEF Quiet
<1>7. Consumed' = fed /\ fed \in Nat /\ Consumed <= fed
  <2>1. Consumed' = fed - 0
    BY <1>5, <1>6 DEF Consumed
  <2> QED
    BY <2>1, Types
<1>8. BufInv'
  <2>1. len \in Nat
    BY IngestAssumption DEF IngestInv, IngestTypeOK
  <2> QED
    BY <2>1, <1>5, <1>6, <1>7 DEF BufInv
<1>9. LineInv'
  BY <1>4 DEF LineInv
<1>10. StateInv'
  BY <1>1, <1>4 DEF IngestInv, StateInv
<1>11. ASSUME NEW n \in fed .. Len(input.bytes) PROVE Rest(First(n))' = Rest(First(n))
  <2>1. TooLong(First(n), Start)
    BY <1>1, Overflows
  <2>2. n \in Nat /\ n <= Len(input.bytes) /\ input.bytes \in Seq(Bytes) /\ Start \in 1 .. n + 1
    BY <1>1, Types
  <2>3. First(n) \in Seq(Bytes) /\ Start \in 1 .. Len(First(n)) + 1
    BY <2>2, FirstIs
  <2>4. Rest(First(n)) = OfLine(First(n), Start, LineDone(First(n)))
    BY <2>3, RestOfLine DEF IngestInv
  <2>5. Rest(First(n)) = Verdict("error", <<>>)
    BY <2>1, <2>4 DEF OfLine
  <2>6. Rest(First(n))' = Verdict("error", <<>>)
    BY <1>4 DEF Rest
  <2> QED
    BY <2>5, <2>6
<1> QED
  BY <1>3, <1>5, <1>7, <1>8, <1>9, <1>10, <1>11, QuietStep

(* The buffer ends inside the line. *)
LEMMA MoreStep ==
    ASSUME IngestInv, ing.state \in LineStates, Quiet, accumulate_line.r = "more",
           ing' = [ing EXCEPT !.line = accumulate_line.line], buf' = accumulate_line.rest
    PROVE  IngestInv'
<1>1. ing.state # "ERROR" /\ ing.state # "DONE" /\ ing.state # "CHUNK_DATA"
  BY DEF LineStates
<1>2. Fits(ing)
  BY DEF IngestInv, IngestTypeOK, Fits
<1> DEFINE line == accumulate_line.line
<1>3. /\ buf' = <<>> /\ line \in Seq(Bytes) /\ Len(line) = LineLen + Len(buf)
      /\ Len(line) <= LineMax - 1
      /\ \A k \in 1 .. Len(line) : line[k] = input.bytes[Start - 1 + k] /\ line[k] # "LF"
  BY <1>1, GoesOn
<1> HIDE DEF line
<1>4. Fits(ing')
  BY <1>2, <1>3, FitsBasics DEF line
<1>5. ing'.state = ing.state /\ ing'.complete = ing.complete /\ ing'.line = line
  BY <1>2 DEF Fits, http_ingest_t, line
<1>6. buf' \in Seq(Bytes) /\ Len(buf') = 0
  BY <1>3, EmptySeq
<1>7. fed' = fed /\ len' = len /\ input' = input
  BY DEF Quiet
<1>8. Consumed' = fed /\ fed \in Nat /\ Consumed <= fed
  <2>1. Consumed' = fed - 0
    BY <1>6, <1>7 DEF Consumed
  <2> QED
    BY <2>1, Types
<1>9. LineLen' = LineLen + Len(buf)
  BY <1>3, <1>5 DEF LineLen
<1>10. Start' = Start /\ LineLen' <= Consumed'
  <2>1. Start' = fed - (LineLen + Len(buf)) + 1
    BY <1>8, <1>9 DEF Start
  <2> QED
    BY <2>1, <1>1, <1>8, <1>9, Types
<1>11. BufInv'
  <2>1. len \in Nat
    BY IngestAssumption DEF IngestInv, IngestTypeOK
  <2> QED
    BY <2>1, <1>6, <1>7, <1>8 DEF BufInv
<1>12. LineInv'
  BY <1>3, <1>5, <1>7, <1>9, <1>10 DEF LineInv
<1>13. StateInv'
  BY <1>1, <1>5, <1>10 DEF IngestInv, StateInv
<1>14. \A n \in fed .. Len(input.bytes) : Rest(First(n))' = Rest(First(n))
  <2> TAKE n \in fed .. Len(input.bytes)
  <2>1. First(n)' = First(n)
    BY <1>7 DEF First
  <2> QED
    BY <2>1, <1>1, <1>5, <1>10 DEF Rest, LineStates
<1> QED
  BY <1>4, <1>6, <1>8, <1>11, <1>12, <1>13, <1>14, QuietStep

(* The line is complete. *)
LEMMA DoneStep ==
    ASSUME IngestInv, ing.state \in LineStates, Quiet, accumulate_line.r = "line",
           buf' = accumulate_line.rest, Fits(ing'), ing'.complete <=> ing'.state = "DONE",
           ing'.state # "ERROR" => ing'.line = <<>>,
           ing'.state # "REQUEST_LINE",
           ing'.state = "CHUNK_DATA" => ing'.chunk_remaining > 0,
           \A s \in Seq(Bytes) :
              (/\ ~TooLong(s, Start) /\ LineEnd(s, Start) = Consumed'
               /\ LineAt(s, Start) = accumulate_line.line
               /\ ing'.state # "ERROR" => Start' = Consumed' + 1)
              => Rest(s)' = LineDone(s)
    PROVE  IngestInv'
<1>1. ing.state # "ERROR" /\ ing.state # "DONE"
  BY DEF LineStates
<1> DEFINE rest == accumulate_line.rest
<1>2. /\ rest \in Seq(Bytes) /\ Len(rest) < Len(buf)
      /\ \A k \in 1 .. Len(rest) : rest[k] = input.bytes[fed - Len(rest) + k]
      /\ \A n \in fed - Len(rest) .. Len(input.bytes) :
            /\ ~TooLong(First(n), Start)
            /\ LineEnd(First(n), Start) = fed - Len(rest)
            /\ LineAt(First(n), Start) = accumulate_line.line
  BY <1>1, Completes
<1>3. Len(rest) \in Nat
  BY <1>2, LenProperties
<1> HIDE DEF rest
<1>4. fed' = fed /\ len' = len /\ input' = input /\ buf' = rest
  BY DEF Quiet, rest
<1>5. Consumed' = fed - Len(rest)
  BY <1>4 DEF Consumed
<1>6. Consumed' \in Nat \ {0} /\ Consumed < Consumed' /\ Len(rest) <= fed
  BY <1>2, <1>3, <1>5, Types
<1>7. BufInv'
  <2>1. Len(buf) <= len /\ len \in Nat /\ fed \in Nat
    BY IngestAssumption, Types DEF IngestInv, IngestTypeOK, BufInv
  <2>2. Len(rest) <= len
    BY <2>1, <1>2, <1>3, Types
  <2> QED
    BY <2>2, <1>2, <1>4, <1>5, <1>6 DEF BufInv
<1>8. ing'.state # "ERROR" => LineLen' = 0 /\ Start' = Consumed' + 1
  <2>1. ing'.state # "ERROR" => LineLen' = 0
    BY EmptySeq DEF LineLen
  <2> QED
    BY <2>1, <1>6 DEF Start
<1>9. LineInv'
  BY <1>6, <1>8 DEF LineInv
<1>10. StateInv'
  BY DEF StateInv
<1>11. ASSUME NEW n \in Consumed' .. Len(input.bytes) PROVE Rest(First(n))' = Rest(First(n))
  <2>1. /\ ~TooLong(First(n), Start)
        /\ LineEnd(First(n), Start) = Consumed'
        /\ LineAt(First(n), Start) = accumulate_line.line
    BY <1>2, <1>5
  <2>2. n \in Nat /\ n <= Len(input.bytes) /\ input.bytes \in Seq(Bytes) /\ Start \in 1 .. n + 1
    BY <1>1, <1>6, Types
  <2>3. First(n) \in Seq(Bytes) /\ Start \in 1 .. Len(First(n)) + 1 /\ First(n)' = First(n)
    <3>1. First(n) \in Seq(Bytes) /\ Start \in 1 .. Len(First(n)) + 1
      BY <2>2, FirstIs
    <3>2. First(n)' = First(n)
      BY <1>4 DEF First
    <3> QED
      BY <3>1, <3>2
  <2>4. Rest(First(n)) = OfLine(First(n), Start, LineDone(First(n)))
    BY <2>3, RestOfLine DEF IngestInv
  <2>5. Rest(First(n)) = LineDone(First(n))
    BY <2>1, <2>4, <1>6 DEF OfLine
  <2> DEFINE s == First(n)
  <2>6. Rest(s)' = LineDone(s)
    BY <2>1, <2>3, <1>8
  <2> QED
    BY <2>5, <2>6
<1>12. Consumed' \in Nat /\ Consumed <= Consumed'
  BY <1>6, Types
<1>13. buf' \in Seq(Bytes)
  BY <1>2, <1>4
<1> QED
  BY <1>7, <1>9, <1>10, <1>11, <1>12, <1>13, QuietStep

-----------------------------------------------------------------------------
(* One lemma for each action *)

(* http_ingest.c:163-171. *)
LEMMA RequestLineStep ==
    ASSUME IngestInv, RequestLine
    PROVE  IngestInv'
<1> DEFINE line == accumulate_line.line
<1>1. ing.state = "REQUEST_LINE" /\ ing.state \in LineStates /\ Quiet /\ buf' = accumulate_line.rest
  BY DEF RequestLine, OnLine, Quiet, LineStates
<1>2. /\ accumulate_line.r = "overflow" => ing' = Failed
      /\ accumulate_line.r = "more" => ing' = [ing EXCEPT !.line = line]
      /\ accumulate_line.r \notin {"overflow", "more"} => ing' = parse_request_line(line)
  BY DEF RequestLine, OnLine
<1>3. CASE accumulate_line.r = "overflow"
  BY <1>1, <1>2, <1>3, OverflowStep
<1>4. CASE accumulate_line.r = "more"
  BY <1>1, <1>2, <1>4, MoreStep
<1>5. CASE accumulate_line.r = "line"
  <2>1. Fits(ing) /\ line \in Seq(Bytes) /\ ~ing.complete
    <3>1. line \in Seq(Bytes)
      BY <1>1, <1>5, Completes DEF LineStates
    <3> QED
      BY <3>1, <1>1 DEF IngestInv, IngestTypeOK, Fits, StateInv
  <2>2. ing' = parse_request_line(line)
    BY <1>2, <1>5
  <2>3. /\ GoodRequest(line) => ing'.state = "HEADER_LINE" /\ ing'.line = <<>>
        /\ ~GoodRequest(line) => ing'.state = "ERROR"
        /\ ing'.complete = ing.complete
    BY <2>1, <2>2, RequestIs
  <2>4. /\ Fits(ing') /\ (ing'.complete <=> ing'.state = "DONE")
        /\ ing'.state # "ERROR" => ing'.line = <<>>
        /\ ing'.state # "REQUEST_LINE"
        /\ ing'.state = "CHUNK_DATA" => ing'.chunk_remaining > 0
    BY <2>1, <2>2, <2>3, FitsRequest
  <2>5. \A s \in Seq(Bytes) :
           (/\ ~TooLong(s, Start) /\ LineEnd(s, Start) = Consumed'
            /\ LineAt(s, Start) = accumulate_line.line
            /\ ing'.state # "ERROR" => Start' = Consumed' + 1)
           => Rest(s)' = LineDone(s)
    <3> SUFFICES ASSUME NEW s \in Seq(Bytes),
                        LineEnd(s, Start) = Consumed', LineAt(s, Start) = line,
                        ing'.state # "ERROR" => Start' = Consumed' + 1
                 PROVE  Rest(s)' = LineDone(s)
      OBVIOUS
    <3>1. LineDone(s) = IF GoodRequest(line) THEN Headers(s)[Consumed' + 1]
                        ELSE Verdict("error", <<>>)
      BY <1>1 DEF LineDone
    <3>2. CASE GoodRequest(line)
      BY <3>1, <3>2, <2>3 DEF Rest
    <3>3. CASE ~GoodRequest(line)
      BY <3>1, <3>3, <2>3 DEF Rest
    <3> QED
      BY <3>2, <3>3
  <2> QED
    BY <1>1, <1>5, <2>4, <2>5, DoneStep
<1> QED
  BY <1>3, <1>4, <1>5, AccumulateCases

(* http_ingest.c:172-184. *)
LEMMA HeaderLineStep ==
    ASSUME IngestInv, HeaderLine
    PROVE  IngestInv'
<1> DEFINE line == accumulate_line.line
<1>1. ing.state = "HEADER_LINE" /\ ing.state \in LineStates /\ Quiet /\ buf' = accumulate_line.rest
  BY DEF HeaderLine, OnLine, Quiet, LineStates
<1>2. /\ accumulate_line.r = "overflow" => ing' = Failed
      /\ accumulate_line.r = "more" => ing' = [ing EXCEPT !.line = line]
      /\ accumulate_line.r \notin {"overflow", "more"} =>
            ing' = IF line = <<>> THEN Enter("CHUNK_SIZE") ELSE parse_header_line(line)
  BY DEF HeaderLine, OnLine
<1>3. CASE accumulate_line.r = "overflow"
  BY <1>1, <1>2, <1>3, OverflowStep
<1>4. CASE accumulate_line.r = "more"
  BY <1>1, <1>2, <1>4, MoreStep
<1>5. CASE accumulate_line.r = "line"
  <2>1. Fits(ing) /\ line \in Seq(Bytes) /\ ~ing.complete
    <3>1. line \in Seq(Bytes)
      BY <1>1, <1>5, Completes DEF LineStates
    <3> QED
      BY <3>1, <1>1 DEF IngestInv, IngestTypeOK, Fits, StateInv
  <2>2. ing' = IF line = <<>> THEN Enter("CHUNK_SIZE") ELSE parse_header_line(line)
    BY <1>2, <1>5
  <2>3. /\ ing'.state = IF line = <<>> THEN "CHUNK_SIZE" ELSE "HEADER_LINE"
        /\ ing'.line = <<>> /\ ing'.complete = ing.complete /\ Fits(ing')
    <3>1. CASE line = <<>>
      <4>1. ing' = Enter("CHUNK_SIZE")
        BY <3>1, <2>2
      <4>2. Fits(ing')
        BY <4>1, <2>1, FitsBasics DEF IngestStates
      <4> QED
        BY <4>1, <4>2, <3>1, <2>1 DEF Enter, Fits, http_ingest_t
    <3>2. CASE line # <<>>
      <4>1. ing' = parse_header_line(line)
        BY <3>2, <2>2
      <4> QED
        BY <4>1, <3>2, <2>1, FitsHeader, HeaderIs
    <3> QED
      BY <3>1, <3>2
  <2>4. /\ Fits(ing') /\ (ing'.complete <=> ing'.state = "DONE")
        /\ ing'.state # "ERROR" => ing'.line = <<>>
        /\ ing'.state # "REQUEST_LINE"
        /\ ing'.state = "CHUNK_DATA" => ing'.chunk_remaining > 0
    BY <2>1, <2>3
  <2>5. \A s \in Seq(Bytes) :
           (/\ ~TooLong(s, Start) /\ LineEnd(s, Start) = Consumed'
            /\ LineAt(s, Start) = accumulate_line.line
            /\ ing'.state # "ERROR" => Start' = Consumed' + 1)
           => Rest(s)' = LineDone(s)
    <3> SUFFICES ASSUME NEW s \in Seq(Bytes),
                        LineEnd(s, Start) = Consumed', LineAt(s, Start) = line,
                        ing'.state # "ERROR" => Start' = Consumed' + 1
                 PROVE  Rest(s)' = LineDone(s)
      OBVIOUS
    <3>1. LineDone(s) = IF line = <<>> THEN Body(s)[Consumed' + 1] ELSE Headers(s)[Consumed' + 1]
      BY <1>1 DEF LineDone
    <3>2. CASE line = <<>>
      BY <3>1, <3>2, <2>3 DEF Rest
    <3>3. CASE line # <<>>
      BY <3>1, <3>3, <2>3 DEF Rest
    <3> QED
      BY <3>2, <3>3
  <2> QED
    BY <1>1, <1>5, <2>4, <2>5, DoneStep
<1> QED
  BY <1>3, <1>4, <1>5, AccumulateCases

(* http_ingest.c:185-199. *)
LEMMA ChunkSizeStep ==
    ASSUME IngestInv, ChunkSize
    PROVE  IngestInv'
<1> DEFINE line == accumulate_line.line
<1>1. ing.state = "CHUNK_SIZE" /\ ing.state \in LineStates /\ Quiet /\ buf' = accumulate_line.rest
  BY DEF ChunkSize, OnLine, Quiet, LineStates
<1>2. /\ accumulate_line.r = "overflow" => ing' = Failed
      /\ accumulate_line.r = "more" => ing' = [ing EXCEPT !.line = line]
      /\ accumulate_line.r \notin {"overflow", "more"} => ing' = LET sz == parse_chunk_size(line)
             IN  IF sz = SizeMod - 1 THEN Failed
                 ELSE IF sz = 0 THEN Enter("TRAILER")
                 ELSE [Enter("CHUNK_DATA") EXCEPT !.chunk_remaining = sz]
  BY DEF ChunkSize, OnLine
<1>3. CASE accumulate_line.r = "overflow"
  BY <1>1, <1>2, <1>3, OverflowStep
<1>4. CASE accumulate_line.r = "more"
  BY <1>1, <1>2, <1>4, MoreStep
<1>5. CASE accumulate_line.r = "line"
  <2>1. Fits(ing) /\ line \in Seq(Bytes) /\ ~ing.complete
    <3>1. line \in Seq(Bytes)
      BY <1>1, <1>5, Completes DEF LineStates
    <3> QED
      BY <3>1, <1>1 DEF IngestInv, IngestTypeOK, Fits, StateInv
  <2>2. ing' = LET sz == parse_chunk_size(line)
             IN  IF sz = SizeMod - 1 THEN Failed
                 ELSE IF sz = 0 THEN Enter("TRAILER")
                 ELSE [Enter("CHUNK_DATA") EXCEPT !.chunk_remaining = sz]
    BY <1>2, <1>5
  <2> DEFINE sz == parse_chunk_size(line)
  <2>3. sz \in 0 .. SizeMod - 1
    BY <2>1, ParsedInRange
  <2> HIDE DEF sz
  <2>4. CASE sz = SizeMod - 1
    <3>1. ing' = Failed
      BY <2>2, <2>4 DEF sz
    <3>2. ing'.state = "ERROR" /\ ing'.complete = ing.complete /\ Fits(ing')
      BY <3>1, <2>1, FitsBasics DEF Failed, Fits, http_ingest_t
    <3>3. \A s \in Seq(Bytes) :
           (/\ ~TooLong(s, Start) /\ LineEnd(s, Start) = Consumed'
            /\ LineAt(s, Start) = accumulate_line.line
            /\ ing'.state # "ERROR" => Start' = Consumed' + 1)
           => Rest(s)' = LineDone(s)
      BY <3>2, <2>4, <1>1 DEF Rest, LineDone, SizeAt, sz
    <3> QED
      BY <1>1, <1>5, <3>2, <3>3, <2>1, DoneStep
  <2>5. CASE sz # SizeMod - 1 /\ sz = 0
    <3>1. ing' = Enter("TRAILER")
      BY <2>2, <2>5 DEF sz
    <3>2. ing'.state = "TRAILER" /\ ing'.line = <<>> /\ ing'.complete = ing.complete /\ Fits(ing')
      BY <3>1, <2>1, FitsBasics DEF Enter, Fits, http_ingest_t, IngestStates
    <3>3. \A s \in Seq(Bytes) :
           (/\ ~TooLong(s, Start) /\ LineEnd(s, Start) = Consumed'
            /\ LineAt(s, Start) = accumulate_line.line
            /\ ing'.state # "ERROR" => Start' = Consumed' + 1)
           => Rest(s)' = LineDone(s)
      BY <3>2, <2>5, <1>1 DEF Rest, LineDone, SizeAt, sz
    <3> QED
      BY <1>1, <1>5, <3>2, <3>3, <2>1, DoneStep
  <2>6. CASE sz # SizeMod - 1 /\ sz # 0
    <3>1. ing' = [Enter("CHUNK_DATA") EXCEPT !.chunk_remaining = sz]
      BY <2>2, <2>6 DEF sz
    <3>2. Fits(Enter("CHUNK_DATA"))
      BY <2>1, FitsBasics DEF IngestStates
    <3>3. /\ ing'.state = "CHUNK_DATA" /\ ing'.line = <<>> /\ ing'.complete = ing.complete
          /\ ing'.chunk_remaining = sz /\ sz > 0
      BY <3>1, <2>1, <2>3, <2>6, IngestAssumption DEF Enter, Fits, http_ingest_t
    <3>4. Fits(ing')
      BY <3>1, <3>2, <2>3 DEF Fits, http_ingest_t
    <3>5. \A s \in Seq(Bytes) :
           (/\ ~TooLong(s, Start) /\ LineEnd(s, Start) = Consumed'
            /\ LineAt(s, Start) = accumulate_line.line
            /\ ing'.state # "ERROR" => Start' = Consumed' + 1)
           => Rest(s)' = LineDone(s)
      <4> SUFFICES ASSUME NEW s \in Seq(Bytes),
                          LineEnd(s, Start) = Consumed', LineAt(s, Start) = line,
                          ing'.state # "ERROR" => Start' = Consumed' + 1
                   PROVE  Rest(s)' = LineDone(s)
        OBVIOUS
      <4>1. SizeAt(s, Start) = sz
        BY DEF SizeAt, sz
      <4>2. LineDone(s) = DataAt(s, LineEnd(s, Start) + 1, sz, Body(s))
        BY <4>1, <2>6, <1>1 DEF LineDone
      <4>3. Rest(s)' = DataAt(s, Consumed' + 1, sz, Body(s))
        BY <3>3 DEF Rest
      <4> QED
        BY <4>2, <4>3
    <3> QED
      BY <1>1, <1>5, <3>3, <3>4, <3>5, <2>1, DoneStep
  <2> QED
    BY <2>4, <2>5, <2>6
<1> QED
  BY <1>3, <1>4, <1>5, AccumulateCases

(* http_ingest.c:213-221. *)
LEMMA ChunkCrlfStep ==
    ASSUME IngestInv, ChunkCrlf
    PROVE  IngestInv'
<1> DEFINE line == accumulate_line.line
<1>1. ing.state = "CHUNK_CRLF" /\ ing.state \in LineStates /\ Quiet /\ buf' = accumulate_line.rest
  BY DEF ChunkCrlf, OnLine, Quiet, LineStates
<1>2. /\ accumulate_line.r = "overflow" => ing' = Failed
      /\ accumulate_line.r = "more" => ing' = [ing EXCEPT !.line = line]
      /\ accumulate_line.r \notin {"overflow", "more"} =>
            ing' = IF line # <<>> THEN Failed ELSE Enter("CHUNK_SIZE")
  BY DEF ChunkCrlf, OnLine
<1>3. CASE accumulate_line.r = "overflow"
  BY <1>1, <1>2, <1>3, OverflowStep
<1>4. CASE accumulate_line.r = "more"
  BY <1>1, <1>2, <1>4, MoreStep
<1>5. CASE accumulate_line.r = "line"
  <2>1. Fits(ing) /\ line \in Seq(Bytes) /\ ~ing.complete
    <3>1. line \in Seq(Bytes)
      BY <1>1, <1>5, Completes DEF LineStates
    <3> QED
      BY <3>1, <1>1 DEF IngestInv, IngestTypeOK, Fits, StateInv
  <2>2. ing' = IF line # <<>> THEN Failed ELSE Enter("CHUNK_SIZE")
    BY <1>2, <1>5
  <2>3. CASE line # <<>>
    <3>1. ing' = Failed
      BY <2>2, <2>3
    <3>2. ing'.state = "ERROR" /\ ing'.complete = ing.complete /\ Fits(ing')
      BY <3>1, <2>1, FitsBasics DEF Failed, Fits, http_ingest_t
    <3>3. \A s \in Seq(Bytes) :
           (/\ ~TooLong(s, Start) /\ LineEnd(s, Start) = Consumed'
            /\ LineAt(s, Start) = accumulate_line.line
            /\ ing'.state # "ERROR" => Start' = Consumed' + 1)
           => Rest(s)' = LineDone(s)
      BY <3>2, <2>3, <1>1 DEF Rest, LineDone
    <3> QED
      BY <1>1, <1>5, <3>2, <3>3, <2>1, DoneStep
  <2>4. CASE line = <<>>
    <3>1. ing' = Enter("CHUNK_SIZE")
      BY <2>2, <2>4
    <3>2. ing'.state = "CHUNK_SIZE" /\ ing'.line = <<>> /\ ing'.complete = ing.complete /\ Fits(ing')
      BY <3>1, <2>1, FitsBasics DEF Enter, Fits, http_ingest_t, IngestStates
    <3>3. \A s \in Seq(Bytes) :
           (/\ ~TooLong(s, Start) /\ LineEnd(s, Start) = Consumed'
            /\ LineAt(s, Start) = accumulate_line.line
            /\ ing'.state # "ERROR" => Start' = Consumed' + 1)
           => Rest(s)' = LineDone(s)
      BY <3>2, <2>4, <1>1 DEF Rest, LineDone
    <3> QED
      BY <1>1, <1>5, <3>2, <3>3, <2>1, DoneStep
  <2> QED
    BY <2>3, <2>4
<1> QED
  BY <1>3, <1>4, <1>5, AccumulateCases

(* http_ingest.c:222-231. *)
LEMMA TrailerStep ==
    ASSUME IngestInv, Trailer
    PROVE  IngestInv'
<1> DEFINE line == accumulate_line.line
<1>1. ing.state = "TRAILER" /\ ing.state \in LineStates /\ Quiet /\ buf' = accumulate_line.rest
  BY DEF Trailer, OnLine, Quiet, LineStates
<1>2. /\ accumulate_line.r = "overflow" => ing' = Failed
      /\ accumulate_line.r = "more" => ing' = [ing EXCEPT !.line = line]
      /\ accumulate_line.r \notin {"overflow", "more"} =>
            ing' = [Enter("DONE") EXCEPT !.complete = TRUE]
  BY DEF Trailer, OnLine
<1>3. CASE accumulate_line.r = "overflow"
  BY <1>1, <1>2, <1>3, OverflowStep
<1>4. CASE accumulate_line.r = "more"
  BY <1>1, <1>2, <1>4, MoreStep
<1>5. CASE accumulate_line.r = "line"
  <2>1. Fits(ing) /\ line \in Seq(Bytes) /\ ~ing.complete
    <3>1. line \in Seq(Bytes)
      BY <1>1, <1>5, Completes DEF LineStates
    <3> QED
      BY <3>1, <1>1 DEF IngestInv, IngestTypeOK, Fits, StateInv
  <2>2. ing' = [Enter("DONE") EXCEPT !.complete = TRUE]
    BY <1>2, <1>5
  <2>3. Fits(Enter("DONE"))
    BY <2>1, FitsBasics DEF IngestStates
  <2>4. ing'.state = "DONE" /\ ing'.line = <<>> /\ ing'.complete /\ Fits(ing')
    BY <2>2, <2>3 DEF Enter, Fits, http_ingest_t
  <2>5. \A s \in Seq(Bytes) :
           (/\ ~TooLong(s, Start) /\ LineEnd(s, Start) = Consumed'
            /\ LineAt(s, Start) = accumulate_line.line
            /\ ing'.state # "ERROR" => Start' = Consumed' + 1)
           => Rest(s)' = LineDone(s)
    BY <2>4, <1>1 DEF Rest, LineDone
  <2> QED
    BY <1>1, <1>5, <2>4, <2>5, DoneStep
<1> QED
  BY <1>3, <1>4, <1>5, AccumulateCases

(* What follows a chunk's data has a verdict. *)
LEMMA CrlfAtType ==
    ASSUME NEW s \in Seq(Bytes), NEW i \in Nat \ {0}
    PROVE  CrlfAt(s, i, Body(s)) \in Verdicts
<1>1. CASE TooLong(s, i) \/ LineEnd(s, i) = 0 \/ LineAt(s, i) # <<>>
  BY <1>1, VerdictTypes DEF CrlfAt, OfLine
<1>2. CASE ~TooLong(s, i) /\ LineEnd(s, i) # 0 /\ LineAt(s, i) = <<>>
  <2>1. LineEnd(s, i) \in i .. Len(s) /\ Len(s) \in Nat
    BY <1>2, LineEndIs, LenProperties
  <2>2. LineEnd(s, i) + 1 \in 1 .. Len(s) + 1
    BY <2>1
  <2>3. Body(s)[LineEnd(s, i) + 1] \in Verdicts
    BY <2>2, BodyIs
  <2> QED
    BY <2>3, <1>2 DEF CrlfAt, OfLine
<1> QED
  BY <1>1, <1>2

LEMMA AfterAfter ==
    ASSUME NEW p \in Seq(Bytes), NEW q \in Seq(Bytes), NEW v \in Verdicts
    PROVE  After(p \o q, v) = After(p, After(q, v))
<1> DEFINE w == v.payload
<1>1. w \in Seq(Bytes)
  BY DEF Verdicts
<1> HIDE DEF w
<1>2. (p \o q) \o w = p \o (q \o w)
  BY <1>1, ConcatAssociative
<1>3. After(p \o q, v) = Verdict(v.verdict, (p \o q) \o w)
  BY DEF After, w
<1>4. After(p, After(q, v)) = Verdict(v.verdict, p \o (q \o w))
  BY DEF After, Verdict, w
<1> QED
  BY <1>2, <1>3, <1>4

(* The data of a chunk may be read in two parts. *)
LEMMA DataSplit ==
    ASSUME NEW s \in Seq(Bytes), NEW i \in Nat \ {0}, NEW size \in Nat, NEW k \in Nat,
           k < size, i + k - 1 <= Len(s)
    PROVE  /\ DataAt(s, i + k, size - k, Body(s)) \in Verdicts
           /\ DataAt(s, i, size, Body(s))
                = After(SubSeq(s, i, i + k - 1), DataAt(s, i + k, size - k, Body(s)))
<1> DEFINE L == Len(s)
<1>1. L \in Nat
  BY LenProperties
<1> HIDE DEF L
<1>2. /\ i \in 1 .. L + 1 /\ i + k - 1 \in i - 1 .. L
      /\ i + k \in Nat \ {0} /\ (i + k - 1) + 1 = i + k /\ i + k + (size - k) - 1 = i + size - 1
      /\ i + k + (size - k) = i + size /\ i + size \in Nat \ {0}
      /\ i + k - 1 \in Nat /\ i + k - 1 <= L
  BY <1>1 DEF L
<1>3. SubSeq(s, i, i + k - 1) \in Seq(Bytes)
  BY <1>2, SubSeqIs DEF L
<1>4. CASE L < i + size - 1
  <2>1. L \in i + k - 1 .. L /\ L <= L
    BY <1>1, <1>2
  <2>2. SubSeq(s, i, i + k - 1) \o SubSeq(s, i + k, L) = SubSeq(s, i, L)
    BY <2>1, <1>2, ConcatAdjacentSubSeq DEF L
  <2>3. SubSeq(s, i + k, L) \in Seq(Bytes)
    BY <2>1, <1>1, <1>2, SubSeqIs DEF L
  <2>4. DataAt(s, i + k, size - k, Body(s)) = Verdict("more", SubSeq(s, i + k, L))
    BY <1>2, <1>4 DEF DataAt, L
  <2>5. DataAt(s, i, size, Body(s)) = Verdict("more", SubSeq(s, i, L))
    BY <1>4 DEF DataAt, L
  <2>6. Verdict("more", SubSeq(s, i + k, L)) \in Verdicts
    BY <2>3, VerdictTypes
  <2>7. After(SubSeq(s, i, i + k - 1), Verdict("more", SubSeq(s, i + k, L)))
          = Verdict("more", SubSeq(s, i, i + k - 1) \o SubSeq(s, i + k, L))
    BY DEF After, Verdict
  <2> QED
    BY <2>2, <2>4, <2>5, <2>6, <2>7
<1>5. CASE ~(L < i + size - 1)
  <2> DEFINE C == CrlfAt(s, i + size, Body(s))
             d1 == SubSeq(s, i, i + k - 1)
             d2 == SubSeq(s, i + k, i + size - 1)
  <2>1. i + size - 1 \in i + k - 1 .. L /\ i + size - 1 \in Nat /\ i + size - 1 <= L
    BY <1>1, <1>2, <1>5
  <2>2. d1 \o d2 = SubSeq(s, i, i + size - 1)
    BY <2>1, <1>2, ConcatAdjacentSubSeq DEF L
  <2>3. d2 \in Seq(Bytes)
    BY <2>1, <1>2, SubSeqIs DEF L
  <2>4. C \in Verdicts
    BY <1>2, CrlfAtType
  <2>5. DataAt(s, i + k, size - k, Body(s)) = After(d2, C)
    BY <1>2, <1>5 DEF DataAt, L
  <2>6. DataAt(s, i, size, Body(s)) = After(SubSeq(s, i, i + size - 1), C)
    BY <1>5 DEF DataAt, L
  <2> HIDE DEF C, d2
  <2>7. After(d1 \o d2, C) = After(d1, After(d2, C)) /\ After(d2, C) \in Verdicts
    BY <2>3, <2>4, <1>3, AfterAfter, VerdictTypes
  <2> QED
    BY <2>2, <2>5, <2>6, <2>7
<1> QED
  BY <1>4, <1>5

LEMMA DecodeType ==
    ASSUME NEW span \in Seq(Bytes)
    PROVE  Decode(span) \in Seq(Bytes \X Bytes)
<1>1. Len(span) \in Nat
  BY LenProperties
<1> DEFINE h == Len(span) \div 2
<1>2. h \in Nat /\ 2 * h <= Len(span)
  BY <1>1
<1>3. \A i \in 1 .. h : 2 * i - 1 \in 1 .. Len(span) /\ 2 * i \in 1 .. Len(span)
  BY <1>1, <1>2
<1>4. \A i \in 1 .. h : span[2 * i - 1] \in Bytes /\ span[2 * i] \in Bytes
  BY <1>3, ElementOfSeq
<1>5. Decode(span) = [i \in 1 .. h |-> <<span[2 * i - 1], span[2 * i]>>]
  BY DEF Decode
<1> HIDE DEF h
<1>6. [i \in 1 .. h |-> <<span[2 * i - 1], span[2 * i]>>] \in Seq(Bytes \X Bytes)
  BY <1>2, <1>4
<1> QED
  BY <1>5, <1>6

(* http_ingest.c:200-212. *)
LEMMA ChunkDataStep ==
    ASSUME IngestInv, ChunkData
    PROVE  IngestInv'
<1> USE IngestAssumption
<1> DEFINE k == SpanLength
           r == ing.chunk_remaining
           span == Take(buf, k)
           rest == Drop(buf, k)
           N == Len(buf)
<1>1. /\ ing.state = "CHUNK_DATA" /\ buf # <<>> /\ buf' = rest
      /\ payload' = payload \o span /\ samples' = samples \o Decode(span)
      /\ input' = input /\ fed' = fed /\ len' = len /\ ret' = ret
      /\ ing' = [ing EXCEPT !.chunk_remaining = @ - k,
                            !.state = IF k = r THEN "CHUNK_CRLF" ELSE @]
  BY DEF ChunkData
<1>2. /\ r \in 0 .. SizeMod - 1 /\ r > 0 /\ ing.line = <<>> /\ ~ing.complete
      /\ ing \in http_ingest_t /\ samples \in Seq(Bytes \X Bytes) /\ Fits(ing)
  BY <1>1 DEF IngestInv, IngestTypeOK, StateInv, http_ingest_t, Fits
<1>3. N \in Nat /\ N <= fed /\ buf \in Seq(Bytes) /\ payload \in Seq(Bytes)
  BY Types
<1>4. k \in Nat /\ k <= N /\ k <= r
  BY <1>2, <1>3 DEF SpanLength, Least
<1> HIDE DEF k, N
<1>5. /\ span \in Seq(Bytes) /\ Len(span) = k /\ \A i \in 1 .. k : span[i] = buf[i]
  BY <1>3, <1>4, TakeIs DEF N
<1>6. /\ rest \in Seq(Bytes) /\ Len(rest) = N - k /\ \A i \in 1 .. N - k : rest[i] = buf[k + i]
  BY <1>3, <1>4, DropIs DEF N
<1>7. payload' \in Seq(Bytes) /\ samples' \in Seq(Bytes \X Bytes)
  BY <1>1, <1>2, <1>3, <1>5, DecodeType, ConcatProperties
<1> HIDE DEF span, rest
<1>8. /\ ing'.state = (IF k = r THEN "CHUNK_CRLF" ELSE "CHUNK_DATA")
      /\ ing'.chunk_remaining = r - k /\ ing'.line = <<>> /\ ing'.complete = ing.complete
  BY <1>1, <1>2 DEF http_ingest_t
<1>9. r - k \in 0 .. SizeMod - 1 /\ (k # r => r - k > 0)
  BY <1>2, <1>4
<1>10. Fits(ing')
  <2> DEFINE rk == r - k
             st == IF k = r THEN "CHUNK_CRLF" ELSE "CHUNK_DATA"
  <2>1. st \in IngestStates
    BY DEF IngestStates
  <2>2. ing' = [ing EXCEPT !.chunk_remaining = rk, !.state = st]
    BY <1>1
  <2>3. rk \in 0 .. SizeMod - 1
    BY <1>9
  <2> HIDE DEF rk, st
  <2> QED
    BY <2>1, <2>2, <2>3, <1>2 DEF Fits, http_ingest_t
<1>11. IngestTypeOK'
  BY <1>1, <1>6, <1>7, <1>10 DEF IngestInv, IngestTypeOK, Fits
<1>12. Consumed' = Consumed + k /\ Consumed' \in Nat /\ Consumed \in Nat /\ fed \in Nat
       /\ fed <= Len(input.bytes) /\ Len(input.bytes) \in Nat
  <2>1. Consumed' = fed - (N - k)
    BY <1>1, <1>6 DEF Consumed
  <2>2. Consumed = fed - N
    BY DEF Consumed, N
  <2>3. fed \in Nat /\ fed <= Len(input.bytes) /\ Len(input.bytes) \in Nat
    BY Types
  <2> QED
    BY <2>1, <2>2, <2>3, <1>3, <1>4
<1>13. LineLen' = 0 /\ Start' = Consumed + k + 1
  <2>1. LineLen' = 0
    BY <1>8, EmptySeq DEF LineLen
  <2> QED
    BY <2>1, <1>12, <1>4 DEF Start
<1>14. BufInv'
  <2>1. N <= len /\ len \in Nat /\ \A i \in 1 .. N : buf[i] = input.bytes[Consumed + i]
    BY DEF IngestInv, BufInv, IngestTypeOK, N
  <2>2. N - k <= len /\ N - k <= fed
    BY <2>1, <1>3, <1>4, <1>12
  <2>3. ASSUME NEW i \in 1 .. N - k PROVE rest[i] = input.bytes[Consumed + k + i]
    <3>1. k + i \in 1 .. N /\ Consumed + (k + i) = Consumed + k + i
      BY <1>3, <1>4, <1>12
    <3> QED
      BY <3>1, <2>1, <1>6
  <2> QED
    BY <2>2, <2>3, <1>1, <1>6, <1>12 DEF BufInv
<1>15. LineInv'
  BY <1>12, <1>13 DEF LineInv
<1>16. StateInv'
  BY <1>2, <1>8, <1>9 DEF StateInv
<1>17. MeaningInv'
  <2> SUFFICES ASSUME NEW n \in Consumed + k .. Len(input.bytes)
               PROVE  Reference(First(n)') = After(payload', Rest(First(n))')
    BY <1>1, <1>12 DEF MeaningInv
  <2> DEFINE s == First(n)
             c == Consumed
             X == IF k = r THEN CrlfAt(s, c + k + 1, Body(s))
                  ELSE DataAt(s, c + 1 + k, r - k, Body(s))
  <2>1. n \in Nat /\ n <= Len(input.bytes) /\ input.bytes \in Seq(Bytes)
        /\ n \in c .. Len(input.bytes) /\ c + k <= n
    BY <1>4, <1>12, Types
  <2>2. s \in Seq(Bytes) /\ Len(s) = n /\ \A i \in 1 .. n : s[i] = input.bytes[i]
    BY <2>1, FirstIs
  <2>3. Reference(s) = After(payload, Rest(s))
    BY <2>1 DEF IngestInv, MeaningInv
  <2>4. Rest(s) = DataAt(s, c + 1, r, Body(s))
    BY <1>1 DEF Rest
  <2>5. First(n)' = s
    BY <1>1 DEF First
  <2>6. Rest(First(n))' = X
    <3>1. CASE k = r
      BY <3>1, <1>8, <1>13, <2>5 DEF Rest
    <3>2. CASE k # r
      <4>1. Rest(First(n))' = DataAt(s, Consumed' + 1, r - k, Body(s))
        BY <3>2, <1>8, <2>5 DEF Rest
      <4>2. Consumed' + 1 = c + 1 + k
        BY <1>4, <1>12
      <4> QED
        BY <3>2, <4>1, <4>2
    <3> QED
      BY <3>1, <3>2
  <2> HIDE DEF s
  <2>7. SubSeq(s, c + 1, c + k) = span
    <3>1. c + 1 \in Nat \ {0} /\ c + k \in Nat /\ c + k <= Len(s)
      BY <1>4, <1>12, <2>1, <2>2
    <3> DEFINE a == c + 1
               b == c + k
    <3> HIDE DEF a, b
    <3>a. a \in Nat \ {0} /\ b \in Nat /\ b <= Len(s)
      BY <3>1 DEF a, b
    <3>b. /\ SubSeq(s, a, b) \in Seq(Bytes)
          /\ Len(SubSeq(s, a, b)) = IF a <= b THEN b - a + 1 ELSE 0
          /\ \A i \in 1 .. b - a + 1 : SubSeq(s, a, b)[i] = s[a + i - 1]
      BY <3>a, <2>2, SubSeqIs
    <3>2. Len(SubSeq(s, a, b)) = k /\ b - a + 1 = k
      <4>1. b - a + 1 = k /\ (~(a <= b) => k = 0)
        BY <1>4, <1>12 DEF a, b
      <4> QED
        BY <4>1, <3>b
    <3>3. ASSUME NEW i \in 1 .. k PROVE SubSeq(s, a, b)[i] = span[i]
      <4>1. a + i - 1 = c + i /\ c + i \in 1 .. n /\ i \in 1 .. N
        BY <2>1, <1>3, <1>4, <1>12 DEF a
      <4>2. buf[i] = input.bytes[c + i]
        BY <4>1 DEF IngestInv, BufInv, N
      <4> QED
        BY <4>1, <4>2, <3>b, <3>2, <2>2, <1>5
    <3>4. SubSeq(s, a, b) = span
      BY <3>b, <3>2, <3>3, <1>5, SeqEqual
    <3> QED
      BY <3>4 DEF a, b
  <2>8. X \in Verdicts /\ DataAt(s, c + 1, r, Body(s)) = After(span, X)
    <3>1. CASE k = r
      <4>1. ~(Len(s) < c + 1 + r - 1) /\ c + 1 + r - 1 = c + k /\ c + 1 + r = c + k + 1
            /\ c + k + 1 \in Nat \ {0}
        <5>1. k \in Nat /\ c \in Nat /\ Len(s) = n /\ n \in Nat /\ c + k <= n
          BY <1>4, <1>12, <2>1, <2>2
        <5> QED
          BY <5>1, <3>1
      <4>2. DataAt(s, c + 1, r, Body(s)) = After(span, CrlfAt(s, c + k + 1, Body(s)))
        BY <4>1, <2>7 DEF DataAt
      <4> QED
        BY <4>1, <4>2, <3>1, <2>2, CrlfAtType
    <3>2. CASE k # r
      <4>1. c + 1 \in Nat \ {0} /\ r \in Nat /\ k < r /\ c + 1 + k - 1 <= Len(s)
            /\ c + 1 + k - 1 = c + k
        BY <3>2, <1>2, <1>4, <1>12, <2>1, <2>2
      <4>2. /\ DataAt(s, c + 1 + k, r - k, Body(s)) \in Verdicts
            /\ DataAt(s, c + 1, r, Body(s))
                 = After(SubSeq(s, c + 1, c + 1 + k - 1), DataAt(s, c + 1 + k, r - k, Body(s)))
        BY <4>1, <1>4, <2>2, DataSplit
      <4> QED
        BY <4>1, <4>2, <3>2, <2>7
    <3> QED
      BY <3>1, <3>2
  <2> HIDE DEF X
  <2>9. After(payload \o span, X) = After(payload, After(span, X))
    BY <2>8, <1>3, <1>5, AfterAfter
  <2>10. Reference(s) = After(payload \o span, X)
    BY <2>3, <2>4, <2>8, <2>9
  <2> QED
    BY <2>5, <2>6, <2>10, <1>1
<1> QED
  BY <1>11, <1>14, <1>15, <1>16, <1>17 DEF IngestInv

LEMMA ReferenceType ==
    ASSUME NEW s \in Seq(Bytes)
    PROVE  Reference(s) \in Verdicts
<1>1. Len(s) \in Nat
  BY LenProperties
<1>2. CASE TooLong(s, 1) \/ LineEnd(s, 1) = 0 \/ ~GoodRequest(LineAt(s, 1))
  BY <1>2, VerdictTypes DEF Reference, OfLine
<1>3. CASE ~TooLong(s, 1) /\ LineEnd(s, 1) # 0 /\ GoodRequest(LineAt(s, 1))
  <2>1. LineEnd(s, 1) + 1 \in 1 .. Len(s) + 1
    <3>1. LineEnd(s, 1) \in 1 .. Len(s)
      BY <1>1, <1>3, LineEndIs
    <3> QED
      BY <3>1, <1>1
  <2>2. Headers(s)[LineEnd(s, 1) + 1] \in Verdicts
    BY <2>1, HeadersIs
  <2> QED
    BY <2>2, <1>3 DEF Reference, OfLine
<1> QED
  BY <1>2, <1>3

LEMMA AfterNothing ==
    ASSUME NEW p \in Seq(Bytes), NEW v \in Verdicts
    PROVE  /\ After(<<>>, v) = v
           /\ \A w : After(p, Verdict(w, <<>>)) = Verdict(w, p)
<1> DEFINE q == v.payload
<1>1. q \in Seq(Bytes) /\ v = [verdict |-> v.verdict, payload |-> q]
  BY DEF Verdicts
<1> HIDE DEF q
<1>2. <<>> \o q = q /\ p \o <<>> = p
  BY <1>1, ConcatEmptySeq
<1>3. After(<<>>, v) = Verdict(v.verdict, <<>> \o q)
  BY DEF After, q
<1>4. \A w : After(p, Verdict(w, <<>>)) = Verdict(w, p \o <<>>)
  BY DEF After, Verdict
<1> QED
  BY <1>1, <1>2, <1>3, <1>4 DEF Verdict

(* The parser and the reference start together. *)
LEMMA IngestStarts ==
    ASSUME IngestInit
    PROVE  IngestInv
<1> USE IngestAssumption
<1>1. /\ input \in Inputs /\ fed = 0 /\ len = 0 /\ buf = <<>> /\ ret = 0 /\ ing = http_ingest_init
      /\ payload = <<>> /\ samples = <<>>
  BY DEF IngestInit
<1>2. input.bytes \in Seq(Bytes) /\ Len(input.bytes) \in Nat
  <2>1. input.bytes \in Seq(Bytes)
    BY <1>1
  <2> QED
    BY <2>1, LenProperties
<1>3. <<>> \in Seq(Bytes) /\ Len(<<>>) = 0 /\ <<>> \in Seq(Bytes \X Bytes)
  BY EmptySeq
<1>4. Fits(ing)
  BY <1>1, <1>3 DEF Fits, http_ingest_init, http_ingest_t, IngestStates
<1>5. /\ ing.state = "REQUEST_LINE" /\ ing.line = <<>> /\ ing.complete = FALSE
  BY <1>1 DEF http_ingest_init
<1>6. IngestTypeOK
  BY <1>1, <1>2, <1>3, <1>4 DEF IngestTypeOK, Fits
<1>7. Consumed = 0 /\ LineLen = 0 /\ Start = 1
  <2>1. Len(buf) = 0 /\ fed = 0
    BY <1>1, <1>3
  <2>2. Consumed = 0
    BY <2>1 DEF Consumed
  <2>3. LineLen = 0
    BY <1>3, <1>5 DEF LineLen
  <2> QED
    BY <2>2, <2>3 DEF Start
<1>8. BufInv
  BY <1>1, <1>3, <1>7 DEF BufInv
<1>9. LineInv
  BY <1>7 DEF LineInv
<1>10. StateInv
  BY <1>5, <1>7 DEF StateInv
<1>11. MeaningInv
  <2> SUFFICES ASSUME NEW n \in 0 .. Len(input.bytes)
               PROVE  Reference(First(n)) = After(payload, Rest(First(n)))
    BY <1>7 DEF MeaningInv
  <2>1. First(n) \in Seq(Bytes)
    BY <1>2, FirstIs
  <2>2. Rest(First(n)) = Reference(First(n))
    BY <1>5 DEF Rest
  <2>3. After(<<>>, Reference(First(n))) = Reference(First(n))
    BY <2>1, <1>3, ReferenceType, AfterNothing
  <2> QED
    BY <2>2, <2>3, <1>1
<1> QED
  BY <1>6, <1>8, <1>9, <1>10, <1>11 DEF IngestInv

(* Between two calls nothing is left in the buffer. *)
LEMMA BetweenCalls ==
    ASSUME IngestInv, ~Calling
    PROVE  Len(buf) = 0 /\ buf = <<>> /\ Consumed = fed
<1>1. len = 0 /\ Len(buf) <= len /\ Len(buf) \in Nat /\ buf \in Seq(Bytes) /\ fed \in Nat
  BY Types DEF Calling, IngestInv, BufInv
<1>2. Len(buf) = 0
  BY <1>1
<1>3. buf = <<>>
  BY <1>1, <1>2, EmptySeq
<1>4. Consumed = fed - 0
  BY <1>2 DEF Consumed
<1> QED
  BY <1>1, <1>2, <1>3, <1>4

(* server/src/main.c: a buffer more from recv. *)
LEMMA FeedCallStep ==
    ASSUME IngestInv, NEW k \in 1 .. BufMax, FeedCall(k)
    PROVE  IngestInv'
<1> USE IngestAssumption
<1>1. /\ ~Calling /\ fed + k <= Len(input.bytes) /\ len' = k /\ fed' = fed + k
      /\ buf' = SubSeq(input.bytes, fed + 1, fed + k)
      /\ UNCHANGED <<input, ret, ing, payload, samples>>
  BY DEF FeedCall
<1>2. Consumed = fed
  BY <1>1, BetweenCalls
<1>3. input.bytes \in Seq(Bytes) /\ Len(input.bytes) \in Nat /\ fed \in Nat
  BY Types
<1>4. fed + 1 \in Nat \ {0} /\ fed + k \in Nat /\ fed + 1 <= fed + k /\ fed + k - (fed + 1) + 1 = k
  BY <1>3
<1>5. /\ buf' \in Seq(Bytes) /\ Len(buf') = k
      /\ \A i \in 1 .. k : buf'[i] = input.bytes[fed + 1 + i - 1]
  <2> DEFINE a == fed + 1
             b == fed + k
  <2>1. a \in Nat \ {0} /\ b \in Nat /\ b <= Len(input.bytes) /\ a <= b /\ b - a + 1 = k
    <3>1. fed + k <= Len(input.bytes)
      BY <1>1
    <3> QED
      BY <3>1, <1>3
  <2>2. buf' = SubSeq(input.bytes, a, b)
    BY <1>1
  <2> HIDE DEF a, b
  <2>3. /\ SubSeq(input.bytes, a, b) \in Seq(Bytes)
        /\ Len(SubSeq(input.bytes, a, b)) = IF a <= b THEN b - a + 1 ELSE 0
        /\ \A i \in 1 .. b - a + 1 : SubSeq(input.bytes, a, b)[i] = input.bytes[a + i - 1]
    BY <2>1, <1>3, SubSeqIs
  <2>4. \A i \in 1 .. k : buf'[i] = input.bytes[a + i - 1]
    BY <2>1, <2>2, <2>3
  <2>5. buf' \in Seq(Bytes) /\ Len(buf') = k
    BY <2>1, <2>2, <2>3
  <2> QED
    BY <2>4, <2>5 DEF a
<1>6. Consumed' = Consumed
  <2>a. fed' = fed + k /\ Len(buf') = k
    BY <1>1, <1>5
  <2>1. Consumed' = fed + k - k
    BY <2>a, <1>3 DEF Consumed
  <2> QED
    BY <2>1, <1>2, <1>3
<1>7. LineLen' = LineLen /\ Start' = Start
  <2>1. LineLen' = LineLen
    BY <1>1 DEF LineLen
  <2> QED
    BY <2>1, <1>6 DEF Start
<1>8. IngestTypeOK'
  <2>1. fed' \in 0 .. Len(input.bytes) /\ len' \in 0 .. BufMax
    BY <1>1, <1>3
  <2> QED
    BY <2>1, <1>1, <1>5 DEF IngestInv, IngestTypeOK
<1>9. BufInv'
  <2>1. \A i \in 1 .. k : fed + 1 + i - 1 = fed + i
    BY <1>3
  <2>2. k <= fed + k /\ k <= k
    BY <1>3
  <2>3. \A i \in 1 .. k : buf'[i] = input.bytes[fed + i]
    BY <2>1, <1>5
  <2> QED
    BY <2>2, <2>3, <1>1, <1>2, <1>5, <1>6 DEF BufInv
<1>10. LineInv'
  BY <1>1, <1>6, <1>7 DEF IngestInv, LineInv
<1>11. StateInv'
  BY <1>1, <1>7 DEF IngestInv, StateInv
<1>12. MeaningInv'
  <2> SUFFICES ASSUME NEW n \in Consumed .. Len(input.bytes)
               PROVE  Reference(First(n)') = After(payload', Rest(First(n))')
    BY <1>1, <1>6 DEF MeaningInv
  <2>1. First(n)' = First(n)
    BY <1>1 DEF First
  <2>2. Rest(First(n))' = Rest(First(n))
    BY <2>1, <1>1, <1>6, <1>7 DEF Rest
  <2>3. Reference(First(n)) = After(payload, Rest(First(n)))
    BY DEF IngestInv, MeaningInv
  <2> QED
    BY <2>1, <2>2, <2>3, <1>1
<1> QED
  BY <1>8, <1>9, <1>10, <1>11, <1>12 DEF IngestInv

(* http_ingest.c:157-161, 238: what is left behind the end is dropped. *)
LEMMA FeedReturnStep ==
    ASSUME IngestInv, FeedReturn
    PROVE  IngestInv'
<1> USE IngestAssumption
<1>1. /\ buf = <<>> \/ ing.state \in {"DONE", "ERROR"}
      /\ ret' = (IF ing.state = "ERROR" THEN -1 ELSE len - Len(buf))
      /\ len' = 0 /\ buf' = <<>>
      /\ UNCHANGED <<input, fed, ing, payload, samples>>
  BY DEF FeedReturn
<1>2. buf' \in Seq(Bytes) /\ Len(buf') = 0
  BY <1>1, EmptySeq
<1>3. fed \in Nat /\ Consumed \in Nat /\ Consumed <= fed
      /\ Len(buf) \in Nat /\ LineLen \in Nat /\ fed <= Len(input.bytes) /\ Len(input.bytes) \in Nat
  BY Types
<1>4. Consumed' = fed
  <2>1. Consumed' = fed - 0
    BY <1>1, <1>2 DEF Consumed
  <2> QED
    BY <2>1, <1>3
<1>5. IngestTypeOK'
  <2>1. len \in 0 .. BufMax /\ Len(buf) <= len
    BY DEF IngestInv, IngestTypeOK, BufInv
  <2>2. ret' \in -1 .. BufMax
    <3>1. len - Len(buf) \in -1 .. BufMax /\ -1 \in -1 .. BufMax
      BY <2>1, <1>3
    <3> QED
      BY <3>1, <1>1
  <2>3. 0 \in 0 .. BufMax
    OBVIOUS
  <2> QED
    BY <2>2, <2>3, <1>1, <1>2 DEF IngestInv, IngestTypeOK
<1>6. BufInv'
  BY <1>1, <1>2, <1>3 DEF BufInv
<1>7. LineLen' = LineLen /\ (Consumed = fed => Start' = Start)
  <2>1. LineLen' = LineLen
    BY <1>1 DEF LineLen
  <2> QED
    BY <2>1, <1>4 DEF Start
<1>8. CASE buf = <<>>
  <2>1. Consumed = fed
    <3>1. Len(buf) = 0
      BY <1>8, EmptySeq
    <3>2. Consumed = fed - 0
      BY <3>1 DEF Consumed
    <3> QED
      BY <3>2, <1>3
  <2>2. Start' = Start
    BY <2>1, <1>7
  <2>3. LineInv'
    BY <2>1, <2>2, <1>1, <1>4, <1>7 DEF IngestInv, LineInv
  <2>4. StateInv'
    BY <2>2, <1>1 DEF IngestInv, StateInv
  <2>5. MeaningInv'
    <3> SUFFICES ASSUME NEW n \in Consumed .. Len(input.bytes)
                 PROVE  Reference(First(n)') = After(payload', Rest(First(n))')
      BY <1>1, <1>4, <2>1 DEF MeaningInv
    <3>1. First(n)' = First(n)
      BY <1>1 DEF First
    <3>2. Rest(First(n))' = Rest(First(n))
      BY <3>1, <1>1, <1>4, <2>1, <2>2 DEF Rest
    <3>3. Reference(First(n)) = After(payload, Rest(First(n)))
      BY DEF IngestInv, MeaningInv
    <3> QED
      BY <3>1, <3>2, <3>3, <1>1
  <2> QED
    BY <2>3, <2>4, <2>5, <1>5, <1>6 DEF IngestInv
<1>9. CASE ing.state \in {"DONE", "ERROR"}
  <2>1. LineInv'
    <3>1. ing.state # "ERROR" => LineLen = 0
      BY <1>9, EmptySeq DEF IngestInv, StateInv, LineLen
    <3>2. ing'.state # "ERROR" => LineLen' = 0
      BY <3>1, <1>1, <1>7
    <3> QED
      BY <3>2, <1>3, <1>4 DEF LineInv
  <2>2. StateInv'
    BY <1>1, <1>9 DEF IngestInv, StateInv
  <2>3. MeaningInv'
    <3> SUFFICES ASSUME NEW n \in fed .. Len(input.bytes)
                 PROVE  Reference(First(n)') = After(payload', Rest(First(n))')
      BY <1>1, <1>4 DEF MeaningInv
    <3>1. First(n)' = First(n)
      BY <1>1 DEF First
    <3>2. Rest(First(n))' = Rest(First(n))
      BY <1>1, <1>9 DEF Rest
    <3>3. n \in Consumed .. Len(input.bytes)
      BY <1>3
    <3>4. Reference(First(n)) = After(payload, Rest(First(n)))
      BY <3>3 DEF IngestInv, MeaningInv
    <3> QED
      BY <3>1, <3>2, <3>4, <1>1
  <2> QED
    BY <2>1, <2>2, <2>3, <1>5, <1>6 DEF IngestInv
<1> QED
  BY <1>1, <1>8, <1>9

LEMMA IngestSteps ==
    ASSUME IngestInv, [IngestNext]_ingestVars
    PROVE  IngestInv'
<1>1. CASE \E k \in 1 .. BufMax : FeedCall(k)
  BY <1>1, FeedCallStep
<1>2. CASE RequestLine
  BY <1>2, RequestLineStep
<1>3. CASE HeaderLine
  BY <1>3, HeaderLineStep
<1>4. CASE ChunkSize
  BY <1>4, ChunkSizeStep
<1>5. CASE ChunkData
  BY <1>5, ChunkDataStep
<1>6. CASE ChunkCrlf
  BY <1>6, ChunkCrlfStep
<1>7. CASE Trailer
  BY <1>7, TrailerStep
<1>8. CASE FeedReturn
  BY <1>8, FeedReturnStep
<1>9. CASE UNCHANGED ingestVars
  <2>1. /\ input' = input /\ fed' = fed /\ len' = len /\ buf' = buf /\ ret' = ret /\ ing' = ing
        /\ payload' = payload /\ samples' = samples
    BY <1>9 DEF ingestVars
  <2>2. Consumed' = Consumed /\ LineLen' = LineLen /\ Start' = Start
    BY <2>1 DEF Consumed, LineLen, Start
  <2>3. IngestTypeOK'
    BY <2>1 DEF IngestInv, IngestTypeOK
  <2>4. BufInv' /\ LineInv' /\ StateInv'
    BY <2>1, <2>2 DEF IngestInv, BufInv, LineInv, StateInv
  <2>5. \A n : First(n)' = First(n) /\ Rest(First(n))' = Rest(First(n))
    BY <2>1, <2>2 DEF First, Rest
  <2>6. MeaningInv'
    BY <2>1, <2>2, <2>5 DEF IngestInv, MeaningInv
  <2> QED
    BY <2>3, <2>4, <2>6 DEF IngestInv
<1>10. CASE Finished
  BY <1>10, <1>9 DEF Finished
<1> QED
  BY <1>1, <1>2, <1>3, <1>4, <1>5, <1>6, <1>7, <1>8, <1>9, <1>10 DEF IngestNext

LEMMA IngestInvariant == IngestSpec => []IngestInv
<1>1. IngestInit => IngestInv
  BY IngestStarts
<1>2. IngestInv /\ [IngestNext]_ingestVars => IngestInv'
  BY IngestSteps
<1> QED
  BY <1>1, <1>2, PTL DEF IngestSpec

(* http_ingest.c:17-23, 40-65, 67-94: whatever a peer sends, the parser's  *)
(* variables keep their types, and no line, method, path or session id     *)
(* overruns the array it is kept in.                                       *)
THEOREM IngestTypeCorrect == IngestSpec => []IngestTypeOK
<1>1. IngestInv => IngestTypeOK
  BY DEF IngestInv
<1> QED
  BY <1>1, IngestInvariant, PTL

(* Between two calls the parser waits for the rest of what it is reading. *)
LEMMA WaitsForMore ==
    ASSUME IngestInv, ~Calling
    PROVE  Rest(First(fed)) = Verdict(Observed.verdict, <<>>)
<1> DEFINE s == First(fed)
           E == LineEnd(s, Start)
<1>1. /\ Consumed = fed /\ fed \in Nat /\ fed <= Len(input.bytes) /\ input.bytes \in Seq(Bytes)
      /\ LineLen \in Nat /\ Start = Consumed - LineLen + 1
      /\ ing.state # "ERROR" => Start \in Nat \ {0}
  BY Types, BetweenCalls
<1>2. s \in Seq(Bytes) /\ Len(s) = fed /\ \A i \in 1 .. fed : s[i] = input.bytes[i]
  BY <1>1, FirstIs
<1>3. /\ ing.complete <=> ing.state = "DONE"
      /\ ing.state \in IngestStates /\ ing.chunk_remaining \in 0 .. SizeMod - 1
      /\ LineLen <= LineMax - 1 /\ LineMax \in Nat
  BY IngestAssumption DEF IngestInv, StateInv, IngestTypeOK, http_ingest_t, LineLen
<1> HIDE DEF s
<1>4. CASE ing.state \in LineStates
  <2>1. ing.state \notin {"ERROR", "DONE"}
    BY <1>4 DEF LineStates
  <2>2. Start \in Nat \ {0} /\ Start \in 1 .. fed + 1 /\ fed + 1 - Start = LineLen
    BY <1>1, <2>1
  <2>3. E = 0
    <3> SUFFICES ASSUME E # 0 PROVE FALSE
      OBVIOUS
    <3>1. E \in Start .. fed /\ s[E] = "LF"
      BY <2>2, <1>1, <1>2, LineEndIs
    <3> HIDE DEF E
    <3>2. E - Start + 1 \in 1 .. LineLen /\ Start - 1 + (E - Start + 1) = E /\ E \in 1 .. fed
      BY <3>1, <2>2, <1>1
    <3>3. ing.line[E - Start + 1] = input.bytes[Start - 1 + (E - Start + 1)]
          /\ ing.line[E - Start + 1] # "LF"
      BY <3>2, <2>1 DEF IngestInv, LineInv
    <3> QED
      BY <3>1, <3>2, <3>3, <1>2
  <2>4. ~TooLong(s, Start)
    <3>1. TooLong(s, Start) <=> fed + 1 - Start > LineMax - 1
      BY <2>2, <2>3, <1>1, <1>2, <1>3 DEF TooLong
    <3> QED
      BY <3>1, <2>2, <1>1, <1>3
  <2>5. Rest(s) = OfLine(s, Start, LineDone(s))
    BY <1>2, <1>4, <2>2, RestOfLine DEF IngestInv
  <2>6. Rest(s) = Verdict("more", <<>>)
    BY <2>3, <2>4, <2>5 DEF OfLine
  <2>7. Observed.verdict = "more"
    BY <1>3, <2>1 DEF Observed, Verdict
  <2> QED
    BY <2>6, <2>7 DEF s
<1>5. CASE ing.state = "CHUNK_DATA"
  <2> DEFINE r == ing.chunk_remaining
  <2>1. r > 0 /\ r \in Nat
    BY <1>3, <1>5, IngestAssumption DEF IngestInv, StateInv
  <2>2. Rest(s) = DataAt(s, fed + 1, r, Body(s))
    BY <1>1, <1>5 DEF Rest
  <2> HIDE DEF r
  <2>3. fed < fed + 1 + r - 1 /\ fed < fed + 1
    BY <2>1, <1>1
  <2>4. SubSeq(s, fed + 1, fed) = <<>>
    BY <2>3, <1>1, SubSeqEmpty
  <2>5. Rest(s) = Verdict("more", SubSeq(s, fed + 1, fed))
    BY <2>2, <2>3, <1>2 DEF DataAt
  <2>6. Observed.verdict = "more"
    BY <1>3, <1>5 DEF Observed, Verdict
  <2> QED
    BY <2>4, <2>5, <2>6 DEF s
<1>6. CASE ing.state = "DONE"
  BY <1>3, <1>6 DEF Rest, Observed, Verdict
<1>7. CASE ing.state = "ERROR"
  BY <1>7 DEF Rest, Observed, Verdict
<1> QED
  BY <1>3, <1>4, <1>5, <1>6, <1>7 DEF IngestStates, LineStates

(* http_ingest.c:155-239: for every input and every way recv cuts it into  *)
(* buffers, what the parser has passed on after a call, and whether it is  *)
(* done or has failed, is what the reference parser says of the bytes      *)
(* received so far.                                                        *)
THEOREM CutsDoNotMatter == IngestSpec => []SegmentationFree
<1>1. IngestInv => SegmentationFree
  <2> SUFFICES ASSUME IngestInv, ~Calling
               PROVE  Observed = Reference(First(fed))
    BY DEF SegmentationFree, First
  <2>1. /\ Consumed = fed /\ fed \in Nat /\ fed <= Len(input.bytes)
        /\ Len(input.bytes) \in Nat /\ payload \in Seq(Bytes)
    BY Types, BetweenCalls
  <2>2. fed \in Consumed .. Len(input.bytes)
    BY <2>1
  <2>3. Reference(First(fed)) = After(payload, Rest(First(fed)))
    BY <2>2 DEF IngestInv, MeaningInv
  <2>4. Verdict("more", <<>>) \in Verdicts
    BY VerdictTypes
  <2>5. After(payload, Verdict(Observed.verdict, <<>>)) = Verdict(Observed.verdict, payload)
    BY <2>1, <2>4, AfterNothing
  <2>6. Observed = Verdict(Observed.verdict, payload)
    BY DEF Observed, Verdict
  <2> QED
    BY <2>3, <2>5, <2>6, WaitsForMore
<1> QED
  BY <1>1, IngestInvariant, PTL

-----------------------------------------------------------------------------
(* What the encoder writes *)

(* The bytes w stand in s at position i. *)
Occurs(s, i, w) ==
    /\ i + Len(w) - 1 <= Len(s)
    /\ \A k \in 1 .. Len(w) : s[i + k - 1] = w[k]

LEMMA OccursParts ==
    ASSUME NEW s \in Seq(Bytes), NEW i \in Nat \ {0}, NEW v \in Seq(Bytes), NEW w \in Seq(Bytes),
           Occurs(s, i, v \o w)
    PROVE  Occurs(s, i, v) /\ Occurs(s, i + Len(v), w)
<1> DEFINE m == Len(v)
           n == Len(w)
           L == Len(s)
<1>1. m \in Nat /\ n \in Nat /\ L \in Nat
  BY LenProperties
<1>2. /\ Len(v \o w) = m + n
      /\ \A k \in 1 .. m + n : (v \o w)[k] = IF k <= m THEN v[k] ELSE w[k - m]
  BY ConcatProperties
<1>3. i + (m + n) - 1 <= L /\ \A k \in 1 .. m + n : s[i + k - 1] = (v \o w)[k]
  BY <1>2 DEF Occurs
<1> HIDE DEF m, n, L
<1>4. i + m - 1 <= L /\ i + m + n - 1 <= L
  BY <1>1, <1>3
<1>5. ASSUME NEW k \in 1 .. m PROVE s[i + k - 1] = v[k]
  <2>1. k \in 1 .. m + n /\ k <= m
    BY <1>1
  <2> QED
    BY <2>1, <1>2, <1>3
<1>6. ASSUME NEW k \in 1 .. n PROVE s[i + m + k - 1] = w[k]
  <2>1. m + k \in 1 .. m + n /\ ~(m + k <= m) /\ (m + k) - m = k /\ i + (m + k) - 1 = i + m + k - 1
    BY <1>1
  <2> QED
    BY <2>1, <1>2, <1>3
<1> QED
  BY <1>4, <1>5, <1>6 DEF Occurs, m, n, L

LEMMA OccursWhole ==
    ASSUME NEW s \in Seq(Bytes)
    PROVE  Occurs(s, 1, s)
<1>1. Len(s) \in Nat
  BY LenProperties
<1>2. 1 + Len(s) - 1 <= Len(s)
  BY <1>1
<1>3. \A k \in 1 .. Len(s) : 1 + k - 1 = k
  BY <1>1
<1> QED
  BY <1>2, <1>3 DEF Occurs

LEMMA CRLFIs ==
    CRLF \in Seq(Bytes) /\ Len(CRLF) = 2 /\ CRLF[1] = "CR" /\ CRLF[2] = "LF"
<1>1. "CR" \in Bytes /\ "LF" \in Bytes
  BY EncoderAssumption
<1> QED
  BY <1>1 DEF CRLF

(* A line and its CRLF, where they stand in a stream. *)
LEMMA EncodedLine ==
    ASSUME NEW s \in Seq(Bytes), NEW i \in Nat \ {0}, NEW l \in Seq(Bytes),
           Occurs(s, i, l), Occurs(s, i + Len(l), CRLF),
           \A k \in 1 .. Len(l) : l[k] # "LF", Len(l) + 1 < LineMax
    PROVE  /\ LineEnd(s, i) = i + Len(l) + 1
           /\ LineAt(s, i) = l
           /\ ~TooLong(s, i)
<1> USE IngestAssumption
<1> DEFINE n == Len(l)
           L == Len(s)
           j == i + n + 1
<1>1. n \in Nat /\ L \in Nat
  BY LenProperties
<1>2. /\ n + 1 < LineMax /\ i + n - 1 <= L /\ \A k \in 1 .. n : l[k] # "LF" /\ s[i + k - 1] = l[k]
      /\ i + n + 2 - 1 <= L
      /\ \A k \in 1 .. 2 : s[i + n + k - 1] = CRLF[k]
  BY CRLFIs DEF Occurs
<1>3. s[i + n] = "CR" /\ s[j] = "LF"
  <2>1. i + n + 1 - 1 = i + n /\ i + n + 2 - 1 = j
    BY <1>1
  <2>2. s[i + n + 1 - 1] = CRLF[1] /\ s[i + n + 2 - 1] = CRLF[2]
    BY <1>2
  <2> QED
    BY <2>1, <2>2, CRLFIs
<1> HIDE DEF n, L
<1>4. ASSUME NEW k \in i .. j - 1 PROVE s[k] # "LF"
  <2>1. CASE k = i + n
    BY <2>1, <1>3
  <2>2. CASE k # i + n
    <3>1. k - i + 1 \in 1 .. n /\ i + (k - i + 1) - 1 = k
      BY <2>2, <1>1
    <3> QED
      BY <3>1, <1>2
  <2> QED
    BY <2>1, <2>2
<1>5. j \in i .. L
  BY <1>1, <1>2
<1> HIDE DEF j
<1>6. LineEnd(s, i) = j
  BY <1>1, <1>3, <1>4, <1>5, LineEndFound DEF L
<1>7. j > i /\ j - 1 = i + n /\ j - 2 = i + n - 1 /\ j # 0 /\ j - i = n + 1
  BY <1>1 DEF j
<1>8. LineAt(s, i) = SubSeq(s, i, j - 2)
  BY <1>3, <1>6, <1>7 DEF LineAt
<1>9. SubSeq(s, i, j - 2) = l
  <2> DEFINE e == j - 2
  <2>1. e \in Nat /\ e <= L /\ e - i + 1 = n /\ (~(i <= e) => n = 0)
    BY <1>1, <1>2, <1>7
  <2> HIDE DEF e
  <2>2. /\ SubSeq(s, i, e) \in Seq(Bytes)
        /\ Len(SubSeq(s, i, e)) = IF i <= e THEN e - i + 1 ELSE 0
        /\ \A k \in 1 .. e - i + 1 : SubSeq(s, i, e)[k] = s[i + k - 1]
    BY <2>1, SubSeqIs DEF L
  <2>3. Len(SubSeq(s, i, e)) = Len(l)
    BY <2>1, <2>2 DEF n
  <2>4. \A k \in 1 .. Len(l) : SubSeq(s, i, e)[k] = l[k]
    BY <2>1, <2>2, <1>2 DEF n
  <2>5. SubSeq(s, i, e) = l
    BY <2>2, <2>3, <2>4, SeqEqual
  <2> QED
    BY <2>5 DEF e
<1>10. ~TooLong(s, i)
  <2>1. TooLong(s, i) <=> j - i > LineMax - 1
    BY <1>6, <1>7 DEF TooLong
  <2> QED
    BY <2>1, <1>1, <1>2, <1>7
<1> QED
  BY <1>6, <1>8, <1>9, <1>10 DEF j, n

(* A digit is worth what it was written for. *)
LEMMA DigitIs ==
    /\ \A v \in 0 .. 15 : /\ Digits[v + 1] \in DOMAIN Hex
                          /\ Hex[Digits[v + 1]] = v
                          /\ Digits[v + 1] \in Bytes
    /\ \A c \in DOMAIN Hex : c # "LF" /\ c # ";"
<1> DEFINE TenDigits == {"0", "1", "2", "3", "4", "5", "6", "7", "8", "9"}
           Ten == <<"0", "1", "2", "3", "4", "5", "6", "7", "8", "9">>
           Six == <<"a", "b", "c", "d", "e", "f">>
<1>1. /\ Ten[0 + 1] = "0" /\ Ten[1 + 1] = "1" /\ Ten[2 + 1] = "2" /\ Ten[3 + 1] = "3"
      /\ Ten[4 + 1] = "4" /\ Ten[5 + 1] = "5" /\ Ten[6 + 1] = "6" /\ Ten[7 + 1] = "7"
      /\ Ten[8 + 1] = "8" /\ Ten[9 + 1] = "9"
  OBVIOUS
<1>2. /\ Six[10 - 9] = "a" /\ Six[11 - 9] = "b" /\ Six[12 - 9] = "c"
      /\ Six[13 - 9] = "d" /\ Six[14 - 9] = "e" /\ Six[15 - 9] = "f"
  OBVIOUS
<1>3. /\ Digits[0 + 1] = "0" /\ Digits[1 + 1] = "1" /\ Digits[2 + 1] = "2" /\ Digits[3 + 1] = "3"
      /\ Digits[4 + 1] = "4" /\ Digits[5 + 1] = "5" /\ Digits[6 + 1] = "6"
      /\ Digits[7 + 1] = "7" /\ Digits[8 + 1] = "8" /\ Digits[9 + 1] = "9"
      /\ Digits[10 + 1] = "a" /\ Digits[11 + 1] = "b" /\ Digits[12 + 1] = "c"
      /\ Digits[13 + 1] = "d" /\ Digits[14 + 1] = "e" /\ Digits[15 + 1] = "f"
  BY DEF Digits
<1>4. DOMAIN Decimal = TenDigits /\ \A c \in TenDigits : Decimal[c] = CHOOSE v \in 0 .. 9 : c = Ten[v + 1]
  BY DEF Decimal
<1>5. /\ DOMAIN Hex = DOMAIN Decimal \cup {"a", "b", "c", "d", "e", "f"}
      /\ \A c \in DOMAIN Hex : Hex[c] = IF c \in DOMAIN Decimal THEN Decimal[c]
                                        ELSE CHOOSE v \in 10 .. 15 : c = Six[v - 9]
  BY DEF Hex
<1>6. DOMAIN Digits = 1 .. 16
  BY DEF Digits
<1> HIDE DEF Ten, Six
<1>7. \A u \in 0 .. 9 : u = 0 \/ u = 1 \/ u = 2 \/ u = 3 \/ u = 4 \/ u = 5 \/ u = 6 \/ u = 7 \/ u = 8 \/ u = 9
  OBVIOUS
<1>8. \A u \in 10 .. 15 : u = 10 \/ u = 11 \/ u = 12 \/ u = 13 \/ u = 14 \/ u = 15
  OBVIOUS
<1>9. ASSUME NEW u \in 0 .. 9 PROVE Ten[u + 1] = Digits[u + 1] /\ Ten[u + 1] \in TenDigits
  BY <1>1, <1>3, <1>7
<1>10. ASSUME NEW u \in 10 .. 15
       PROVE  /\ Six[u - 9] = Digits[u + 1] /\ Six[u - 9] \in {"a", "b", "c", "d", "e", "f"}
              /\ Six[u - 9] \notin TenDigits
  BY <1>2, <1>3, <1>8
<1>11. ASSUME NEW u \in 0 .. 9, NEW w \in 0 .. 9, Ten[u + 1] = Ten[w + 1] PROVE u = w
  BY <1>1, <1>7, <1>11
<1>12. ASSUME NEW u \in 10 .. 15, NEW w \in 10 .. 15, Six[u - 9] = Six[w - 9] PROVE u = w
  BY <1>2, <1>8, <1>12
<1>13. ASSUME NEW v \in 0 .. 9 PROVE Digits[v + 1] \in DOMAIN Hex /\ Hex[Digits[v + 1]] = v
  <2> DEFINE c == Digits[v + 1]
  <2>1. c = Ten[v + 1] /\ c \in TenDigits
    BY <1>9
  <2> HIDE DEF c
  <2>2. Hex[c] = CHOOSE u \in 0 .. 9 : c = Ten[u + 1]
    BY <2>1, <1>4, <1>5
  <2>3. \A u \in 0 .. 9 : c = Ten[u + 1] <=> u = v
    BY <2>1, <1>11
  <2>4. (CHOOSE u \in 0 .. 9 : c = Ten[u + 1]) = v
    BY <2>3
  <2> QED
    BY <2>1, <2>2, <2>4, <1>4, <1>5 DEF c
<1>14. ASSUME NEW v \in 10 .. 15 PROVE Digits[v + 1] \in DOMAIN Hex /\ Hex[Digits[v + 1]] = v
  <2> DEFINE c == Digits[v + 1]
  <2>1. c = Six[v - 9] /\ c \in {"a", "b", "c", "d", "e", "f"} /\ c \notin TenDigits
    BY <1>10
  <2> HIDE DEF c
  <2>2. Hex[c] = CHOOSE u \in 10 .. 15 : c = Six[u - 9]
    BY <2>1, <1>4, <1>5
  <2>3. \A u \in 10 .. 15 : c = Six[u - 9] <=> u = v
    BY <2>1, <1>12
  <2>4. (CHOOSE u \in 10 .. 15 : c = Six[u - 9]) = v
    BY <2>3
  <2> QED
    BY <2>1, <2>2, <2>4, <1>4, <1>5 DEF c
<1>15. ASSUME NEW v \in 0 .. 15 PROVE Digits[v + 1] \in Bytes
  <2>1. Range(Digits) \subseteq Bytes
    BY EncoderAssumption
  <2>2. v + 1 \in DOMAIN Digits
    BY <1>6
  <2> QED
    BY <2>1, <2>2 DEF Range
<1>16. \A v \in 0 .. 15 : v \in 0 .. 9 \/ v \in 10 .. 15
  OBVIOUS
<1>17. \A c \in DOMAIN Hex : c # "LF" /\ c # ";"
  BY <1>4, <1>5
<1> QED
  BY <1>13, <1>14, <1>15, <1>16, <1>17

(* One digit more. *)
DigitMore(d, c, value, base, mod) ==
    Number(d \o <<c>>, value, base, mod)
      = (Number(d, value, base, mod) * base + value[c]) % mod

LEMMA NumberAppend ==
    ASSUME NEW d \in Seq(Bytes), NEW c \in Bytes, NEW value, NEW base \in Nat, NEW mod \in Nat \ {0},
           IsNumeral(d, value), value[c] \in Nat
    PROVE  DigitMore(d, c, value, base, mod)
<1> DEFINE n == Len(d)
           e == d \o <<c>>
<1>1. n \in Nat /\ <<c>> \in Seq(Bytes) /\ Len(<<c>>) = 1 /\ <<c>>[1] = c
  BY LenProperties
<1>2. Len(e) = n + 1 /\ \A i \in 1 .. n + 1 : e[i] = IF i <= n THEN d[i] ELSE <<c>>[i - n]
  BY <1>1, ConcatProperties
<1> HIDE DEF n, e
<1>3. (\A i \in 1 .. n : e[i] = d[i]) /\ e[n + 1] = c
  <2>1. \A i \in 1 .. n : i \in 1 .. n + 1 /\ i <= n
    BY <1>1
  <2>2. n + 1 \in 1 .. n + 1 /\ ~(n + 1 <= n) /\ (n + 1) - n = 1
    BY <1>1
  <2> QED
    BY <2>1, <2>2, <1>1, <1>2
<1>4. \A i \in 1 .. n : value[d[i]] \in Nat
  BY DEF IsNumeral, n
<1>5. IsNumeral(e, value)
  <2>1. \A i \in 1 .. n + 1 : i \in 1 .. n \/ i = n + 1
    BY <1>1
  <2> QED
    BY <2>1, <1>1, <1>2, <1>3, <1>4 DEF IsNumeral
<1>6. PICK u : Values(u, d, value, base, mod) /\ Number(d, value, base, mod) = u[Len(d)]
  BY NumberIs, Zenon
<1>7. PICK v : Values(v, e, value, base, mod) /\ Number(e, value, base, mod) = v[Len(e)]
  BY <1>5, NumberIs, Zenon
<1>8. u[0] = 0 /\ \A i \in 1 .. n : u[i] = (u[i - 1] * base + value[d[i]]) % mod
  BY <1>6 DEF Values, n
<1>9. v[0] = 0 /\ \A i \in 1 .. n + 1 : v[i] = (v[i - 1] * base + value[e[i]]) % mod
  BY <1>7, <1>2 DEF Values
<1> DEFINE T == {m \in Nat : m <= n => v[m] = u[m]}
<1>10. \A m \in Nat : m \in T
  <2>1. 0 \in T
    BY <1>8, <1>9
  <2>2. ASSUME NEW m \in Nat, m \in T PROVE m + 1 \in T
    <3> SUFFICES ASSUME m + 1 <= n PROVE v[m + 1] = u[m + 1]
      OBVIOUS
    <3>1. m + 1 \in 1 .. n /\ m + 1 \in 1 .. n + 1 /\ (m + 1) - 1 = m /\ m <= n
      BY <1>1
    <3>2. v[m + 1] = (v[m] * base + value[e[m + 1]]) % mod
      BY <3>1, <1>9
    <3>3. u[m + 1] = (u[m] * base + value[d[m + 1]]) % mod
      BY <3>1, <1>8
    <3>4. v[m] = u[m] /\ e[m + 1] = d[m + 1]
      BY <3>1, <2>2, <1>3
    <3> QED
      BY <3>2, <3>3, <3>4
  <2> HIDE DEF T
  <2> QED
    BY <2>1, <2>2, Induction
<1>11. v[n] = u[n]
  <2>1. n \in T
    BY <1>1, <1>10
  <2> QED
    BY <2>1, <1>1
<1>12. v[n + 1] = (v[n] * base + value[e[n + 1]]) % mod
  <2>1. n + 1 \in 1 .. n + 1 /\ (n + 1) - 1 = n
    BY <1>1
  <2> QED
    BY <2>1, <1>9
<1>13. Number(e, value, base, mod) = v[n + 1] /\ Number(d, value, base, mod) = u[n]
  BY <1>2, <1>6, <1>7 DEF n
<1> QED
  BY <1>3, <1>11, <1>12, <1>13 DEF e, DigitMore

LEMMA NumberOfNothing ==
    ASSUME NEW d, Len(d) = 0, NEW value, NEW base \in Nat, NEW mod \in Nat \ {0}
    PROVE  Number(d, value, base, mod) = 0
<1>1. IsNumeral(d, value)
  BY DEF IsNumeral
<1>2. \A e : IsNumeral(e, value) => \E v : /\ Values(v, e, value, base, mod)
                                          /\ Number(e, value, base, mod) = v[Len(e)]
  BY NumberIs
<1>3. PICK v : Values(v, d, value, base, mod) /\ Number(d, value, base, mod) = v[Len(d)]
  BY <1>1, <1>2
<1> QED
  BY <1>3 DEF Values

(* Quotient and remainder. *)
LEMMA Division ==
    ASSUME NEW d \in Nat \ {0}, NEW x \in Int
    PROVE  x \div d \in Int /\ x % d \in 0 .. d - 1 /\ x = d * (x \div d) + (x % d)
BY SMT

(* Division by ten and by sixteen. *)
LEMMA DivIs ==
    ASSUME NEW base \in {10, 16}, NEW n \in Nat
    PROVE  /\ n % base \in 0 .. base - 1 /\ n % base \in 0 .. 15
           /\ n \div base \in Nat /\ n \div base <= n
           /\ ~(n < base) => n \div base < n
           /\ n < base => n % base = n
           /\ (n \div base) * base + (n % base) = n
<1> DEFINE q == n \div base
           r == n % base
<1>1. q \in Int /\ r \in 0 .. base - 1 /\ n = base * q + r
  BY Division
<1> HIDE DEF q, r
<1> DEFINE P == /\ r \in 0 .. 15 /\ q \in Nat /\ q <= n /\ (~(n < base) => q < n)
                /\ (n < base => r = n) /\ q * base + r = n
<1>2. ASSUME base = 10 PROVE P
  <2>1. n = 10 * q + r /\ r \in 0 .. 9
    BY <1>1, <1>2
  <2>2. /\ r \in 0 .. 15 /\ q \in Nat /\ q <= n /\ (~(n < 10) => q < n)
        /\ (n < 10 => r = n) /\ q * 10 + r = n
    BY <2>1, <1>1
  <2> QED
    BY <2>2, <1>2
<1>3. ASSUME base = 16 PROVE P
  <2>1. n = 16 * q + r /\ r \in 0 .. 15
    BY <1>1, <1>3
  <2>2. /\ r \in 0 .. 15 /\ q \in Nat /\ q <= n /\ (~(n < 16) => q < n)
        /\ (n < 16 => r = n) /\ q * 16 + r = n
    BY <2>1, <1>1
  <2> QED
    BY <2>2, <1>3
<1>4. P
  BY <1>2, <1>3
<1> QED
  BY <1>1, <1>4, Zenon DEF q, r

(* A numeral satisfies its recursive definition, and holds digits only. *)
LEMMA NumeralIs ==
    ASSUME NEW base \in {10, 16}, NEW n \in 0 .. SizeMod - 1
    PROVE  /\ ~(n < base) => n \div base \in 0 .. SizeMod - 1 /\ n \div base < n
           /\ Numeral(base)[n] = (IF n < base THEN <<>> ELSE Numeral(base)[n \div base])
                                    \o <<Digits[(n % base) + 1]>>
           /\ Numeral(base)[n] \in Seq(Bytes)
           /\ Len(Numeral(base)[n]) > 0
           /\ \A k \in 1 .. Len(Numeral(base)[n]) : Numeral(base)[n][k] \in DOMAIN Hex
<1> USE IngestAssumption
<1> DEFINE D == 0 .. SizeMod - 1
           dg(i) == <<Digits[(i % base) + 1]>>
           Eq(f) == f = [i \in D |-> (IF i < base THEN <<>> ELSE f[i \div base]) \o dg(i)]
           g == CHOOSE f : Eq(f)
           V == {w \in Seq(Bytes) : Len(w) > 0 /\ \A k \in 1 .. Len(w) : w[k] \in DOMAIN Hex}
           W == {w \in Seq(Bytes) : \A k \in 1 .. Len(w) : w[k] \in DOMAIN Hex}
<1>1. Numeral(base) = g
  BY Zenon DEF Numeral
<1>2. ASSUME NEW i \in D
      PROVE  /\ ~(i < base) => i \div base \in D /\ i \div base < i
             /\ dg(i) \in Seq(Bytes) /\ Len(dg(i)) = 1 /\ dg(i)[1] \in DOMAIN Hex
  <2>1. i \in Nat
    OBVIOUS
  <2>2. i % base \in 0 .. 15
    BY <2>1, DivIs
  <2> DEFINE c == Digits[(i % base) + 1]
  <2>3. c \in DOMAIN Hex /\ c \in Bytes
    BY <2>2, DigitIs
  <2>4. ~(i < base) => i \div base \in Nat /\ i \div base < i
    BY <2>1, DivIs
  <2>5. ~(i < base) => i \div base \in D
    BY <2>4
  <2> HIDE DEF c
  <2>6. <<c>> \in Seq(Bytes) /\ Len(<<c>>) = 1 /\ <<c>>[1] = c
    BY <2>3
  <2>7. dg(i) = <<c>>
    BY DEF c
  <2> HIDE DEF dg
  <2> QED
    BY <2>3, <2>4, <2>5, <2>6, <2>7
<1>3. ASSUME NEW w \in W, NEW i \in D PROVE w \o dg(i) \in V
  <2> DEFINE x == dg(i)
             m == Len(w)
  <2>1. x \in Seq(Bytes) /\ Len(x) = 1 /\ x[1] \in DOMAIN Hex
    BY <1>2
  <2> HIDE DEF x
  <2>2. m \in Nat
    BY LenProperties
  <2>3. /\ w \o x \in Seq(Bytes) /\ Len(w \o x) = m + 1
        /\ \A k \in 1 .. m + 1 : (w \o x)[k] = IF k <= m THEN w[k] ELSE x[k - m]
    BY <2>1, ConcatProperties
  <2> HIDE DEF m
  <2>4. ASSUME NEW k \in 1 .. m + 1 PROVE (w \o x)[k] \in DOMAIN Hex
    <3>1. CASE k <= m
      <4>1. k \in 1 .. Len(w)
        BY <3>1, <2>2 DEF m
      <4> QED
        BY <4>1, <3>1, <2>3
    <3>2. CASE ~(k <= m)
      <4>1. k - m = 1
        BY <3>2, <2>2
      <4> QED
        BY <4>1, <3>2, <2>1, <2>3
    <3> QED
      BY <3>1, <3>2
  <2> DEFINE y == w \o x
  <2> HIDE DEF y
  <2>a. y \in Seq(Bytes) /\ Len(y) = m + 1 /\ m + 1 > 0
    BY <2>2, <2>3 DEF y
  <2>b. \A k \in 1 .. m + 1 : y[k] \in DOMAIN Hex
    BY <2>4 DEF y
  <2>c. y \in V
    BY <2>a, <2>b
  <2>5. w \o x \in V
    BY <2>c DEF y
  <2> QED
    BY <2>5 DEF x
<1>4. <<>> \in W /\ V \subseteq W
  <2>1. <<>> \in Seq(Bytes) /\ Len(<<>>) = 0
    BY EmptySeq
  <2> QED
    BY <2>1
<1> HIDE DEF dg, V, W
<1>5. \E f : Eq(f)
  <2> DEFINE r == [i \in D |-> i]
             B == {i \in D : i < base}
             b == [i \in D |-> <<>> \o dg(i)]
             p == [i \in D |-> i \div base]
             st == [i \in D |-> [v \in V |-> v \o dg(i)]]
             N == SizeMod - 1
  <2>1. N \in Nat /\ \A i \in D : r[i] \in 0 .. N
    OBVIOUS
  <2>2. 0 \in D /\ V # {}
    <3>1. 0 \in D
      OBVIOUS
    <3> QED
      BY <3>1, <1>3, <1>4
  <2>3. \A i \in D : i \in B => b[i] \in V
    BY <1>3, <1>4
  <2>4. \A i \in D : i \notin B => p[i] \in D /\ r[p[i]] < r[i]
    <3> SUFFICES ASSUME NEW i \in D, i \notin B PROVE p[i] \in D /\ r[p[i]] < r[i]
      OBVIOUS
    <3>1. i \div base \in D /\ i \div base < i
      BY <1>2
    <3> QED
      BY <3>1
  <2>5. \A i \in D : i \notin B => \A v \in V : st[i][v] \in V
    BY <1>3, <1>4
  <2>6. \A i \in D : i \in B <=> i < base
    OBVIOUS
  <2>7. \A i \in D : b[i] = <<>> \o dg(i) /\ p[i] = i \div base /\ \A v \in V : st[i][v] = v \o dg(i)
    OBVIOUS
  <2> HIDE DEF r, B, b, p, st, D, N
  <2>8. Recursive(D, r, N, V, B, b, p, st)
    BY <2>1, <2>2, <2>3, <2>4, <2>5 DEF Recursive
  <2>9. PICK f \in [D -> V] : Solves(f, D, B, b, p, st)
    BY <2>8, Recursion, Zenon
  <2>10. ASSUME NEW i \in D PROVE f[i] = (IF i < base THEN <<>> ELSE f[i \div base]) \o dg(i)
    <3>1. CASE i < base
      BY <3>1, <2>6, <2>7, <2>9 DEF Solves
    <3>2. CASE ~(i < base)
      <4>1. i \div base \in D
        BY <3>2, <1>2
      <4>2. f[i \div base] \in V
        BY <4>1
      <4>3. f[i] = st[i][f[p[i]]]
        BY <3>2, <2>6, <2>9 DEF Solves
      <4> QED
        BY <4>2, <4>3, <3>2, <2>7
    <3> QED
      BY <3>1, <3>2
  <2> QED
    BY <2>10
<1>6. Eq(g)
  BY <1>5, Zenon
<1> HIDE DEF g
<1>7. \A i \in D : g[i] = (IF i < base THEN <<>> ELSE g[i \div base]) \o dg(i)
  BY <1>6
<1> DEFINE T == {i \in D : g[i] \in V}
           r == [i \in D |-> i]
<1>8. \A i \in D : i \in T
  <2>1. ASSUME NEW i \in D, \A j \in D : r[j] < r[i] => j \in T PROVE i \in T
    <3>1. CASE i < base
      BY <3>1, <1>3, <1>4, <1>7
    <3>2. CASE ~(i < base)
      <4>1. i \div base \in D /\ i \div base < i
        BY <3>2, <1>2
      <4>2. g[i \div base] \in W
        BY <4>1, <2>1, <1>4
      <4>3. g[i] = g[i \div base] \o dg(i)
        BY <3>2, <1>7
      <4> QED
        BY <4>2, <4>3, <1>3
    <3> QED
      BY <3>1, <3>2
  <2>2. \A i \in D : r[i] \in Nat
    OBVIOUS
  <2> HIDE DEF T, r, D
  <2> QED
    BY <2>1, <2>2, RankInduction
<1>9. g[n] \in V
  BY <1>8
<1>10. g[n] = (IF n < base THEN <<>> ELSE g[n \div base]) \o <<Digits[(n % base) + 1]>>
  BY <1>7 DEF dg
<1> QED
  BY <1>1, <1>2, <1>9, <1>10 DEF V

(* stream_proto.c:16-26 against http_ingest.c:128-153: a size that was     *)
(* written in hex is read back.                                            *)
LEMMA HexRoundTrip ==
    ASSUME NEW n \in 0 .. SizeMod - 1
    PROVE  Number(write_hex(n), Hex, 16, SizeMod) = n
<1> USE IngestAssumption
<1> DEFINE b == 16
           D == 0 .. SizeMod - 1
           h == Numeral(b)
           T == {i \in D : Number(h[i], Hex, b, SizeMod) = i}
           r == [i \in D |-> i]
<1>a. b \in Nat /\ b \in {10, 16} /\ b <= 16
  OBVIOUS
<1> HIDE DEF b
<1>1. ASSUME NEW i \in D
      PROVE  /\ ~(i < b) => i \div b \in D /\ i \div b < i
             /\ h[i] = (IF i < b THEN <<>> ELSE h[i \div b]) \o <<Digits[(i % b) + 1]>>
             /\ h[i] \in Seq(Bytes) /\ \A k \in 1 .. Len(h[i]) : h[i][k] \in DOMAIN Hex
  BY <1>a, NumeralIs
<1> HIDE DEF h
<1>2. ASSUME NEW w \in Seq(Bytes), \A k \in 1 .. Len(w) : w[k] \in DOMAIN Hex, NEW v \in 0 .. 15
      PROVE  Number(w \o <<Digits[v + 1]>>, Hex, b, SizeMod)
               = (Number(w, Hex, b, SizeMod) * b + v) % SizeMod
  <2>1. IsNumeral(w, Hex)
    BY <1>2, DigitValues, LenProperties DEF IsNumeral
  <2> DEFINE c == Digits[v + 1]
  <2>2. c \in Bytes /\ Hex[c] = v
    BY DigitIs
  <2> HIDE DEF c
  <2>3. Number(w \o <<c>>, Hex, b, SizeMod) = (Number(w, Hex, b, SizeMod) * b + Hex[c]) % SizeMod
    <3>1. Hex[c] \in Nat /\ SizeMod \in Nat \ {0}
      BY <2>2
    <3> QED
      <4>1. DigitMore(w, c, Hex, b, SizeMod)
        BY <3>1, <2>1, <2>2, <1>2, <1>a, NumberAppend
      <4> QED
        BY <4>1, Zenon DEF DigitMore
  <2> QED
    BY <2>2, <2>3 DEF c
<1>3. \A i \in D : i \in T
  <2>1. ASSUME NEW i \in D, \A j \in D : r[j] < r[i] => j \in T PROVE i \in T
    <3>1. i \in Nat /\ i % SizeMod = i
      OBVIOUS
    <3>a. /\ i % b \in 0 .. 15 /\ (i < b => i % b = i)
          /\ (i \div b) * b + (i % b) = i
      BY <3>1, <1>a, DivIs
    <3>2. CASE i < b
      <4> DEFINE nil == <<>>
      <4>1. nil \in Seq(Bytes) /\ Len(nil) = 0
        BY EmptySeq
      <4> HIDE DEF nil
      <4>2. Number(nil, Hex, b, SizeMod) = 0
        <5>1. SizeMod \in Nat \ {0}
          OBVIOUS
        <5> QED
          BY <5>1, <4>1, <1>a, NumberOfNothing
      <4>3. Number(nil \o <<Digits[(i % b) + 1]>>, Hex, b, SizeMod)
              = (Number(nil, Hex, b, SizeMod) * b + (i % b)) % SizeMod
        <5>1. \A k \in 1 .. Len(nil) : nil[k] \in DOMAIN Hex
          BY <4>1
        <5> QED
          BY <5>1, <4>1, <3>a, <1>2
      <4>4. (0 * b + (i % b)) % SizeMod = i
        BY <3>1, <3>a, <3>2, <1>a
      <4>5. h[i] = nil \o <<Digits[(i % b) + 1]>>
        BY <3>2, <1>1 DEF nil
      <4> QED
        BY <4>2, <4>3, <4>4, <4>5
    <3>3. CASE ~(i < b)
      <4> DEFINE q == i \div b
      <4>1. q \in D /\ q < i
        BY <3>3, <1>1
      <4>2. h[i] = h[q] \o <<Digits[(i % b) + 1]>>
        BY <3>3, <1>1
      <4>3. q * b + (i % b) = i
        BY <3>a
      <4> HIDE DEF q
      <4>4. Number(h[q], Hex, b, SizeMod) = q
        BY <4>1, <2>1
      <4>5. h[q] \in Seq(Bytes) /\ \A k \in 1 .. Len(h[q]) : h[q][k] \in DOMAIN Hex
        BY <4>1, <1>1
      <4>6. Number(h[i], Hex, b, SizeMod) = (q * b + (i % b)) % SizeMod
        BY <4>2, <4>4, <4>5, <3>a, <1>2
      <4> QED
        BY <4>3, <4>6, <3>1
    <3> QED
      BY <3>2, <3>3
  <2>2. \A i \in D : r[i] \in Nat
    OBVIOUS
  <2> HIDE DEF T, r, D
  <2> QED
    BY <2>1, <2>2, RankInduction
<1> QED
  BY <1>3 DEF write_hex, h, b

LEMMA SizeRoundTrip ==
    ASSUME NEW n \in 0 .. SizeMod - 1
    PROVE  /\ write_hex(n) \in Seq(Bytes)
           /\ \A k \in 1 .. Len(write_hex(n)) : write_hex(n)[k] # "LF"
           /\ parse_chunk_size(write_hex(n)) = n
<1> DEFINE w == write_hex(n)
<1>1. w \in Seq(Bytes) /\ Len(w) > 0 /\ \A k \in 1 .. Len(w) : w[k] \in DOMAIN Hex
  BY NumeralIs DEF write_hex
<1>2. Number(w, Hex, 16, SizeMod) = n
  BY HexRoundTrip
<1> HIDE DEF w
<1>3. Len(w) \in Nat /\ w # <<>>
  BY <1>1, LenProperties, EmptySeq
<1>4. \A k \in 1 .. Len(w) : w[k] # "LF" /\ w[k] # ";"
  BY <1>1, DigitIs
<1>5. Find(w, ";") = 0
  BY <1>3, <1>4, FindIs
<1>6. Leading(w, DOMAIN Hex) = w
  BY <1>1, LeadingIs
<1>7. parse_chunk_size(w) = n
  BY <1>2, <1>3, <1>5, <1>6 DEF parse_chunk_size
<1> QED
  BY <1>1, <1>4, <1>7 DEF w

(* The device's constants, unpacked. *)
LEMMA CfgIs ==
    /\ Cfg.path \in Seq(Bytes) /\ Cfg.host \in Seq(Bytes) /\ Cfg.session_id \in Seq(Bytes)
    /\ \A k \in 1 .. Len(Cfg.path) : Cfg.path[k] # "SP" /\ Cfg.path[k] # "LF"
    /\ \A k \in 1 .. Len(Cfg.host) : Cfg.host[k] # "LF"
    /\ \A k \in 1 .. Len(Cfg.session_id) : Cfg.session_id[k] # "LF"
    /\ append_u32(Cfg.wake_conf_milli) \in Seq(Bytes)
    /\ \A k \in 1 .. Len(append_u32(Cfg.wake_conf_milli)) :
          append_u32(Cfg.wake_conf_milli)[k] # "LF"
<1>1. /\ Cfg.path \in Seq(Bytes) /\ Cfg.host \in Seq(Bytes) /\ Cfg.session_id \in Seq(Bytes)
      /\ Cfg.wake_conf_milli \in 0 .. SizeMod - 1
  BY EncoderAssumption
<1>2. /\ DOMAIN Cfg.path = 1 .. Len(Cfg.path) /\ DOMAIN Cfg.host = 1 .. Len(Cfg.host)
      /\ DOMAIN Cfg.session_id = 1 .. Len(Cfg.session_id)
  BY <1>1, LenProperties
<1>3. \A k \in 1 .. Len(Cfg.path) : Cfg.path[k] # "SP" /\ Cfg.path[k] # "LF"
  BY <1>2, EncoderAssumption DEF Without
<1>4. \A k \in 1 .. Len(Cfg.host) : Cfg.host[k] # "LF"
  BY <1>2, EncoderAssumption DEF Without
<1>5. \A k \in 1 .. Len(Cfg.session_id) : Cfg.session_id[k] # "LF"
  BY <1>2, EncoderAssumption DEF Without
<1> DEFINE w == append_u32(Cfg.wake_conf_milli)
<1>6. w \in Seq(Bytes) /\ \A k \in 1 .. Len(w) : w[k] \in DOMAIN Hex
  BY <1>1, NumeralIs DEF append_u32
<1>7. \A k \in 1 .. Len(w) : w[k] # "LF"
  BY <1>6, DigitIs
<1> QED
  BY <1>1, <1>3, <1>4, <1>5, <1>6, <1>7

(* A line that goes after what was written before. *)
IsLine(l) == l \in Seq(Bytes) /\ Len(l) + 1 < LineMax /\ \A k \in 1 .. Len(l) : l[k] # "LF"

LEMMA LineAfter ==
    ASSUME NEW s \in Seq(Bytes), NEW p \in Seq(Bytes), NEW l, IsLine(l),
           Occurs(s, 1, (p \o l) \o CRLF)
    PROVE  /\ Occurs(s, 1, p) /\ (p \o l) \o CRLF \in Seq(Bytes)
           /\ Len((p \o l) \o CRLF) = Len(p) + Len(l) + 2
           /\ Len((p \o l) \o CRLF) <= Len(s)
           /\ LineEnd(s, Len(p) + 1) = Len((p \o l) \o CRLF)
           /\ LineAt(s, Len(p) + 1) = l
           /\ ~TooLong(s, Len(p) + 1)
<1> USE DEF IsLine
<1>1. /\ p \o l \in Seq(Bytes) /\ Len(p \o l) = Len(p) + Len(l)
      /\ (p \o l) \o CRLF \in Seq(Bytes) /\ Len((p \o l) \o CRLF) = Len(p \o l) + 2
  <2> DEFINE pl == p \o l
  <2>1. pl \in Seq(Bytes) /\ Len(pl) = Len(p) + Len(l)
    BY ConcatProperties
  <2> HIDE DEF pl
  <2>2. pl \o CRLF \in Seq(Bytes) /\ Len(pl \o CRLF) = Len(pl) + Len(CRLF)
    BY <2>1, CRLFIs, ConcatProperties
  <2> QED
    BY <2>1, <2>2, CRLFIs DEF pl
<1> DEFINE m == Len(p)
           n == Len(l)
<1>2. m \in Nat /\ n \in Nat /\ Len(s) \in Nat
  BY LenProperties
<1>3. Occurs(s, 1, p \o l) /\ Occurs(s, 1 + Len(p \o l), CRLF)
  BY <1>1, CRLFIs, OccursParts
<1>4. Occurs(s, 1, p) /\ Occurs(s, 1 + m, l)
  BY <1>3, OccursParts
<1>5. Len((p \o l) \o CRLF) <= Len(s)
  <2> DEFINE t == Len((p \o l) \o CRLF)
  <2>1. t = m + n + 2
    BY <1>1
  <2>2. 1 + t - 1 <= Len(s)
    BY DEF Occurs
  <2> HIDE DEF t, m, n
  <2>3. t <= Len(s)
    BY <2>1, <2>2, <1>2
  <2> QED
    BY <2>3 DEF t
<1>6. Occurs(s, (m + 1) + n, CRLF) /\ Occurs(s, m + 1, l) /\ m + 1 \in Nat \ {0}
  <2>1. 1 + m = m + 1 /\ 1 + (m + n) = (m + 1) + n /\ m + 1 \in Nat \ {0}
    BY <1>2
  <2> QED
    BY <2>1, <1>1, <1>3, <1>4
<1>7. LineEnd(s, m + 1) = (m + 1) + n + 1 /\ LineAt(s, m + 1) = l /\ ~TooLong(s, m + 1)
  BY <1>6, EncodedLine
<1>8. (m + 1) + n + 1 = m + n + 2
  BY <1>2
<1> QED
  BY <1>1, <1>4, <1>5, <1>7, <1>8

(* A header line is skipped, the empty line ends the headers. *)
LEMMA HeaderAfter ==
    ASSUME NEW s \in Seq(Bytes), NEW p \in Seq(Bytes), NEW l, IsLine(l),
           Occurs(s, 1, (p \o l) \o CRLF)
    PROVE  /\ Occurs(s, 1, p) /\ (p \o l) \o CRLF \in Seq(Bytes)
           /\ l # <<>> => Headers(s)[Len(p) + 1] = Headers(s)[Len((p \o l) \o CRLF) + 1]
           /\ l = <<>> => Headers(s)[Len(p) + 1] = Body(s)[Len((p \o l) \o CRLF) + 1]
<1> DEFINE i == Len(p) + 1
           t == Len((p \o l) \o CRLF)
<1>1. /\ t = Len(p) + Len(l) + 2 /\ t <= Len(s) /\ LineEnd(s, i) = t /\ LineAt(s, i) = l
      /\ ~TooLong(s, i) /\ Occurs(s, 1, p) /\ (p \o l) \o CRLF \in Seq(Bytes)
  BY LineAfter
<1>2. Len(p) \in Nat /\ Len(l) \in Nat /\ Len(s) \in Nat
  BY LenProperties DEF IsLine
<1> HIDE DEF t
<1>3. i \in 1 .. Len(s) + 1 /\ t # 0
  BY <1>1, <1>2
<1>4. Headers(s)[i] = HeadersAt(s, i, Headers(s))
  BY <1>3, HeadersIs
<1> HIDE DEF i
<1>5. l # <<>> => Headers(s)[i] = Headers(s)[t + 1]
  BY <1>1, <1>3, <1>4 DEF HeadersAt, OfLine
<1>6. l = <<>> => Headers(s)[i] = Body(s)[t + 1]
  BY <1>1, <1>3, <1>4 DEF HeadersAt, OfLine
<1> QED
  BY <1>1, <1>5, <1>6 DEF i, t

(* A name, and a value without an LF. *)
LEMMA Joined ==
    ASSUME NEW a \in Seq(Bytes), NEW b \in Seq(Bytes), Len(a) > 0, Len(a) + Len(b) + 1 < LineMax,
           \A k \in 1 .. Len(a) : a[k] # "LF", \A k \in 1 .. Len(b) : b[k] # "LF"
    PROVE  IsLine(a \o b) /\ a \o b # <<>>
<1> DEFINE m == Len(a)
           n == Len(b)
           c == a \o b
<1>1. m \in Nat /\ n \in Nat
  BY LenProperties
<1>2. c \in Seq(Bytes) /\ Len(c) = m + n
      /\ \A k \in 1 .. m + n : c[k] = IF k <= m THEN a[k] ELSE b[k - m]
  BY ConcatProperties
<1>3. m > 0 /\ m + n + 1 < LineMax
  OBVIOUS
<1> HIDE DEF c, m, n
<1>4. ASSUME NEW k \in 1 .. m + n PROVE c[k] # "LF"
  <2>1. CASE k <= m
    <3>1. k \in 1 .. Len(a)
      BY <2>1, <1>1 DEF m
    <3> QED
      BY <3>1, <2>1, <1>2
  <2>2. CASE ~(k <= m)
    <3>1. k - m \in 1 .. n
      BY <2>2, <1>1
    <3>2. k - m \in 1 .. Len(b)
      BY <3>1 DEF n
    <3> QED
      BY <3>2, <2>2, <1>2
  <2> QED
    BY <2>1, <2>2
<1>5. Len(c) # 0
  BY <1>1, <1>2, <1>3
<1>6. c # <<>>
  BY <1>5, EmptySeq
<1> QED
  BY <1>2, <1>3, <1>4, <1>6 DEF IsLine, c

(* The request header, line by line. *)
Request == <<"P", "SP">> \o Cfg.path \o <<"SP", "H">>
Host == <<"h", ":", "SP">> \o Cfg.host
Encoding == <<"t", ":", "SP", "c">>
Type == <<"y", ":", "SP", "o">>
SessionId == <<"S", ":", "SP">> \o Cfg.session_id
WakeConf == <<"W", ":", "SP">> \o append_u32(Cfg.wake_conf_milli)

WithLine(p, l) == (p \o l) \o CRLF

Upto1 == Request \o CRLF
Upto2 == WithLine(Upto1, Host)
Upto3 == WithLine(Upto2, Encoding)
Upto4 == WithLine(Upto3, Type)
Upto5 == WithLine(Upto4, SessionId)
Upto6 == WithLine(Upto5, WakeConf)

LEMMA HeaderLines == stream_proto_build_request_header = Upto6 \o CRLF
  BY Zenon DEF stream_proto_build_request_header, Request, Host, Encoding, Type, SessionId,
         WakeConf, WithLine, Upto1, Upto2, Upto3, Upto4, Upto5, Upto6

LEMMA RequestLineIs == IsLine(Request) /\ GoodRequest(Request)
<1> USE IngestAssumption
<1> DEFINE a == <<"P", "SP">>
           b == <<"SP", "H">>
           path == Cfg.path
           n == Len(path)
           ap == a \o path
           l == ap \o b
<1>1. /\ a \in Seq(Bytes) /\ Len(a) = 2 /\ a[1] = "P" /\ a[2] = "SP"
      /\ b \in Seq(Bytes) /\ Len(b) = 2 /\ b[1] = "SP" /\ b[2] = "H"
  <2>1. "P" \in Bytes /\ "SP" \in Bytes /\ "H" \in Bytes
    BY EncoderAssumption
  <2> QED
    BY <2>1
<1>2. path \in Seq(Bytes) /\ \A k \in 1 .. n : path[k] # "SP" /\ path[k] # "LF"
  BY CfgIs
<1>3. n \in Nat
  BY <1>2, LenProperties
<1>4. n \in 1 .. PathMax - 1 /\ 5 + n \in 1 .. LineMax - 1 /\ MethodMax > 1
  BY EncoderAssumption
<1>5. Request = l
  BY DEF Request
<1> HIDE DEF a, b, path, n
<1>6. /\ ap \in Seq(Bytes) /\ Len(ap) = 2 + n
      /\ \A k \in 1 .. 2 + n : ap[k] = IF k <= 2 THEN a[k] ELSE path[k - 2]
  <2>1. /\ ap \in Seq(Bytes) /\ Len(ap) = Len(a) + Len(path)
        /\ \A k \in 1 .. Len(a) + Len(path) :
              ap[k] = IF k <= Len(a) THEN a[k] ELSE path[k - Len(a)]
    BY <1>1, <1>2, ConcatProperties
  <2> HIDE DEF ap
  <2> QED
    BY <2>1, <1>1 DEF n
<1> HIDE DEF ap
<1>7. /\ l \in Seq(Bytes) /\ Len(l) = 2 + n + 2
      /\ \A k \in 1 .. 2 + n + 2 : l[k] = IF k <= 2 + n THEN ap[k] ELSE b[k - (2 + n)]
  <2>1. /\ l \in Seq(Bytes) /\ Len(l) = Len(ap) + Len(b)
        /\ \A k \in 1 .. Len(ap) + Len(b) :
              l[k] = IF k <= Len(ap) THEN ap[k] ELSE b[k - Len(ap)]
    BY <1>1, <1>6, ConcatProperties
  <2> HIDE DEF l
  <2> QED
    BY <2>1, <1>1, <1>6
<1> HIDE DEF l
<1>8. l[1] = "P" /\ l[2] = "SP"
  <2>1. 1 \in 1 .. 2 + n /\ 2 \in 1 .. 2 + n /\ 1 <= 2 + n /\ 2 <= 2 + n
        /\ 1 \in 1 .. 2 + n + 2 /\ 2 \in 1 .. 2 + n + 2
    BY <1>3
  <2>2. l[1] = ap[1] /\ l[2] = ap[2]
    BY <2>1, <1>7
  <2>3. ap[1] = a[1] /\ ap[2] = a[2]
    BY <2>1, <1>6
  <2> QED
    BY <2>2, <2>3, <1>1
<1>9. ASSUME NEW k \in 1 .. n PROVE l[2 + k] # "SP" /\ l[2 + k] # "LF"
  <2>1. /\ 2 + k \in 1 .. 2 + n /\ 2 + k <= 2 + n /\ 2 + k \in 1 .. 2 + n + 2
        /\ ~(2 + k <= 2) /\ (2 + k) - 2 = k
    BY <1>3
  <2>2. l[2 + k] = path[k]
    BY <2>1, <1>6, <1>7
  <2> QED
    BY <2>2, <1>2
<1>10. l[n + 3] = "SP" /\ l[n + 4] = "H"
  <2>1. /\ n + 3 \in 1 .. 2 + n + 2 /\ n + 4 \in 1 .. 2 + n + 2
        /\ ~(n + 3 <= 2 + n) /\ ~(n + 4 <= 2 + n)
        /\ (n + 3) - (2 + n) = 1 /\ (n + 4) - (2 + n) = 2
    BY <1>3
  <2>2. l[n + 3] = b[1] /\ l[n + 4] = b[2]
    BY <2>1, <1>7
  <2> QED
    BY <2>2, <1>1
<1>11. \A k \in 1 .. n + 4 : k = 1 \/ k = 2 \/ (k - 2 \in 1 .. n /\ 2 + (k - 2) = k)
                              \/ k = n + 3 \/ k = n + 4
  BY <1>3
<1>12. \A k \in 1 .. n + 4 : l[k] # "LF"
  BY <1>8, <1>9, <1>10, <1>11
<1>13. ASSUME NEW k \in 1 .. (n + 3) - 1, l[k] = "SP" PROVE k = 2
  <2>1. k \in 1 .. n + 4 /\ k # n + 3 /\ k # n + 4
    BY <1>3
  <2> QED
    BY <2>1, <1>8, <1>9, <1>11, <1>13
<1>14. 2 + n + 2 = n + 4
  BY <1>3
<1>15. IsLine(l)
  <2>1. n + 4 + 1 < LineMax
    BY <1>3, <1>4
  <2> QED
    BY <2>1, <1>7, <1>12, <1>14 DEF IsLine
<1>16. GoodRequest(l)
  <2> DEFINE j == n + 3
  <2>1. 2 \in 1 .. Len(l) /\ j \in 1 .. Len(l) /\ 2 < j
    BY <1>3, <1>7
  <2>2. 2 - 1 \in 1 .. MethodMax - 1 /\ j - 2 - 1 \in 1 .. PathMax - 1
    BY <1>3, <1>4
  <2>3. l[2] = "SP" /\ l[j] = "SP" /\ \A k \in 1 .. j - 1 : l[k] = "SP" => k = 2
    BY <1>8, <1>10, <1>13
  <2> HIDE DEF j
  <2> QED
    BY <2>1, <2>2, <2>3 DEF GoodRequest
<1> QED
  BY <1>5, <1>15, <1>16

LEMMA OtherLinesAre ==
    /\ IsLine(Host) /\ Host # <<>>
    /\ IsLine(Encoding) /\ Encoding # <<>>
    /\ IsLine(Type) /\ Type # <<>>
    /\ IsLine(SessionId) /\ SessionId # <<>>
    /\ IsLine(WakeConf) /\ WakeConf # <<>>
    /\ IsLine(<<>>)
<1> USE IngestAssumption
<1>1. /\ "h" \in Bytes /\ ":" \in Bytes /\ "SP" \in Bytes /\ "t" \in Bytes /\ "c" \in Bytes
      /\ "y" \in Bytes /\ "o" \in Bytes /\ "S" \in Bytes /\ "W" \in Bytes
  BY EncoderAssumption
<1>2. /\ 5 \in 1 .. LineMax - 1 /\ 4 + Len(Cfg.host) \in 1 .. LineMax - 1
      /\ 4 + Len(Cfg.session_id) \in 1 .. LineMax - 1
      /\ 4 + Len(append_u32(Cfg.wake_conf_milli)) \in 1 .. LineMax - 1
  BY EncoderAssumption
<1>3. ASSUME NEW x \in Bytes, NEW y \in Bytes, NEW z \in Bytes,
             x # "LF", y # "LF", z # "LF", NEW v \in Seq(Bytes),
             \A k \in 1 .. Len(v) : v[k] # "LF", 4 + Len(v) \in 1 .. LineMax - 1
      PROVE  IsLine(<<x, y, z>> \o v) /\ <<x, y, z>> \o v # <<>>
  <2> DEFINE a == <<x, y, z>>
  <2>1. a \in Seq(Bytes) /\ Len(a) = 3 /\ a[1] = x /\ a[2] = y /\ a[3] = z
    OBVIOUS
  <2> HIDE DEF a
  <2>2. \A k \in 1 .. 3 : k = 1 \/ k = 2 \/ k = 3
    OBVIOUS
  <2>3. \A k \in 1 .. Len(a) : a[k] # "LF"
    BY <2>1, <2>2, <1>3
  <2>4. Len(v) \in Nat
    BY LenProperties
  <2>5. Len(a) > 0 /\ Len(a) + Len(v) + 1 < LineMax
    BY <2>1, <2>4, <1>3
  <2>6. IsLine(a \o v) /\ a \o v # <<>>
    BY <2>1, <2>3, <2>5, <1>3, Joined
  <2> QED
    BY <2>6 DEF a
<1>4. IsLine(Host) /\ Host # <<>>
  BY <1>1, <1>2, <1>3, CfgIs DEF Host
<1>5. IsLine(SessionId) /\ SessionId # <<>>
  BY <1>1, <1>2, <1>3, CfgIs DEF SessionId
<1>6. IsLine(WakeConf) /\ WakeConf # <<>>
  <2> DEFINE w == append_u32(Cfg.wake_conf_milli)
  <2>1. w \in Seq(Bytes) /\ (\A k \in 1 .. Len(w) : w[k] # "LF") /\ 4 + Len(w) \in 1 .. LineMax - 1
    BY <1>2, CfgIs
  <2>2. WakeConf = <<"W", ":", "SP">> \o w
    BY DEF WakeConf
  <2> HIDE DEF w
  <2> QED
    BY <2>1, <2>2, <1>1, <1>3
<1>7. ASSUME NEW x \in Bytes, NEW y \in Bytes, NEW z \in Bytes, NEW w \in Bytes,
             x # "LF", y # "LF", z # "LF", w # "LF"
      PROVE  IsLine(<<x, y, z, w>>) /\ <<x, y, z, w>> # <<>>
  <2> DEFINE a == <<x, y, z, w>>
  <2>1. a \in Seq(Bytes) /\ Len(a) = 4 /\ a[1] = x /\ a[2] = y /\ a[3] = z /\ a[4] = w
    OBVIOUS
  <2> HIDE DEF a
  <2>2. \A k \in 1 .. 4 : k = 1 \/ k = 2 \/ k = 3 \/ k = 4
    OBVIOUS
  <2>3. \A k \in 1 .. Len(a) : a[k] # "LF"
    BY <2>1, <2>2, <1>7
  <2>4. Len(a) + 1 < LineMax
    BY <2>1, <1>2
  <2>5. a # <<>>
    <3>1. Len(a) # 0
      BY <2>1
    <3> QED
      BY <3>1, EmptySeq
  <2> QED
    BY <2>1, <2>3, <2>4, <2>5 DEF IsLine, a
<1>8. IsLine(Encoding) /\ Encoding # <<>>
  BY <1>1, <1>7 DEF Encoding
<1>9. IsLine(Type) /\ Type # <<>>
  BY <1>1, <1>7 DEF Type
<1>10. IsLine(<<>>)
  <2>1. <<>> \in Seq(Bytes) /\ Len(<<>>) = 0
    BY EmptySeq
  <2> DEFINE nil == <<>>
  <2>2. nil \in Seq(Bytes) /\ Len(nil) = 0 /\ 0 + 1 < LineMax
    BY <2>1, <1>2
  <2> HIDE DEF nil
  <2>3. IsLine(nil)
    BY <2>2 DEF IsLine
  <2> QED
    BY <2>3 DEF nil
<1> QED
  BY <1>4, <1>5, <1>6, <1>8, <1>9, <1>10

LEMMA WithLineType ==
    ASSUME NEW p \in Seq(Bytes), NEW l, IsLine(l)
    PROVE  WithLine(p, l) \in Seq(Bytes)
<1> DEFINE q == p \o l
<1>1. q \in Seq(Bytes)
  BY ConcatProperties DEF IsLine
<1> HIDE DEF q
<1>2. q \o CRLF \in Seq(Bytes)
  BY <1>1, CRLFIs, ConcatProperties
<1> QED
  BY <1>2 DEF WithLine, q

LEMMA HeaderTypes ==
    /\ Upto1 \in Seq(Bytes) /\ Upto2 \in Seq(Bytes) /\ Upto3 \in Seq(Bytes)
    /\ Upto4 \in Seq(Bytes) /\ Upto5 \in Seq(Bytes) /\ Upto6 \in Seq(Bytes)
    /\ stream_proto_build_request_header \in Seq(Bytes)
<1>1. Upto1 \in Seq(Bytes)
  BY RequestLineIs, CRLFIs, ConcatProperties DEF Upto1, IsLine
<1>2. Upto2 \in Seq(Bytes)
  BY <1>1, OtherLinesAre, WithLineType DEF Upto2
<1>3. Upto3 \in Seq(Bytes)
  BY <1>2, OtherLinesAre, WithLineType DEF Upto3
<1>4. Upto4 \in Seq(Bytes)
  BY <1>3, OtherLinesAre, WithLineType DEF Upto4
<1>5. Upto5 \in Seq(Bytes)
  BY <1>4, OtherLinesAre, WithLineType DEF Upto5
<1>6. Upto6 \in Seq(Bytes)
  BY <1>5, OtherLinesAre, WithLineType DEF Upto6
<1>7. Upto6 \o CRLF \in Seq(Bytes)
  BY <1>6, CRLFIs, ConcatProperties
<1> QED
  BY <1>1, <1>2, <1>3, <1>4, <1>5, <1>6, <1>7, HeaderLines

(* One header line more. *)
LEMMA HeaderSkipped ==
    ASSUME NEW s \in Seq(Bytes), NEW p \in Seq(Bytes), NEW l, IsLine(l), l # <<>>,
           Occurs(s, 1, WithLine(p, l))
    PROVE  Occurs(s, 1, p) /\ Headers(s)[Len(p) + 1] = Headers(s)[Len(WithLine(p, l)) + 1]
<1>1. Occurs(s, 1, (p \o l) \o CRLF)
  BY DEF WithLine
<1>2. Occurs(s, 1, p) /\ (l # <<>> => Headers(s)[Len(p) + 1] = Headers(s)[Len((p \o l) \o CRLF) + 1])
  BY <1>1, HeaderAfter
<1> QED
  BY <1>2 DEF WithLine

(* stream_proto.c:66-87: the server reads the header that was written, up  *)
(* to its last byte.                                                       *)
LEMMA HeaderIsRead ==
    ASSUME NEW s \in Seq(Bytes), Occurs(s, 1, stream_proto_build_request_header)
    PROVE  Reference(s) = Body(s)[Len(stream_proto_build_request_header) + 1]
<1> DEFINE nil == <<>>
<1>0. nil \in Seq(Bytes) /\ Len(nil) = 0 /\ IsLine(nil)
  BY EmptySeq, OtherLinesAre
<1>1. Upto6 \o nil = Upto6 /\ nil \o Request = Request /\ Request \in Seq(Bytes)
  BY HeaderTypes, RequestLineIs, ConcatEmptySeq DEF IsLine
<1>2. nil = <<>>
  OBVIOUS
<1> HIDE DEF nil
<1>3. stream_proto_build_request_header = (Upto6 \o nil) \o CRLF
  BY <1>1, HeaderLines
<1>4. /\ Occurs(s, 1, Upto6)
      /\ Headers(s)[Len(Upto6) + 1] = Body(s)[Len(stream_proto_build_request_header) + 1]
  <2>1. Occurs(s, 1, (Upto6 \o nil) \o CRLF)
    BY <1>3
  <2>0. Upto6 \in Seq(Bytes) /\ IsLine(nil)
    BY <1>0, HeaderTypes
  <2>2. /\ Occurs(s, 1, Upto6)
        /\ nil = <<>> => Headers(s)[Len(Upto6) + 1] = Body(s)[Len((Upto6 \o nil) \o CRLF) + 1]
    BY <2>0, <2>1, HeaderAfter
  <2> QED
    BY <2>2, <1>2, <1>3
<1>5. Occurs(s, 1, Upto5) /\ Headers(s)[Len(Upto5) + 1] = Headers(s)[Len(Upto6) + 1]
  BY <1>4, OtherLinesAre, HeaderTypes, HeaderSkipped DEF Upto6
<1>6. Occurs(s, 1, Upto4) /\ Headers(s)[Len(Upto4) + 1] = Headers(s)[Len(Upto5) + 1]
  BY <1>5, OtherLinesAre, HeaderTypes, HeaderSkipped DEF Upto5
<1>7. Occurs(s, 1, Upto3) /\ Headers(s)[Len(Upto3) + 1] = Headers(s)[Len(Upto4) + 1]
  BY <1>6, OtherLinesAre, HeaderTypes, HeaderSkipped DEF Upto4
<1>8. Occurs(s, 1, Upto2) /\ Headers(s)[Len(Upto2) + 1] = Headers(s)[Len(Upto3) + 1]
  BY <1>7, OtherLinesAre, HeaderTypes, HeaderSkipped DEF Upto3
<1>9. Occurs(s, 1, Upto1) /\ Headers(s)[Len(Upto1) + 1] = Headers(s)[Len(Upto2) + 1]
  BY <1>8, OtherLinesAre, HeaderTypes, HeaderSkipped DEF Upto2
<1>10. Reference(s) = Headers(s)[Len(Upto1) + 1]
  <2>1. (nil \o Request) \o CRLF = Upto1
    BY <1>1 DEF Upto1
  <2>2. Occurs(s, 1, (nil \o Request) \o CRLF)
    BY <2>1, <1>9
  <2>3. /\ LineEnd(s, Len(nil) + 1) = Len((nil \o Request) \o CRLF)
        /\ LineAt(s, Len(nil) + 1) = Request
        /\ ~TooLong(s, Len(nil) + 1)
        /\ Len((nil \o Request) \o CRLF) = Len(nil) + Len(Request) + 2
    BY <2>2, <1>0, RequestLineIs, LineAfter
  <2>4. Len(nil) + 1 = 1 /\ Len(Request) \in Nat
    BY <1>0, <1>1, LenProperties
  <2>5. Len(nil) + Len(Request) + 2 # 0
    BY <2>4, <1>0
  <2>6. LineEnd(s, 1) = Len(Upto1) /\ LineAt(s, 1) = Request /\ ~TooLong(s, 1) /\ Len(Upto1) # 0
    BY <2>1, <2>3, <2>4, <2>5
  <2> QED
    BY <2>6, RequestLineIs DEF Reference, OfLine
<1> QED
  BY <1>4, <1>5, <1>6, <1>7, <1>8, <1>9, <1>10

LEMMA ChunkType ==
    ASSUME NEW frame \in Seq(Bytes), Len(frame) \in 0 .. SizeMod - 1
    PROVE  /\ stream_proto_encode_chunk(frame) \in Seq(Bytes)
           /\ Len(stream_proto_encode_chunk(frame))
                = Len(write_hex(Len(frame))) + 2 + Len(frame) + 2
<1> DEFINE w == write_hex(Len(frame))
           c1 == w \o CRLF
           c2 == c1 \o frame
           c3 == c2 \o CRLF
<1>1. w \in Seq(Bytes)
  BY SizeRoundTrip
<1> HIDE DEF w
<1>2. c1 \in Seq(Bytes) /\ Len(c1) = Len(w) + Len(CRLF)
  BY <1>1, CRLFIs, ConcatProperties
<1> HIDE DEF c1
<1>3. c2 \in Seq(Bytes) /\ Len(c2) = Len(c1) + Len(frame)
  BY <1>2, ConcatProperties
<1> HIDE DEF c2
<1>4. c3 \in Seq(Bytes) /\ Len(c3) = Len(c2) + Len(CRLF)
  BY <1>3, CRLFIs, ConcatProperties
<1>5. stream_proto_encode_chunk(frame) = c3
  BY DEF stream_proto_encode_chunk, c2, c1, w
<1> HIDE DEF c3
<1> QED
  BY <1>2, <1>3, <1>4, <1>5, CRLFIs DEF w

(* stream_proto.c:98-117: the server reads a chunk that was written, and   *)
(* passes its frame on.                                                    *)
LEMMA ChunkIsRead ==
    ASSUME NEW s \in Seq(Bytes), NEW i \in Nat \ {0}, NEW frame \in Seq(Bytes),
           Len(frame) \in 1 .. SizeMod - 2, Len(write_hex(Len(frame))) + 1 < LineMax,
           Occurs(s, i, stream_proto_encode_chunk(frame))
    PROVE  Body(s)[i] = After(frame, Body(s)[i + Len(stream_proto_encode_chunk(frame))])
<1> USE IngestAssumption
<1> DEFINE w == write_hex(Len(frame))
           nil == <<>>
           n == Len(w)
           m == Len(frame)
           L == Len(s)
           c1 == w \o CRLF
           c2 == c1 \o frame
           c3 == c2 \o CRLF
<1>1. m \in 0 .. SizeMod - 1 /\ m # 0 /\ m # SizeMod - 1 /\ n + 1 < LineMax
  OBVIOUS
<1>2. /\ w \in Seq(Bytes) /\ (\A k \in 1 .. n : w[k] # "LF") /\ parse_chunk_size(w) = m
      /\ Len(stream_proto_encode_chunk(frame)) = n + 2 + m + 2
  BY <1>1, SizeRoundTrip, ChunkType
<1>3. stream_proto_encode_chunk(frame) = c3
  BY DEF stream_proto_encode_chunk
<1>4. n \in Nat /\ m \in Nat /\ L \in Nat
  BY <1>2, LenProperties
<1>0. nil \in Seq(Bytes) /\ Len(nil) = 0 /\ nil = <<>>
  BY EmptySeq
<1> HIDE DEF w, nil
<1>5. c1 \in Seq(Bytes) /\ Len(c1) = n + 2
  <2>1. c1 \in Seq(Bytes) /\ Len(c1) = Len(w) + Len(CRLF)
    BY <1>2, CRLFIs, ConcatProperties
  <2> QED
    BY <2>1, CRLFIs
<1> HIDE DEF c1
<1>6. c2 \in Seq(Bytes) /\ Len(c2) = n + 2 + m
  BY <1>5, ConcatProperties
<1> HIDE DEF c2
<1>7. Occurs(s, i, c2) /\ Occurs(s, i + Len(c2), CRLF)
  BY <1>3, <1>6, CRLFIs, OccursParts
<1>8. Occurs(s, i, c1) /\ Occurs(s, i + Len(c1), frame)
  BY <1>5, <1>7, OccursParts DEF c2
<1>9. Occurs(s, i, w) /\ Occurs(s, i + n, CRLF)
  BY <1>2, <1>8, CRLFIs, OccursParts DEF c1
<1> HIDE DEF n, m, L
<1> DEFINE d == i + n + 2
           e == d + m
<1>10. /\ d \in Nat \ {0} /\ e \in Nat \ {0} /\ d = (i + n + 1) + 1 /\ i + (n + 2) = d
       /\ i + (n + 2 + m) = e /\ e - 1 \in Nat /\ d + m - 1 = e - 1
       /\ e + 1 + 1 = i + (n + 2 + m + 2)
  BY <1>4
<1>11. Occurs(s, d, frame) /\ Occurs(s, e, CRLF)
  BY <1>5, <1>6, <1>7, <1>8, <1>10
<1> HIDE DEF d, e
<1>12. LineEnd(s, i) = i + n + 1 /\ LineAt(s, i) = w /\ ~TooLong(s, i)
  BY <1>1, <1>2, <1>9, EncodedLine DEF n
<1>13. e + 1 <= L /\ \A k \in 1 .. m : s[d + k - 1] = frame[k]
  <2>1. e + 2 - 1 <= L
    BY <1>11, CRLFIs DEF Occurs, L
  <2>2. \A k \in 1 .. m : s[d + k - 1] = frame[k]
    BY <1>11 DEF Occurs, m
  <2> QED
    BY <2>1, <2>2, <1>4, <1>10
<1>14. i \in 1 .. L + 1 /\ d <= L /\ ~(L < e - 1) /\ e - 1 <= L /\ e \in 1 .. L
  <2>1. e = d + m
    BY DEF e
  <2>2. i < d
    BY <1>4 DEF d
  <2> QED
    BY <2>1, <2>2, <1>1, <1>4, <1>10, <1>13
<1>15. Body(s)[i] = DataAt(s, d, m, Body(s))
  <2>1. Body(s)[i] = BodyAt(s, i, Body(s))
    BY <1>14, BodyIs DEF L
  <2>2. i + n + 1 # 0
    BY <1>4
  <2> QED
    BY <2>1, <2>2, <1>1, <1>2, <1>10, <1>12 DEF BodyAt, OfLine
<1>16. SubSeq(s, d, e - 1) = frame
  <2> DEFINE b == e - 1
  <2>1. b \in Nat /\ b <= L /\ b - d + 1 = m /\ (~(d <= b) => m = 0)
    <3>1. e = d + m
      BY DEF e
    <3> QED
      BY <3>1, <1>4, <1>10, <1>14
  <2> HIDE DEF b
  <2>0. d \in Nat \ {0} /\ b \in Nat /\ b <= Len(s)
    BY <2>1, <1>10 DEF L
  <2>2. /\ SubSeq(s, d, b) \in Seq(Bytes)
        /\ Len(SubSeq(s, d, b)) = IF d <= b THEN b - d + 1 ELSE 0
        /\ \A k \in 1 .. b - d + 1 : SubSeq(s, d, b)[k] = s[d + k - 1]
    BY <2>0, SubSeqIs
  <2>3. Len(SubSeq(s, d, b)) = Len(frame)
    BY <2>1, <2>2 DEF m
  <2>4. \A k \in 1 .. Len(frame) : SubSeq(s, d, b)[k] = frame[k]
    BY <2>1, <2>2, <1>13 DEF m
  <2>5. SubSeq(s, d, b) = frame
    BY <2>2, <2>3, <2>4, SeqEqual
  <2> QED
    BY <2>5 DEF b
<1>17. DataAt(s, d, m, Body(s)) = After(frame, CrlfAt(s, e, Body(s)))
  <2>1. d + m = e /\ d + m - 1 = e - 1
    BY <1>10 DEF e
  <2> QED
    BY <2>1, <1>14, <1>16 DEF DataAt, L
<1>18. LineEnd(s, e) = e + 1 /\ LineAt(s, e) = <<>> /\ ~TooLong(s, e)
  <2>1. Occurs(s, e, nil) /\ Occurs(s, e + Len(nil), CRLF)
    <3>1. e + 0 - 1 <= L /\ e + 0 = e
      BY <1>10, <1>14
    <3> QED
      BY <3>1, <1>0, <1>11 DEF Occurs, L
  <2>2. Len(nil) + 1 < LineMax
    BY <1>0, <1>1, <1>4
  <2>0. nil \in Seq(Bytes) /\ e \in Nat \ {0} /\ \A k \in 1 .. Len(nil) : nil[k] # "LF"
    BY <1>0, <1>10
  <2>3. LineEnd(s, e) = e + Len(nil) + 1 /\ LineAt(s, e) = nil /\ ~TooLong(s, e)
    BY <2>0, <2>1, <2>2, EncodedLine
  <2>4. e + 0 + 1 = e + 1
    BY <1>10
  <2> QED
    BY <2>3, <2>4, <1>0
<1>19. CrlfAt(s, e, Body(s)) = Body(s)[e + 1 + 1]
  <2>1. e + 1 # 0
    BY <1>10
  <2> QED
    BY <2>1, <1>18 DEF CrlfAt, OfLine
<1> QED
  BY <1>2, <1>10, <1>15, <1>17, <1>19 DEF n, m

LEMMA FinalType == stream_proto_encode_final \in Seq(Bytes)
<1> DEFINE w == <<"0">>
           c1 == w \o CRLF
<1>1. w \in Seq(Bytes)
  <2>1. 0 \in 0 .. 15 /\ 0 + 1 = 1 /\ Digits[1] = "0"
    BY DEF Digits
  <2>2. "0" \in Bytes
    BY <2>1, DigitIs
  <2> QED
    BY <2>2
<1>2. stream_proto_encode_final = c1 \o CRLF
  BY DEF stream_proto_encode_final
<1> HIDE DEF w
<1>3. c1 \in Seq(Bytes)
  BY <1>1, CRLFIs, ConcatProperties
<1> HIDE DEF c1
<1> QED
  BY <1>2, <1>3, CRLFIs, ConcatProperties

(* stream_proto.c:119-128: the last chunk ends the stream. *)
LEMMA FinalIsRead ==
    ASSUME NEW s \in Seq(Bytes), NEW i \in Nat \ {0}, Occurs(s, i, stream_proto_encode_final)
    PROVE  Body(s)[i] = Verdict("complete", <<>>)
<1> USE IngestAssumption
<1> DEFINE nil == <<>>
           w == <<"0">>
           c1 == w \o CRLF
           c2 == c1 \o CRLF
           L == Len(s)
<1>0. nil \in Seq(Bytes) /\ Len(nil) = 0 /\ nil = <<>>
  BY EmptySeq
<1>1. 5 < LineMax /\ 0 \in 0 .. SizeMod - 1 /\ 0 # SizeMod - 1
  BY EncoderAssumption
<1>2. Digits[1] = "0"
  BY DEF Digits
<1>3. w \in Seq(Bytes) /\ Len(w) = 1 /\ w[1] = "0"
  <2>1. "0" \in Bytes
    <3>1. 0 \in 0 .. 15 /\ 0 + 1 = 1
      OBVIOUS
    <3> QED
      BY <3>1, <1>2, DigitIs
  <2> QED
    BY <2>1
<1>4. write_hex(0) = w
  <2>1. Numeral(16)[0] = (IF 0 < 16 THEN <<>> ELSE Numeral(16)[0 \div 16]) \o <<Digits[(0 % 16) + 1]>>
    BY <1>1, NumeralIs
  <2>2. 0 < 16 /\ (0 % 16) + 1 = 1
    OBVIOUS
  <2>3. Numeral(16)[0] = <<>> \o w
    BY <2>1, <2>2, <1>2
  <2>4. <<>> \o w = w
    BY <1>3, ConcatEmptySeq
  <2> QED
    BY <2>3, <2>4 DEF write_hex
<1>5. parse_chunk_size(w) = 0
  BY <1>1, <1>4, SizeRoundTrip
<1>6. stream_proto_encode_final = c2
  BY DEF stream_proto_encode_final
<1> HIDE DEF w, nil
<1>7. c1 \in Seq(Bytes) /\ Len(c1) = 3
  <2>1. c1 \in Seq(Bytes) /\ Len(c1) = Len(w) + Len(CRLF)
    BY <1>3, CRLFIs, ConcatProperties
  <2> HIDE DEF c1
  <2> QED
    BY <2>1, <1>3, CRLFIs
<1> HIDE DEF c1
<1>8. Occurs(s, i, c1) /\ Occurs(s, i + Len(c1), CRLF)
  BY <1>6, <1>7, CRLFIs, OccursParts
<1>9. Occurs(s, i, w) /\ Occurs(s, i + Len(w), CRLF)
  BY <1>3, <1>8, CRLFIs, OccursParts DEF c1
<1>10. LineEnd(s, i) = i + Len(w) + 1 /\ LineAt(s, i) = w /\ ~TooLong(s, i)
  <2>1. Len(w) + 1 < LineMax
    BY <1>1, <1>3
  <2>2. \A k \in 1 .. Len(w) : w[k] # "LF"
    BY <1>3
  <2> QED
    BY <2>1, <2>2, <1>3, <1>9, EncodedLine
<1> DEFINE e == i + 3
<1>11. e \in Nat \ {0} /\ i + Len(w) + 1 + 1 = e /\ i + Len(c1) = e /\ i + Len(w) + 1 # 0
  BY <1>3, <1>7
<1>12. L \in Nat
  BY LenProperties
<1>13. e + 2 - 1 <= L
  BY <1>8, <1>11, CRLFIs DEF Occurs
<1>14. i \in 1 .. L + 1
  BY <1>12, <1>13
<1> HIDE DEF e
<1>15. LineEnd(s, e) # 0 /\ ~TooLong(s, e)
  <2>1. Occurs(s, e, nil) /\ Occurs(s, e + Len(nil), CRLF)
    <3>1. e + 0 - 1 <= L /\ e + 0 = e
      BY <1>11, <1>12, <1>13
    <3>2. Occurs(s, e, nil)
      BY <3>1, <1>0 DEF Occurs
    <3>3. Occurs(s, e + Len(nil), CRLF)
      BY <3>1, <1>0, <1>8, <1>11
    <3> QED
      BY <3>2, <3>3
  <2>2. Len(nil) + 1 < LineMax
    BY <1>0, <1>1
  <2>0. nil \in Seq(Bytes) /\ e \in Nat \ {0} /\ \A k \in 1 .. Len(nil) : nil[k] # "LF"
    BY <1>0, <1>11
  <2>3. LineEnd(s, e) = e + Len(nil) + 1 /\ ~TooLong(s, e)
    BY <2>0, <2>1, <2>2, EncodedLine
  <2>4. e + 0 + 1 # 0
    BY <1>11
  <2> QED
    BY <2>3, <2>4, <1>0
<1>16. Body(s)[i] = BodyAt(s, i, Body(s))
  BY <1>14, BodyIs
<1>17. Body(s)[i] = TrailerAt(s, e)
  BY <1>1, <1>5, <1>10, <1>11, <1>16 DEF BodyAt, OfLine
<1> QED
  BY <1>15, <1>17 DEF TrailerAt, OfLine

(* Sequences written one after the other. *)
LEMMA AppendTypes ==
    ASSUME NEW N \in Nat, NEW b \in Seq(Bytes), NEW x, \A k \in 1 .. N : x[k] \in Seq(Bytes),
           NEW f, f[0] = b, \A k \in 1 .. N : f[k] = f[k - 1] \o x[k]
    PROVE  \A k \in 0 .. N : f[k] \in Seq(Bytes)
<1> DEFINE T == {k \in Nat : k <= N => f[k] \in Seq(Bytes)}
<1>1. 0 \in T
  OBVIOUS
<1>2. ASSUME NEW k \in Nat, k \in T PROVE k + 1 \in T
  <2> SUFFICES ASSUME k + 1 <= N PROVE f[k + 1] \in Seq(Bytes)
    OBVIOUS
  <2>1. k <= N /\ k + 1 \in 1 .. N /\ (k + 1) - 1 = k
    OBVIOUS
  <2>2. f[k] \in Seq(Bytes) /\ x[k + 1] \in Seq(Bytes)
    BY <1>2, <2>1
  <2>3. f[k + 1] = f[k] \o x[k + 1]
    BY <2>1
  <2> QED
    BY <2>2, <2>3, ConcatProperties
<1> HIDE DEF T
<1>3. \A k \in Nat : k \in T
  BY <1>1, <1>2, Induction
<1>4. ASSUME NEW k \in 0 .. N PROVE f[k] \in Seq(Bytes)
  BY <1>3 DEF T
<1> QED
  BY <1>4

Appends(f, N, c, x) ==
    /\ f \in [0 .. N -> Seq(Bytes)]
    /\ f[0] = c
    /\ \A k \in 1 .. N : f[k] = f[k - 1] \o x[k]

LEMMA Appended ==
    ASSUME NEW N \in Nat, NEW c \in Seq(Bytes), NEW x, \A k \in 1 .. N : x[k] \in Seq(Bytes)
    PROVE  \E f : Appends(f, N, c, x)
<1> DEFINE D == 0 .. N
           V == Seq(Bytes)
           r == [i \in D |-> i]
           B == {0}
           b == [i \in D |-> c]
           p == [i \in D |-> i - 1]
           st == [i \in D |-> [v \in V |-> v \o x[i]]]
<1>1. V # {} /\ \A i \in D : i \in B => b[i] \in V
  OBVIOUS
<1>2. \A i \in D : r[i] \in 0 .. N
  OBVIOUS
<1>3. \A i \in D : i \notin B => p[i] \in D /\ r[p[i]] < r[i]
  OBVIOUS
<1>4. \A i \in D : i \notin B => \A v \in V : st[i][v] \in V
  <2> SUFFICES ASSUME NEW i \in D, i \notin B, NEW v \in V PROVE v \o x[i] \in V
    OBVIOUS
  <2>1. x[i] \in Seq(Bytes)
    OBVIOUS
  <2> QED
    BY <2>1, ConcatProperties
<1>5. 0 \in D /\ 0 \in B /\ \A i \in 1 .. N : i \in D /\ i \notin B /\ i - 1 \in D
  OBVIOUS
<1>6. (\A i \in D : b[i] = c /\ p[i] = i - 1) /\ \A i \in D : \A v \in V : st[i][v] = v \o x[i]
  OBVIOUS
<1> HIDE DEF D, V, r, B, b, p, st
<1>7. Recursive(D, r, N, V, B, b, p, st)
  BY <1>1, <1>2, <1>3, <1>4 DEF Recursive
<1>8. PICK f \in [D -> V] : Solves(f, D, B, b, p, st)
  BY <1>7, Recursion, Zenon
<1>9. f[0] = c
  BY <1>5, <1>6, <1>8 DEF Solves
<1>10. ASSUME NEW k \in 1 .. N PROVE f[k] = f[k - 1] \o x[k]
  <2>1. f[k] = st[k][f[p[k]]] /\ p[k] = k - 1
    BY <1>5, <1>6, <1>8 DEF Solves
  <2>2. f[k - 1] \in V
    BY <1>5, <1>8
  <2> QED
    BY <2>1, <2>2, <1>5, <1>6
<1>11. Appends(f, N, c, x)
  BY <1>8, <1>9, <1>10 DEF D, V, Appends
<1> QED
  BY <1>11, Zenon

(* The frames of a session. *)
LEMMA FramesAre ==
    ASSUME NEW frames \in Sessions
    PROVE  /\ Len(frames) \in Nat
           /\ \A k \in 1 .. Len(frames) :
                 /\ frames[k] \in Seq(Bytes) /\ Len(frames[k]) \in 1 .. SizeMod - 2
                 /\ Len(write_hex(Len(frames[k]))) + 1 < LineMax
                 /\ stream_proto_encode_chunk(frames[k]) \in Seq(Bytes)
<1> USE IngestAssumption
<1>1. frames \in Seq(Seq(Bytes))
  BY EncoderAssumption
<1>2. Len(frames) \in Nat /\ DOMAIN frames = 1 .. Len(frames)
  BY <1>1, LenProperties
<1>3. ASSUME NEW k \in 1 .. Len(frames)
      PROVE  /\ frames[k] \in Seq(Bytes) /\ Len(frames[k]) \in 1 .. SizeMod - 2
             /\ Len(write_hex(Len(frames[k]))) + 1 < LineMax
  <2>1. frames[k] \in Seq(Bytes)
    BY <1>1, ElementOfSeq
  <2>2. k \in DOMAIN frames
    BY <1>2
  <2> QED
    BY <2>1, <2>2, EncoderAssumption
<1>4. ASSUME NEW k \in 1 .. Len(frames) PROVE stream_proto_encode_chunk(frames[k]) \in Seq(Bytes)
  <2> DEFINE w == frames[k]
  <2>1. w \in Seq(Bytes) /\ Len(w) \in 1 .. SizeMod - 2
    BY <1>3
  <2> HIDE DEF w
  <2>2. Len(w) \in 0 .. SizeMod - 1
    BY <2>1
  <2>3. stream_proto_encode_chunk(w) \in Seq(Bytes)
    BY <2>1, <2>2, ChunkType
  <2> QED
    BY <2>3 DEF w
<1> QED
  BY <1>2, <1>3, <1>4

LEMMA SentIs ==
    ASSUME NEW frames \in Sessions
    PROVE  /\ Sent(frames)[0] = stream_proto_build_request_header
           /\ \A k \in 1 .. Len(frames) :
                 Sent(frames)[k] = Sent(frames)[k - 1] \o stream_proto_encode_chunk(frames[k])
           /\ \A k \in 0 .. Len(frames) : Sent(frames)[k] \in Seq(Bytes)
<1> DEFINE N == Len(frames)
           h == stream_proto_build_request_header
           ch(k) == stream_proto_encode_chunk(frames[k])
           x == [k \in 1 .. N |-> ch(k)]
           Eq(f) == f = [k \in 0 .. N |-> IF k = 0 THEN h ELSE f[k - 1] \o ch(k)]
           g == CHOOSE f : Eq(f)
<1>1. N \in Nat /\ (\A k \in 1 .. N : ch(k) \in Seq(Bytes)) /\ h \in Seq(Bytes)
  BY FramesAre, HeaderTypes
<1>2. Sent(frames) = g
  BY Zenon DEF Sent
<1> HIDE DEF N, h, ch
<1>3. \A k \in 1 .. N : x[k] \in Seq(Bytes) /\ x[k] = ch(k)
  BY <1>1
<1> HIDE DEF x
<1>4. PICK f : Appends(f, N, h, x)
  BY <1>1, <1>3, Appended
<1>5. ASSUME NEW k \in 0 .. N PROVE f[k] = IF k = 0 THEN h ELSE f[k - 1] \o ch(k)
  <2>1. k = 0 \/ k \in 1 .. N
    BY <1>1
  <2> QED
    BY <2>1, <1>3, <1>4 DEF Appends
<1>6. f = [k \in 0 .. N |-> IF k = 0 THEN h ELSE f[k - 1] \o ch(k)]
  BY <1>4, <1>5 DEF Appends
<1>7. Eq(g)
  BY <1>6, Zenon
<1> HIDE DEF g
<1>8. g[0] = h /\ \A k \in 1 .. N : g[k] = g[k - 1] \o ch(k)
  <2>1. 0 \in 0 .. N /\ \A k \in 1 .. N : k \in 0 .. N /\ k # 0
    BY <1>1
  <2> QED
    BY <2>1, <1>7
<1>9. \A k \in 1 .. N : g[k] = g[k - 1] \o x[k]
  BY <1>3, <1>8
<1>10. \A k \in 0 .. N : g[k] \in Seq(Bytes)
  BY <1>1, <1>3, <1>8, <1>9, AppendTypes
<1> QED
  BY <1>2, <1>8, <1>10 DEF N, h, ch

LEMMA AudioIs ==
    ASSUME NEW frames \in Sessions
    PROVE  /\ Audio(frames)[0] = <<>>
           /\ \A k \in 1 .. Len(frames) : Audio(frames)[k] = Audio(frames)[k - 1] \o frames[k]
           /\ \A k \in 0 .. Len(frames) : Audio(frames)[k] \in Seq(Bytes)
<1> DEFINE N == Len(frames)
           h == <<>>
           Eq(f) == f = [k \in 0 .. N |-> IF k = 0 THEN h ELSE f[k - 1] \o frames[k]]
           g == CHOOSE f : Eq(f)
<1>1. N \in Nat /\ (\A k \in 1 .. N : frames[k] \in Seq(Bytes)) /\ h \in Seq(Bytes)
  BY FramesAre, EmptySeq
<1>2. Audio(frames) = g
  BY Zenon DEF Audio
<1> HIDE DEF N, h
<1>4. PICK f : Appends(f, N, h, frames)
  BY <1>1, Appended
<1>5. ASSUME NEW k \in 0 .. N PROVE f[k] = IF k = 0 THEN h ELSE f[k - 1] \o frames[k]
  <2>1. k = 0 \/ k \in 1 .. N
    BY <1>1
  <2> QED
    BY <2>1, <1>4 DEF Appends
<1>6. f = [k \in 0 .. N |-> IF k = 0 THEN h ELSE f[k - 1] \o frames[k]]
  BY <1>4, <1>5 DEF Appends
<1>7. Eq(g)
  BY <1>6, Zenon
<1> HIDE DEF g
<1>8. g[0] = h /\ \A k \in 1 .. N : g[k] = g[k - 1] \o frames[k]
  <2>1. 0 \in 0 .. N /\ \A k \in 1 .. N : k \in 0 .. N /\ k # 0
    BY <1>1
  <2> QED
    BY <2>1, <1>7
<1>10. \A k \in 0 .. N : g[k] \in Seq(Bytes)
  BY <1>1, <1>8, AppendTypes
<1> QED
  BY <1>2, <1>8, <1>10 DEF N, h

(* stream_client.c against http_ingest.c: the reference parser reads back  *)
(* the audio of a whole stream.                                            *)
LEMMA StreamIsRead ==
    ASSUME NEW frames \in Sessions
    PROVE  /\ DeviceInput(frames).bytes \in Seq(Bytes)
           /\ DeviceInput(frames).pcm \in Seq(Bytes)
           /\ Reference(DeviceInput(frames).bytes) = Verdict("complete", DeviceInput(frames).pcm)
<1> DEFINE N == Len(frames)
           S == Sent(frames)
           A == Audio(frames)
           fin == stream_proto_encode_final
           b == S[N] \o fin
           nil == <<>>
           whole == Verdict("complete", A[N])
           Read(k) == /\ Occurs(b, 1, S[k])
                      /\ After(A[k], Body(b)[Len(S[k]) + 1]) = whole
           T == {j \in Nat : j <= N => Read(N - j)}
<1>0. DeviceInput(frames).bytes = b /\ DeviceInput(frames).pcm = A[N]
  BY DEF DeviceInput
<1>1. N \in Nat /\ 0 \in 0 .. N /\ N \in 0 .. N
  BY FramesAre
<1>2. /\ S[0] = stream_proto_build_request_header /\ A[0] = nil
      /\ \A k \in 1 .. N : S[k] = S[k - 1] \o stream_proto_encode_chunk(frames[k])
      /\ \A k \in 1 .. N : A[k] = A[k - 1] \o frames[k]
  BY SentIs, AudioIs
<1>3. \A k \in 0 .. N : S[k] \in Seq(Bytes) /\ A[k] \in Seq(Bytes)
  BY SentIs, AudioIs
<1>4. fin \in Seq(Bytes)
  BY FinalType
<1>5. /\ \A k \in 1 .. N :
            /\ frames[k] \in Seq(Bytes) /\ Len(frames[k]) \in 1 .. SizeMod - 2
            /\ Len(write_hex(Len(frames[k]))) + 1 < LineMax
            /\ stream_proto_encode_chunk(frames[k]) \in Seq(Bytes)
  BY FramesAre
<1>6. nil \in Seq(Bytes) /\ nil = <<>>
  BY EmptySeq
<1> HIDE DEF N, S, A, nil
<1>7. b \in Seq(Bytes)
  BY <1>1, <1>3, <1>4, ConcatProperties
<1>8. Read(N)
  <2> DEFINE q == S[N]
  <2>1. q \in Seq(Bytes) /\ A[N] \in Seq(Bytes)
    BY <1>1, <1>3
  <2>2. Occurs(b, 1, b)
    BY <1>7, OccursWhole
  <2>3. b = q \o fin
    OBVIOUS
  <2> HIDE DEF q, fin
  <2>4. Occurs(b, 1, q \o fin)
    BY <2>2, <2>3
  <2> HIDE DEF b
  <2>5. Occurs(b, 1, q) /\ Occurs(b, 1 + Len(q), fin)
    BY <2>1, <2>4, <1>4, <1>7, OccursParts
  <2>6. 1 + Len(q) \in Nat \ {0} /\ 1 + Len(q) = Len(q) + 1
    BY <2>1, LenProperties
  <2>7. Body(b)[1 + Len(q)] = Verdict("complete", <<>>)
    BY <2>5, <2>6, <1>7, FinalIsRead DEF fin
  <2>8. Verdict("complete", <<>>) \in Verdicts
    BY VerdictTypes
  <2>9. After(A[N], Verdict("complete", <<>>)) = whole
    BY <2>1, <2>8, AfterNothing
  <2> QED
    BY <2>5, <2>6, <2>7, <2>9 DEF q
<1> HIDE DEF b, whole
<1>9. ASSUME NEW k \in 1 .. N, Read(k) PROVE Read(k - 1)
  <2> DEFINE q == S[k - 1]
             w == frames[k]
             c == stream_proto_encode_chunk(w)
             a == A[k - 1]
             t == S[k]
  <2>1. k - 1 \in 0 .. N /\ k \in 0 .. N
    BY <1>1
  <2>2. q \in Seq(Bytes) /\ a \in Seq(Bytes) /\ t \in Seq(Bytes)
    BY <2>1, <1>3
  <2>3. /\ w \in Seq(Bytes) /\ c \in Seq(Bytes) /\ Len(w) \in 1 .. SizeMod - 2
        /\ Len(write_hex(Len(w))) + 1 < LineMax
    BY <1>5
  <2>4. t = q \o c /\ A[k] = a \o w
    BY <1>2
  <2>5. Occurs(b, 1, t) /\ After(a \o w, Body(b)[Len(t) + 1]) = whole
    BY <1>9, <2>4
  <2> HIDE DEF q, w, a, t
  <2> DEFINE i == 1 + Len(q)
             d == Len(c)
  <2>6. Occurs(b, 1, q) /\ Occurs(b, 1 + Len(q), c)
    BY <2>2, <2>3, <2>4, <2>5, <1>7, OccursParts
  <2>7. Len(t) = Len(q) + Len(c)
    BY <2>2, <2>3, <2>4, ConcatProperties
  <2>8. Len(q) \in Nat /\ d \in Nat /\ Len(b) \in Nat /\ Len(t) \in Nat
    BY <2>2, <2>3, <1>7, LenProperties
  <2>9. Occurs(b, i, c)
    BY <2>6
  <2>a. i \in Nat \ {0}
    BY <2>8
  <2>10. Body(b)[i] = After(w, Body(b)[i + Len(c)])
    BY <2>a, <2>9, <2>3, <1>7, ChunkIsRead
  <2> HIDE DEF c
  <2>11. i + d = Len(t) + 1 /\ i = Len(q) + 1
    BY <2>7, <2>8
  <2>12. Body(b)[Len(q) + 1] = After(w, Body(b)[Len(t) + 1])
    BY <2>10, <2>11
  <2>13. Len(t) + 1 \in 1 .. Len(b) + 1
    <3>1. 1 + Len(t) - 1 <= Len(b)
      BY <2>5 DEF Occurs
    <3> QED
      BY <3>1, <2>8
  <2> DEFINE v == Body(b)[Len(t) + 1]
  <2>14. v \in Verdicts
    BY <2>13, <1>7, BodyIs
  <2> HIDE DEF v
  <2>15. After(a \o w, v) = After(a, After(w, v))
    BY <2>14, <2>2, <2>3, AfterAfter
  <2>16. After(a, Body(b)[Len(q) + 1]) = whole
    BY <2>12, <2>15, <2>5 DEF v
  <2> QED
    BY <2>6, <2>16 DEF q, a
<1> HIDE DEF Read
<1>10. 0 \in T
  <2>1. N - 0 = N
    BY <1>1
  <2> QED
    BY <2>1, <1>8
<1>11. ASSUME NEW j \in Nat, j \in T PROVE j + 1 \in T
  <2> SUFFICES ASSUME j + 1 <= N PROVE Read(N - (j + 1))
    OBVIOUS
  <2>1. j <= N /\ N - j \in 1 .. N /\ (N - j) - 1 = N - (j + 1)
    BY <1>1
  <2>2. Read(N - j)
    BY <2>1, <1>11
  <2>3. Read((N - j) - 1)
    BY <2>1, <2>2, <1>9
  <2> QED
    BY <2>1, <2>3
<1> HIDE DEF T
<1>12. \A j \in Nat : j \in T
  BY <1>10, <1>11, Induction
<1>13. Read(0)
  <2>1. N \in T /\ N <= N /\ N - N = 0
    BY <1>1, <1>12
  <2> QED
    BY <2>1 DEF T
<1>14. Reference(b) = whole
  <2> DEFINE h == stream_proto_build_request_header
  <2>1. Occurs(b, 1, h) /\ After(nil, Body(b)[Len(h) + 1]) = whole
    BY <1>2, <1>13 DEF Read
  <2>2. Reference(b) = Body(b)[Len(h) + 1]
    BY <2>1, <1>7, HeaderIsRead
  <2> HIDE DEF h
  <2>3. Reference(b) \in Verdicts
    BY <1>7, ReferenceType
  <2>4. After(<<>>, Reference(b)) = Reference(b)
    BY <2>3, <1>6, AfterNothing
  <2> QED
    BY <2>1, <2>2, <2>4, <1>6
<1> QED
  BY <1>0, <1>1, <1>3, <1>7, <1>14 DEF whole

(* What is left to read is a verdict. *)
LEMMA RestType ==
    ASSUME IngestInv, NEW s \in Seq(Bytes), Consumed <= Len(s)
    PROVE  Rest(s) \in Verdicts
<1> DEFINE L == Len(s)
           r == ing.chunk_remaining
<1>1. L \in Nat /\ Consumed \in Nat /\ LineLen \in Nat /\ Start = Consumed - LineLen + 1
  BY Types, LenProperties
<1>2. ing.state # "ERROR" => Start \in Nat \ {0}
  BY Types
<1> HIDE DEF L
<1>3. Consumed <= L /\ (ing.state # "ERROR" => Start \in 1 .. L + 1)
  BY <1>1, <1>2 DEF L
<1>4. ing.state \in IngestStates
  BY DEF IngestInv, IngestTypeOK, http_ingest_t
<1>5. CASE ing.state = "REQUEST_LINE"
  BY <1>5, ReferenceType DEF Rest
<1>6. CASE ing.state = "HEADER_LINE"
  <2>1. Start \in 1 .. Len(s) + 1
    BY <1>3, <1>6 DEF L
  <2>2. Headers(s)[Start] \in Verdicts
    BY <2>1, HeadersIs
  <2> QED
    BY <2>2, <1>6 DEF Rest
<1>7. CASE ing.state = "CHUNK_SIZE"
  <2>1. Start \in 1 .. Len(s) + 1
    BY <1>3, <1>7 DEF L
  <2>2. Body(s)[Start] \in Verdicts
    BY <2>1, BodyIs
  <2> QED
    BY <2>2, <1>7 DEF Rest
<1>8. CASE ing.state = "CHUNK_DATA"
  <2> DEFINE i == Consumed + 1
             z == 0
  <2>1. r \in Nat /\ r > 0
    BY <1>8, IngestAssumption DEF IngestInv, IngestTypeOK, http_ingest_t, StateInv
  <2>2. i \in Nat \ {0} /\ z \in Nat /\ z < r /\ i + z - 1 <= L /\ i + z = i /\ r - z = r
    BY <2>1, <1>1, <1>3
  <2>3. Rest(s) = DataAt(s, i, r, Body(s))
    BY <1>8 DEF Rest
  <2> HIDE DEF i, z, r
  <2>4. DataAt(s, i + z, r - z, Body(s)) \in Verdicts
    BY <2>1, <2>2, DataSplit DEF L
  <2> QED
    BY <2>2, <2>3, <2>4
<1>9. CASE ing.state = "CHUNK_CRLF"
  <2>1. CrlfAt(s, Start, Body(s)) \in Verdicts
    BY <1>2, <1>9, CrlfAtType
  <2> QED
    BY <2>1, <1>9 DEF Rest
<1>10. CASE ing.state = "TRAILER"
  <2>1. TrailerAt(s, Start) \in Verdicts
    BY VerdictTypes DEF TrailerAt, OfLine
  <2> QED
    BY <2>1, <1>10 DEF Rest
<1>11. CASE ing.state \in {"DONE", "ERROR"}
  <2>1. Rest(s) = Verdict("complete", <<>>) \/ Rest(s) = Verdict("error", <<>>)
    BY <1>11 DEF Rest
  <2> QED
    BY <2>1, VerdictTypes
<1> QED
  BY <1>4, <1>5, <1>6, <1>7, <1>8, <1>9, <1>10, <1>11 DEF IngestStates

LEMMA PrefixOfWhole ==
    ASSUME NEW p \in Seq(Bytes), NEW q \in Seq(Bytes)
    PROVE  IsPrefix(p, p \o q)
<1> DEFINE t == p \o q
           m == Len(p)
           n == Len(q)
           u == SubSeq(p, 1, m)
           v == SubSeq(t, 1, m)
<1>1. m \in Nat /\ n \in Nat
  BY LenProperties
<1>2. /\ t \in Seq(Bytes) /\ Len(t) = m + n
      /\ \A k \in 1 .. m + n : t[k] = IF k <= m THEN p[k] ELSE q[k - m]
  BY ConcatProperties
<1> HIDE DEF t, n
<1>3. m <= Len(t) /\ m <= Len(p) /\ 1 \in Nat \ {0}
  BY <1>1, <1>2
<1>4. /\ u \in Seq(Bytes) /\ Len(u) = (IF 1 <= m THEN m - 1 + 1 ELSE 0)
      /\ \A k \in 1 .. m - 1 + 1 : u[k] = p[1 + k - 1]
  BY <1>1, <1>3, SubSeqIs
<1>5. /\ v \in Seq(Bytes) /\ Len(v) = (IF 1 <= m THEN m - 1 + 1 ELSE 0)
      /\ \A k \in 1 .. m - 1 + 1 : v[k] = t[1 + k - 1]
  BY <1>1, <1>2, <1>3, SubSeqIs
<1> HIDE DEF m, u, v
<1>6. Len(u) = m /\ Len(v) = m
  BY <1>1, <1>4, <1>5
<1>7. \A k \in 1 .. m : u[k] = v[k]
  <2> SUFFICES ASSUME NEW k \in 1 .. m PROVE u[k] = v[k]
    OBVIOUS
  <2>1. k \in 1 .. m - 1 + 1 /\ 1 + k - 1 = k /\ k \in 1 .. m + n /\ k <= m
    BY <1>1
  <2> QED
    BY <2>1, <1>2, <1>4, <1>5
<1>8. u = v
  BY <1>4, <1>5, <1>6, <1>7, SeqEqual
<1> QED
  BY <1>3, <1>8 DEF IsPrefix, u, v, m, t

(* stream_proto.c:66-128 against http_ingest.c:155-239: whatever the       *)
(* device sends, the server never refuses it, what it has passed on is a   *)
(* prefix of the audio, and the stream ends complete with all of it.       *)
THEOREM DeviceStreamsArrive == IngestSpec => []RoundTrip
<1>1. IngestInv => RoundTrip
  <2> SUFFICES ASSUME IngestInv, input.device
               PROVE  /\ ing.state # "ERROR"
                      /\ IsPrefix(payload, input.pcm)
                      /\ (~Calling /\ fed = Len(input.bytes)) =>
                            ing.complete /\ payload = input.pcm
    BY DEF RoundTrip, IngestInv
  <2> DEFINE b == input.bytes
             pcm == input.pcm
             rest == Rest(b)
             n == Len(b)
  <2>1. input \in Inputs
    BY DEF IngestInv, IngestTypeOK
  <2>2. PICK frames \in Sessions : input = DeviceInput(frames)
    BY <2>1, EncoderAssumption
  <2>3. b \in Seq(Bytes) /\ pcm \in Seq(Bytes) /\ Reference(b) = Verdict("complete", pcm)
    BY <2>2, StreamIsRead
  <2>4. n \in Nat /\ Consumed \in Nat /\ Consumed <= n /\ payload \in Seq(Bytes)
    <3>1. Consumed \in Nat /\ Consumed = fed - Len(buf) /\ fed \in Nat /\ Len(buf) \in Nat
          /\ fed <= n /\ n \in Nat /\ payload \in Seq(Bytes)
      BY Types
    <3> HIDE DEF n
    <3> QED
      BY <3>1
  <2>5. First(n) = b
    BY <2>3, SubSeqFull DEF First
  <2>6. n \in Consumed .. n
    BY <2>4
  <2>7. Reference(b) = After(payload, rest)
    BY <2>5, <2>6 DEF IngestInv, MeaningInv
  <2>8. rest \in Verdicts
    BY <2>3, <2>4, RestType
  <2> HIDE DEF rest, b, pcm
  <2>9. rest.verdict = "complete" /\ payload \o rest.payload = pcm /\ rest.payload \in Seq(Bytes)
    BY <2>3, <2>7, <2>8 DEF After, Verdict, Verdicts
  <2>10. ing.state # "ERROR"
    BY <2>9 DEF Rest, rest, Verdict
  <2>11. IsPrefix(payload, pcm)
    BY <2>4, <2>9, PrefixOfWhole
  <2>12. ASSUME ~Calling, fed = Len(input.bytes) PROVE ing.complete /\ payload = pcm
    <3>1. rest = Verdict(Observed.verdict, <<>>)
      BY <2>5, <2>12, WaitsForMore DEF rest, b
    <3>2. Observed.verdict = "complete" /\ rest.payload = <<>>
      BY <3>1, <2>9 DEF Verdict
    <3>3. payload \o <<>> = payload
      BY <2>4, ConcatEmptySeq
    <3>4. ing.complete
      BY <3>2 DEF Observed, Verdict
    <3> QED
      BY <3>2, <3>3, <3>4, <2>9
  <2> QED
    BY <2>10, <2>11, <2>12 DEF pcm
<1> QED
  BY <1>1, IngestInvariant, PTL

=============================================================================
