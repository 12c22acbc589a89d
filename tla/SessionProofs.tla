---------------------------- MODULE SessionProofs ----------------------------
(***************************************************************************)
(* Proofs about SessionTiming, for any number of devices and any sounds,   *)
(* any length of the buffers and of the backlog, and all lengths of time.  *)
(***************************************************************************)
EXTENDS SessionTiming, SequenceTheorems, TLAPS

Kinds == {"loud", "noise", "quiet"}

DeviceRecord ==
    [pc : {"idle", "stream", "blocked", "drain", "done"}, speech_seen : BOOLEAN,
     silence_run : Nat, total_frames : Nat, polls : Nat,
     held : {"loud", "noise", "quiet", "final", "none"},
     result : {"NONE", "CONNECT_FAILED", "CLOSED", "SESSION_TIMEOUT", "GONE"},
     clean : BOOLEAN, agreed : BOOLEAN]

Types ==
    /\ drain \in Drains
    /\ dev \in [Devices -> DeviceRecord]
    /\ sock \in [Devices -> Seq(Kinds \cup {"final", "FIN"})]
    /\ closed \subseteq Devices
    /\ backlog \in Seq(Devices)
    /\ cur \in Devices \cup {None}
    /\ spc \in {"accept", "recv", "busy", "tick"}
    /\ waited \in Nat /\ left \in Nat /\ late \in Nat
    /\ run \in [in_speech : BOOLEAN, silence_run : Nat]
    /\ complete \in BOOLEAN
    /\ phase \in {"LISTENING", "WAITING", "CUT"}
    /\ sessionAge \in Nat /\ speechAge \in Nat /\ cmdAge \in Nat
    /\ early \subseteq Devices /\ known \subseteq Devices

-----------------------------------------------------------------------------
(* Facts about the constants and the operators *)

LEMMA Constants ==
    /\ Backlog \in Nat /\ Window \in Nat /\ MaxFrames \in Nat
    /\ SegHang \in Nat /\ RecvTimeout \in Nat
    /\ Window > 0 /\ MaxFrames > 0 /\ SegHang > 0 /\ RecvTimeout > 0
    /\ DebounceMs \in Nat /\ MaxSessionMs \in Nat /\ SilenceMs \in Nat /\ DebounceMs > 0
    /\ HangFrames \in Nat /\ HangFrames > 0
    /\ \A d \in Devices : \A f \in Sounds[d] : f.speech \in BOOLEAN /\ f.heard \in Kinds
    /\ \A n \in Drains : n \in Nat
    /\ None \notin Devices
<1>1. \A n \in {Backlog, Window, HangFrames, MaxFrames, SegHang, RecvTimeout} : n \in Nat /\ n > 0
  BY TimingAssumption
<1>2. \A n \in {DebounceMs, MaxSessionMs, SilenceMs} : n \in Nat /\ n > 0
  BY TimingAssumption
<1>3. \A d \in Devices : \A f \in Sounds[d] : f.speech \in BOOLEAN /\ f.heard \in Kinds
  <2>1. \A d \in Devices : \A f \in Sounds[d] : f \in FrameKinds
    BY TimingAssumption, Zenon
  <2>2. \A f \in FrameKinds : f.speech \in BOOLEAN /\ f.heard \in Kinds
    BY DEF FrameKinds, Kinds
  <2> QED
    BY <2>1, <2>2, Zenon
<1> QED
  BY <1>1, <1>2, <1>3, TimingAssumption

(* Recog is the longest recognition. *)
LEMMA RecogLongest ==
    /\ Recog \in Nat
    /\ Recog \in Recogs
    /\ \A r \in Recogs : r \in Nat /\ r <= Recog
<1>1. PICK longest \in Recogs : \A r \in Recogs : longest >= r
  BY TimingAssumption
<1>2. Recog \in Recogs /\ \A r \in Recogs : Recog >= r
  BY <1>1 DEF Recog, Maximum
<1>3. \A r \in Recogs : r \in Nat
  BY TimingAssumption
<1> QED
  BY <1>2, <1>3

LEMMA TailOf ==
    ASSUME NEW S, NEW s \in Seq(S), s # <<>>
    PROVE  /\ Tail(s) \in Seq(S)
           /\ Len(s) >= 1
           /\ Len(Tail(s)) = Len(s) - 1
           /\ Head(s) = s[1]
           /\ Head(s) \in S
           /\ \A i \in 1 .. (Len(s) - 1) : Tail(s)[i] = s[i + 1]
  BY HeadTailProperties, EmptySeq

LEMMA AppendOf ==
    ASSUME NEW S, NEW s \in Seq(S), NEW x \in S
    PROVE  /\ Append(s, x) \in Seq(S)
           /\ Len(Append(s, x)) = Len(s) + 1
           /\ \A i \in 1 .. Len(s) : Append(s, x)[i] = s[i]
           /\ Append(s, x)[Len(s) + 1] = x
           /\ Len(s) \in Nat
  BY AppendProperties

LEMMA UpToBounds ==
    ASSUME NEW limit \in Nat, NEW x \in Nat
    PROVE  /\ UpTo(limit, x) \in Nat
           /\ UpTo(limit, x) <= x /\ UpTo(limit, x) <= limit
           /\ UpTo(limit, x) = x \/ UpTo(limit, x) = limit
  BY DEF UpTo

(* The frames of the device's present silence that were sent, if all of    *)
(* them are heard as quiet; the frame at which it stops is not sent.       *)
StillOf(dv) ==
    IF dv.agreed /\ dv.silence_run > 0
    THEN dv.silence_run - (IF Stops(dv) THEN 1 ELSE 0)
    ELSE 0

LEMMA StillNat ==
    ASSUME NEW dv \in DeviceRecord
    PROVE  StillOf(dv) \in Nat
<1>1. dv.silence_run \in Nat
  BY DEF DeviceRecord
<1> QED
  BY <1>1 DEF StillOf

(* It depends on these fields alone. *)
LEMMA StillSame ==
    ASSUME NEW dv, NEW dw, dw.agreed = dv.agreed, dw.silence_run = dv.silence_run,
           dw.speech_seen = dv.speech_seen, dw.total_frames = dv.total_frames
    PROVE  StillOf(dw) = StillOf(dv) /\ (Stops(dw) <=> Stops(dv))
  BY DEF StillOf, Stops

LEMMA HeardFields ==
    ASSUME NEW dv \in DeviceRecord, NEW frame, frame.speech \in BOOLEAN
    PROVE  /\ Heard(dv, frame) \in DeviceRecord
           /\ Heard(dv, frame).total_frames = dv.total_frames + 1
           /\ Heard(dv, frame).silence_run = IF frame.speech THEN 0 ELSE dv.silence_run + 1
           /\ \A f \in {"pc", "polls", "held", "result", "clean", "agreed"} :
                 Heard(dv, frame)[f] = dv[f]
<1>1. dv.silence_run + 1 \in Nat /\ dv.total_frames + 1 \in Nat
  BY DEF DeviceRecord
<1> DEFINE sil == IF frame.speech THEN 0 ELSE dv.silence_run + 1
           tot == dv.total_frames + 1
           seen == dv.speech_seen \/ frame.speech
<1>2. Heard(dv, frame) = [dv EXCEPT !.speech_seen = seen, !.silence_run = sil, !.total_frames = tot]
  BY DEF Heard, DeviceRecord
<1>3. sil \in Nat /\ tot \in Nat /\ seen \in BOOLEAN
  BY <1>1 DEF DeviceRecord
<1>4. tot = dv.total_frames + 1 /\ sil = IF frame.speech THEN 0 ELSE dv.silence_run + 1
  OBVIOUS
<1> HIDE DEF sil, tot, seen
<1> QED
  BY <1>2, <1>3, <1>4 DEF DeviceRecord

LEMMA NotedFields ==
    ASSUME NEW dv \in DeviceRecord, NEW frame, frame.speech \in BOOLEAN,
           NEW item \in Kinds \cup {"final"}
    PROVE  /\ Noted(dv, frame, item) \in DeviceRecord
           /\ Noted(dv, frame, item).clean = (dv.clean /\ item # "noise")
           /\ Noted(dv, frame, item).agreed
                = (frame.speech \/ (dv.agreed /\ item \in {"quiet", "final"}))
           /\ \A f \in {"pc", "polls", "held", "result", "total_frames", "silence_run",
                         "speech_seen"} :
                 Noted(dv, frame, item)[f] = dv[f]
<1> DEFINE cl == dv.clean /\ item # "noise"
           ag == frame.speech \/ (dv.agreed /\ item \in {"quiet", "final"})
<1>1. Noted(dv, frame, item) = [dv EXCEPT !.clean = cl, !.agreed = ag]
  BY DEF Noted, DeviceRecord
<1>2. cl \in BOOLEAN /\ ag \in BOOLEAN
  BY DEF DeviceRecord
<1> HIDE DEF cl, ag
<1>3. /\ [dv EXCEPT !.clean = cl, !.agreed = ag] \in DeviceRecord
      /\ [dv EXCEPT !.clean = cl, !.agreed = ag].clean = cl
      /\ [dv EXCEPT !.clean = cl, !.agreed = ag].agreed = ag
      /\ \A f \in {"pc", "polls", "held", "result", "total_frames", "silence_run",
                    "speech_seen"} :
            [dv EXCEPT !.clean = cl, !.agreed = ag][f] = dv[f]
  BY <1>2 DEF DeviceRecord
<1> QED
  BY <1>1, <1>3 DEF cl, ag

(* A frame heard as quiet makes the silence one longer at most, the final  *)
(* chunk does not, and any other frame ends it: the device takes it for    *)
(* speech, or the two sides no longer agree.                               *)
LEMMA StillNoted ==
    ASSUME NEW dv \in DeviceRecord, NEW n \in DeviceRecord, NEW speech \in BOOLEAN,
           NEW item \in Kinds \cup {"final"},
           ~Stops(dv), Stops(n) <=> item = "final",
           n.silence_run = IF speech THEN 0 ELSE dv.silence_run + 1,
           n.agreed = (speech \/ (dv.agreed /\ item \in {"quiet", "final"}))
    PROVE  /\ item = "final" => StillOf(n) <= StillOf(dv)
           /\ item = "quiet" => StillOf(n) <= StillOf(dv) + 1
           /\ item \in {"loud", "noise"} => StillOf(n) = 0
<1>1. dv.silence_run \in Nat /\ StillOf(dv) \in Nat /\ StillOf(n) \in Nat
  BY StillNat DEF DeviceRecord
<1>2. CASE speech
  <2>1. StillOf(n) = 0
    BY <1>2 DEF StillOf
  <2> QED
    BY <1>1, <2>1
<1>3. CASE ~speech /\ ~n.agreed
  <2>1. StillOf(n) = 0
    BY <1>3 DEF StillOf
  <2> QED
    BY <1>1, <2>1
<1>4. CASE ~speech /\ n.agreed
  <2>1. dv.agreed /\ item \in {"quiet", "final"} /\ n.silence_run = dv.silence_run + 1
    BY <1>4
  <2>2. StillOf(dv) = dv.silence_run
    BY <1>1, <2>1 DEF StillOf
  <2>3. StillOf(n) = (dv.silence_run + 1) - (IF item = "final" THEN 1 ELSE 0)
    BY <1>1, <1>4, <2>1 DEF StillOf
  <2> QED
    BY <1>1, <2>1, <2>2, <2>3
<1> QED
  BY <1>2, <1>3, <1>4

LEMMA TryingFields ==
    ASSUME NEW dv \in DeviceRecord, NEW item \in Kinds \cup {"final"}, NEW taken \in BOOLEAN
    PROVE  /\ Trying(dv, item, taken) \in DeviceRecord
           /\ taken /\ item = "final" => Trying(dv, item, taken).pc = "drain"
           /\ taken /\ item # "final" => Trying(dv, item, taken).pc = "stream"
           /\ ~taken => Trying(dv, item, taken).pc = "blocked"
           /\ taken => Trying(dv, item, taken).held = "none"
           /\ ~taken => Trying(dv, item, taken).held = item
           /\ \A f \in {"polls", "result", "total_frames", "silence_run", "speech_seen",
                         "clean", "agreed"} :
                 Trying(dv, item, taken)[f] = dv[f]
  BY DEF Trying, DeviceRecord, Kinds

-----------------------------------------------------------------------------
(* What a step does to one device and its connection *)

(* What only mic_src_read changes. *)
Listened(d) ==
    /\ dev'[d].total_frames = dev[d].total_frames
    /\ StillOf(dev'[d]) = StillOf(dev[d])
    /\ Stops(dev'[d]) <=> Stops(dev[d])
    /\ dev'[d].clean = dev[d].clean

Carried(d) == Listened(d) /\ dev'[d].held = dev[d].held

Rests(d) == dev'[d] = dev[d] /\ sock'[d] = sock[d]

(* Connect finds room in the backlog. *)
Joins(d) ==
    /\ dev[d].pc = "idle" /\ dev'[d].pc = "stream"
    /\ Carried(d) /\ dev'[d].polls = dev[d].polls /\ dev'[d].result = dev[d].result
    /\ sock'[d] = sock[d]

(* Connect is refused, Notice or Vanish. *)
Leaves(d) ==
    /\ dev[d].pc # "done" /\ dev'[d].pc = "done"
    /\ Carried(d) /\ dev'[d].polls = dev[d].polls /\ dev'[d].result # "SESSION_TIMEOUT"
    /\ sock'[d] = sock[d]

GivesUp(d) ==
    /\ dev[d].pc = "drain" /\ dev'[d].pc = "done"
    /\ dev[d].polls >= drain /\ d \notin closed
    /\ Carried(d) /\ dev'[d].polls = dev[d].polls
    /\ sock'[d] = Append(sock[d], "FIN")

(* Unblock *)
Flushes(d) ==
    /\ dev[d].pc = "blocked" /\ d \notin closed /\ Room(d)
    /\ dev[d].held \in Kinds \cup {"final"}
    /\ dev[d].held = "final" => dev'[d].pc = "drain"
    /\ dev[d].held # "final" => dev'[d].pc = "stream"
    /\ dev'[d].held = "none"
    /\ Listened(d)
    /\ dev'[d].polls = dev[d].polls /\ dev'[d].result = dev[d].result
    /\ sock'[d] = Append(sock[d], dev[d].held)

(* A streaming device at a tick. *)
Captures(d, item) ==
    /\ dev[d].pc = "stream"
    /\ Room(d) /\ item = "final" => dev'[d].pc = "drain"
    /\ Room(d) /\ item # "final" => dev'[d].pc = "stream"
    /\ ~Room(d) => dev'[d].pc = "blocked"
    /\ Room(d) => dev'[d].held = "none" /\ sock'[d] = Append(sock[d], item)
    /\ ~Room(d) => dev'[d].held = item /\ sock'[d] = sock[d]
    /\ dev'[d].total_frames = dev[d].total_frames + 1
    /\ item # "final" => dev'[d].total_frames < MaxFrames /\ ~Stops(dev'[d])
    /\ item = "final" => StillOf(dev'[d]) <= StillOf(dev[d])
    /\ item = "quiet" => StillOf(dev'[d]) <= StillOf(dev[d]) + 1
    /\ item \in {"loud", "noise"} => StillOf(dev'[d]) = 0
    /\ dev'[d].clean => dev[d].clean /\ item # "noise"
    /\ dev'[d].polls = dev[d].polls /\ dev'[d].result = dev[d].result

(* A draining device at a tick. *)
Polls(d) ==
    /\ dev[d].pc = "drain" /\ dev'[d].pc = "drain"
    /\ dev[d].polls < drain /\ dev'[d].polls = dev[d].polls + 1
    /\ Carried(d) /\ dev'[d].result = dev[d].result
    /\ sock'[d] = sock[d]

(* The server reads an item. *)
Popped(d) ==
    /\ d = cur /\ sock[d] # <<>>
    /\ dev'[d] = dev[d]
    /\ sock'[d] = Tail(sock[d])

DeviceMove(d) ==
    \/ Joins(d)
    \/ Leaves(d)
    \/ GivesUp(d)
    \/ Flushes(d)

TickMove(d) ==
    \/ Rests(d) /\ dev[d].pc \notin {"stream", "drain"}
    \/ \E item \in Kinds \cup {"final"} : Captures(d, item)
    \/ Polls(d)

Moves(d) == Rests(d) \/ DeviceMove(d) \/ TickMove(d) \/ Popped(d)

(* A held item is there when a device is blocked. *)
HeldInv == \A d \in Devices : dev[d].pc = "blocked" => dev[d].held # "none"

(* A device that streams has no reason to stop. *)
StreamInv == \A d \in Devices : dev[d].pc = "stream" => ~Stops(dev[d])

(* The device's source was not read. *)
LEMMA Unheard ==
    ASSUME NEW d \in Devices,
           \A f \in {"agreed", "silence_run", "speech_seen", "total_frames", "clean"} :
               dev'[d][f] = dev[d][f]
    PROVE  Listened(d)
<1>1. /\ dev'[d].agreed = dev[d].agreed /\ dev'[d].silence_run = dev[d].silence_run
      /\ dev'[d].speech_seen = dev[d].speech_seen
      /\ dev'[d].total_frames = dev[d].total_frames /\ dev'[d].clean = dev[d].clean
  OBVIOUS
<1> QED
  BY <1>1, StillSame DEF Listened

LEMMA TickMoves ==
    ASSUME Types, StreamInv, Tick
    PROVE  /\ \A d \in Devices : TickMove(d)
           /\ dev' \in [Devices -> DeviceRecord]
           /\ sock' \in [Devices -> Seq(Kinds \cup {"final", "FIN"})]
<1> DEFINE Item2 == Kinds \cup {"final", "FIN"}
<1>1. PICK frame \in {f \in [Devices -> UNION Range(Sounds)] : \A d \in Devices : f[d] \in Sounds[d]} :
          /\ dev' = [d \in Devices |-> DeviceTick(d, frame[d])]
          /\ sock' = [d \in Devices |-> SockTick(d, frame[d])]
  BY DEF Tick
<1>2. \A d \in Devices : frame[d].speech \in BOOLEAN /\ frame[d].heard \in Kinds
  BY <1>1, Constants
<1>3. ASSUME NEW d \in Devices
      PROVE  TickMove(d) /\ dev'[d] \in DeviceRecord /\ sock'[d] \in Seq(Item2)
  <2> DEFINE fr == frame[d]
             item == Item(d, fr)
             h == Heard(dev[d], fr)
             no == Noted(h, fr, item)
             t == Trying(no, item, Room(d))
  <2>1. dev'[d] = DeviceTick(d, fr) /\ sock'[d] = SockTick(d, fr)
    BY <1>1
  <2>2. /\ dev[d] \in DeviceRecord /\ sock[d] \in Seq(Item2)
        /\ fr.speech \in BOOLEAN /\ fr.heard \in Kinds
    BY <1>2 DEF Types
  <2> HIDE DEF fr
  <2>3. CASE dev[d].pc = "stream"
    <3>1. item \in Kinds \cup {"final"}
      BY <2>2 DEF Item
    <3>2. dev'[d] = t /\ sock'[d] = IF Room(d) THEN Append(sock[d], item) ELSE sock[d]
      BY <2>1, <2>3 DEF DeviceTick, SockTick
    <3>3. /\ h \in DeviceRecord /\ h.total_frames = dev[d].total_frames + 1
          /\ h.polls = dev[d].polls /\ h.result = dev[d].result
          /\ h.silence_run = IF fr.speech THEN 0 ELSE dev[d].silence_run + 1
          /\ h.agreed = dev[d].agreed /\ h.clean = dev[d].clean
      BY <2>2, HeardFields
    <3>a. Stops(h) <=> item = "final"
      BY <2>2 DEF Item, Kinds
    <3>4. item # "final" => h.total_frames < MaxFrames
      BY <3>a, <3>3, Constants DEF Stops, DeviceRecord
    <3> HIDE DEF item, h
    <3>5. /\ no \in DeviceRecord
          /\ no.clean = (h.clean /\ item # "noise")
          /\ no.agreed = (fr.speech \/ (h.agreed /\ item \in {"quiet", "final"}))
          /\ no.polls = h.polls /\ no.result = h.result /\ no.total_frames = h.total_frames
          /\ no.silence_run = h.silence_run /\ no.speech_seen = h.speech_seen
      BY <2>2, <3>1, <3>3, NotedFields
    <3> HIDE DEF no
    <3>6. Room(d) \in BOOLEAN
      BY DEF Room
    <3>7. /\ t \in DeviceRecord
          /\ Room(d) /\ item = "final" => t.pc = "drain"
          /\ Room(d) /\ item # "final" => t.pc = "stream"
          /\ ~Room(d) => t.pc = "blocked"
          /\ Room(d) => t.held = "none"
          /\ ~Room(d) => t.held = item
          /\ t.polls = no.polls /\ t.result = no.result /\ t.total_frames = no.total_frames
          /\ t.silence_run = no.silence_run /\ t.speech_seen = no.speech_seen
          /\ t.agreed = no.agreed /\ t.clean = no.clean
      BY <3>1, <3>5, <3>6, TryingFields
    <3> HIDE DEF t
    <3>b. Stops(t) <=> item = "final"
      BY <3>a, <3>5, <3>7 DEF Stops
    <3>c. ~Stops(dev[d])
      BY <2>3 DEF StreamInv
    <3>d. /\ t.silence_run = IF fr.speech THEN 0 ELSE dev[d].silence_run + 1
          /\ t.agreed = (fr.speech \/ (dev[d].agreed /\ item \in {"quiet", "final"}))
      BY <3>3, <3>5, <3>7
    <3>e. /\ item = "final" => StillOf(t) <= StillOf(dev[d])
          /\ item = "quiet" => StillOf(t) <= StillOf(dev[d]) + 1
          /\ item \in {"loud", "noise"} => StillOf(t) = 0
      BY <2>2, <3>1, <3>7, <3>b, <3>c, <3>d, StillNoted
    <3>8. Captures(d, item)
      BY <2>3, <3>2, <3>3, <3>4, <3>5, <3>7, <3>b, <3>e DEF Captures
    <3>9. sock'[d] \in Seq(Item2)
      <4>1. item \in Item2
        BY <3>1
      <4> QED
        BY <3>2, <4>1, <2>2, AppendOf
    <3> QED
      BY <3>1, <3>2, <3>7, <3>8, <3>9 DEF TickMove
  <2>4. CASE dev[d].pc = "drain"
    <3>1. dev'[d] = [dev[d] EXCEPT !.polls = @ + 1] /\ sock'[d] = sock[d]
      BY <2>1, <2>4 DEF DeviceTick, SockTick
    <3>2. dev[d].polls < drain
      BY <2>4 DEF Tick, DeviceWaits
    <3>3. dev[d].polls + 1 \in Nat
      BY <2>2 DEF DeviceRecord
    <3>4. dev'[d] \in DeviceRecord
      BY <3>1, <3>3, <2>2 DEF DeviceRecord
    <3>l. Listened(d)
      BY <3>1, <2>2, Unheard DEF DeviceRecord
    <3>5. Polls(d)
      BY <3>1, <3>2, <3>l, <2>2, <2>4 DEF Polls, Carried, DeviceRecord
    <3> QED
      BY <3>1, <3>4, <3>5, <2>2 DEF TickMove
  <2>5. CASE dev[d].pc \notin {"stream", "drain"}
    <3>1. dev'[d] = dev[d] /\ sock'[d] = sock[d]
      BY <2>1, <2>5 DEF DeviceTick, SockTick
    <3> QED
      BY <3>1, <2>2, <2>5 DEF TickMove, Rests
  <2> QED
    BY <2>3, <2>4, <2>5
<1>4. dev' = [d \in Devices |-> dev'[d]] /\ sock' = [d \in Devices |-> sock'[d]]
  BY <1>1
<1> QED
  BY <1>3, <1>4, Zenon

(* Connect, Vanish, Unblock, Notice and GiveUp. *)
LEMMA DeviceMoves ==
    ASSUME Types, HeldInv, NEW d \in Devices,
           Connect(d) \/ Vanish(d) \/ Unblock(d) \/ Notice(d) \/ GiveUp(d)
    PROVE  /\ DeviceMove(d)
           /\ \A e \in Devices : e # d => Rests(e)
           /\ dev' \in [Devices -> DeviceRecord]
           /\ sock' \in [Devices -> Seq(Kinds \cup {"final", "FIN"})]
           /\ UNCHANGED <<drain, Server>>
           /\ \/ backlog' = backlog /\ ~Joins(d)
              \/ backlog' = Append(backlog, d) /\ Joins(d) /\ Len(backlog) < Backlog
<1> DEFINE Item2 == Kinds \cup {"final", "FIN"}
<1>1. /\ dev \in [Devices -> DeviceRecord] /\ dev[d] \in DeviceRecord
      /\ sock \in [Devices -> Seq(Item2)] /\ sock[d] \in Seq(Item2)
  BY DEF Types
<1>2. CASE Connect(d)
  <2>1. CASE Len(backlog) < Backlog
    <3>1. /\ dev[d].pc = "idle" /\ dev' = [dev EXCEPT ![d].pc = "stream"]
          /\ backlog' = Append(backlog, d) /\ sock' = sock /\ UNCHANGED <<drain, Server>>
      BY <1>2, <2>1 DEF Connect
    <3>2. dev' \in [Devices -> DeviceRecord] /\ \A e \in Devices : e # d => dev'[e] = dev[e]
      BY <3>1, <1>1 DEF DeviceRecord
    <3>l. Listened(d)
      BY <3>1, <1>1, Unheard DEF DeviceRecord
    <3>3. Joins(d)
      BY <3>1, <3>l, <1>1 DEF Joins, Carried, DeviceRecord
    <3> QED
      BY <1>1, <2>1, <3>1, <3>2, <3>3 DEF DeviceMove, Rests
  <2>2. CASE ~(Len(backlog) < Backlog)
    <3>1. /\ dev[d].pc = "idle"
          /\ dev' = [dev EXCEPT ![d].pc = "done", ![d].result = "CONNECT_FAILED"]
          /\ backlog' = backlog /\ sock' = sock /\ UNCHANGED <<drain, Server>>
      BY <1>2, <2>2 DEF Connect
    <3>2. dev' \in [Devices -> DeviceRecord] /\ \A e \in Devices : e # d => dev'[e] = dev[e]
      BY <3>1, <1>1 DEF DeviceRecord
    <3>l. Listened(d)
      BY <3>1, <1>1, Unheard DEF DeviceRecord
    <3>3. Leaves(d) /\ ~Joins(d)
      BY <3>1, <3>l, <1>1 DEF Leaves, Joins, Carried, DeviceRecord
    <3> QED
      BY <1>1, <3>1, <3>2, <3>3 DEF DeviceMove, Rests
  <2> QED
    BY <2>1, <2>2
<1>3. ASSUME NEW r \in {"CLOSED", "GONE"}, Active(d),
             dev' = [dev EXCEPT ![d].pc = "done", ![d].result = r],
             UNCHANGED <<drain, sock, backlog, Server>>
      PROVE  /\ DeviceMove(d)
             /\ \A e \in Devices : e # d => Rests(e)
             /\ dev' \in [Devices -> DeviceRecord]
             /\ sock' \in [Devices -> Seq(Item2)]
             /\ UNCHANGED <<drain, Server>>
             /\ backlog' = backlog /\ ~Joins(d)
  <2>1. dev' \in [Devices -> DeviceRecord] /\ \A e \in Devices : e # d => dev'[e] = dev[e]
    BY <1>1, <1>3 DEF DeviceRecord
  <2>l. Listened(d)
    BY <1>1, <1>3, Unheard DEF DeviceRecord
  <2>2. Leaves(d) /\ ~Joins(d)
    BY <1>1, <1>3, <2>l DEF Leaves, Joins, Carried, Active, DeviceRecord
  <2> QED
    BY <1>1, <1>3, <2>1, <2>2 DEF DeviceMove, Rests
<1>4. CASE Vanish(d)
  BY <1>3, <1>4 DEF Vanish
<1>5. CASE Notice(d)
  BY <1>3, <1>5 DEF Notice
<1>6. CASE GiveUp(d)
  <2>1. /\ dev[d].pc = "drain" /\ d \notin closed /\ dev[d].polls >= drain
        /\ dev' = [dev EXCEPT ![d].pc = "done", ![d].result = "SESSION_TIMEOUT"]
        /\ sock' = [sock EXCEPT ![d] = Append(@, "FIN")]
        /\ UNCHANGED <<drain, backlog, Server>>
    BY <1>6 DEF GiveUp
  <2>2. dev' \in [Devices -> DeviceRecord] /\ \A e \in Devices : e # d => dev'[e] = dev[e]
    BY <2>1, <1>1 DEF DeviceRecord
  <2>3. Append(sock[d], "FIN") \in Seq(Item2)
    BY <1>1, AppendOf
  <2>4. /\ sock' \in [Devices -> Seq(Item2)] /\ sock'[d] = Append(sock[d], "FIN")
        /\ \A e \in Devices : e # d => sock'[e] = sock[e]
    BY <2>1, <2>3, <1>1
  <2>l. Listened(d)
    BY <1>1, <2>1, Unheard DEF DeviceRecord
  <2>5. GivesUp(d) /\ ~Joins(d)
    BY <2>1, <2>4, <2>l, <1>1 DEF GivesUp, Joins, Carried, DeviceRecord
  <2> QED
    BY <2>1, <2>2, <2>4, <2>5 DEF DeviceMove, Rests
<1>7. CASE Unblock(d)
  <2>1. /\ dev[d].pc = "blocked" /\ d \notin closed /\ Room(d)
        /\ dev' = [dev EXCEPT ![d] = Trying(dev[d], dev[d].held, TRUE)]
        /\ sock' = [sock EXCEPT ![d] = Append(sock[d], dev[d].held)]
        /\ UNCHANGED <<drain, backlog, Server>>
    BY <1>7, <1>1 DEF Unblock
  <2>2. dev[d].held \in Kinds \cup {"final"}
    BY <2>1, <1>1 DEF HeldInv, DeviceRecord, Kinds
  <2> DEFINE t == Trying(dev[d], dev[d].held, TRUE)
  <2>3. /\ t \in DeviceRecord
        /\ dev[d].held = "final" => t.pc = "drain"
        /\ dev[d].held # "final" => t.pc = "stream"
        /\ t.held = "none"
        /\ t.polls = dev[d].polls /\ t.result = dev[d].result /\ t.total_frames = dev[d].total_frames
        /\ t.silence_run = dev[d].silence_run /\ t.speech_seen = dev[d].speech_seen
        /\ t.agreed = dev[d].agreed /\ t.clean = dev[d].clean
    BY <1>1, <2>2 DEF Trying, DeviceRecord, Kinds
  <2> HIDE DEF t
  <2>4. /\ dev' \in [Devices -> DeviceRecord] /\ dev'[d] = t
        /\ \A e \in Devices : e # d => dev'[e] = dev[e]
    BY <2>1, <2>3, <1>1 DEF t
  <2>5. Append(sock[d], dev[d].held) \in Seq(Item2)
    BY <1>1, <2>2, AppendOf
  <2>6. /\ sock' \in [Devices -> Seq(Item2)] /\ sock'[d] = Append(sock[d], dev[d].held)
        /\ \A e \in Devices : e # d => sock'[e] = sock[e]
    BY <2>1, <2>5, <1>1
  <2>l. Listened(d)
    BY <2>3, <2>4, Unheard
  <2>7. Flushes(d) /\ ~Joins(d)
    BY <2>1, <2>2, <2>3, <2>4, <2>6, <2>l DEF Flushes, Joins
  <2> QED
    BY <2>1, <2>4, <2>6, <2>7 DEF DeviceMove, Rests
<1> QED
  BY <1>2, <1>4, <1>5, <1>6, <1>7

(* The server reads an item of the connection it serves. *)
LEMMA RecvMoves ==
    ASSUME Types, cur \in Devices, NEW item, Recv(item)
    PROVE  /\ Popped(cur)
           /\ sock[cur][1] = item
           /\ \A e \in Devices : e # cur => Rests(e)
           /\ dev' = dev
           /\ sock' \in [Devices -> Seq(Kinds \cup {"final", "FIN"})]
           /\ spc = "recv"
           /\ UNCHANGED <<drain, closed, backlog, cur, waited, early, known>>
<1> DEFINE Item2 == Kinds \cup {"final", "FIN"}
<1>1. /\ spc = "recv" /\ sock[cur] # <<>> /\ Head(sock[cur]) = item
      /\ sock' = [sock EXCEPT ![cur] = Tail(sock[cur])]
      /\ dev' = dev
      /\ UNCHANGED <<drain, closed, backlog, cur, waited, early, known>>
  BY DEF Recv, Network
<1>2. sock \in [Devices -> Seq(Item2)] /\ sock[cur] \in Seq(Item2)
  BY DEF Types
<1>3. Tail(sock[cur]) \in Seq(Item2) /\ sock[cur][1] = item
  BY <1>1, <1>2, TailOf
<1>4. /\ sock' \in [Devices -> Seq(Item2)] /\ sock'[cur] = Tail(sock[cur])
      /\ \A e \in Devices : e # cur => sock'[e] = sock[e]
  BY <1>1, <1>2, <1>3
<1> QED
  BY <1>1, <1>3, <1>4 DEF Popped, Rests

-----------------------------------------------------------------------------
(* Types and the limits of the counters *)

ServerBounds ==
    /\ Len(backlog) <= Backlog
    /\ waited <= RecvTimeout
    /\ left <= Recog
    /\ spc # "accept" \/ complete \/ run.in_speech => cur \in Devices

(* What a device has yet to send, and what its connection holds. *)
DeviceInv(d) ==
    /\ dev[d].total_frames <= MaxFrames
    /\ dev[d].pc \in {"idle", "stream"} \/ (dev[d].pc = "blocked" /\ dev[d].held # "final")
          => dev[d].total_frames < MaxFrames /\ ~Stops(dev[d])
    /\ dev[d].pc \in {"idle", "stream", "drain"} => dev[d].held = "none"
    /\ dev[d].pc = "blocked" => dev[d].held # "none"
    /\ dev[d].polls <= drain
    /\ dev[d].pc # "done" => Len(sock[d]) <= Window /\ dev[d].result = "NONE"
    /\ Len(sock[d]) <= Window + 1
    /\ dev[d].pc \in {"idle", "stream", "blocked"} =>
          \A i \in 1 .. Len(sock[d]) : sock[d][i] \in Kinds

DevicesInv == \A d \in Devices : DeviceInv(d)

BaseInv == Types /\ ServerBounds /\ DevicesInv

LEMMA BaseHeld == BaseInv => HeldInv /\ StreamInv
  BY DEF BaseInv, DevicesInv, DeviceInv, HeldInv, StreamInv

LEMMA InitBase == Init => BaseInv
<1> SUFFICES ASSUME Init PROVE BaseInv
  OBVIOUS
<1> USE DEF Init, Policy!Init
<1>1. Fresh \in DeviceRecord
  BY DEF Fresh, DeviceRecord
<1>2. dev \in [Devices -> DeviceRecord] /\ sock \in [Devices -> Seq(Kinds \cup {"final", "FIN"})]
  BY <1>1
<1>3. run \in [in_speech : BOOLEAN, silence_run : Nat] /\ ~run.in_speech
  BY DEF Deaf
<1>4. Types
  <2>1. backlog \in Seq(Devices) /\ cur \in Devices \cup {None}
    OBVIOUS
  <2>2. closed \subseteq Devices /\ early \subseteq Devices /\ known \subseteq Devices
    OBVIOUS
  <2>3. /\ waited \in Nat /\ left \in Nat /\ late \in Nat
        /\ sessionAge \in Nat /\ speechAge \in Nat /\ cmdAge \in Nat
    OBVIOUS
  <2>4. /\ drain \in Drains /\ complete \in BOOLEAN
        /\ phase \in {"LISTENING", "WAITING", "CUT"} /\ spc \in {"accept", "recv", "busy", "tick"}
    OBVIOUS
  <2> QED
    BY <1>2, <1>3, <2>1, <2>2, <2>3, <2>4, Zenon DEF Types
<1>5. ServerBounds
  BY <1>3, Constants, RecogLongest DEF ServerBounds
<1>6. ASSUME NEW d \in Devices PROVE DeviceInv(d)
  <2>1. dev[d] = Fresh /\ sock[d] = <<>>
    OBVIOUS
  <2>2. drain \in Nat
    BY Constants
  <2>3. ~Stops(Fresh)
    BY Constants DEF Stops, Fresh
  <2> QED
    BY <2>1, <2>2, <2>3, Constants DEF DeviceInv, Fresh
<1> QED
  BY <1>4, <1>5, <1>6 DEF BaseInv, DevicesInv

LEMMA OlderNat ==
    ASSUME NEW age \in Nat
    PROVE  /\ Older(age) \in Nat
           /\ Older(age) <= age + 1
           /\ Older(age) = age + 1 \/ Older(age) = Policy!AgeCap
           /\ Policy!AgeCap = DebounceMs + MaxSessionMs + SilenceMs + (RecvTimeout + Recog)
           /\ Policy!AgeCap \in Nat
<1>1. /\ Policy!AgeCap = DebounceMs + MaxSessionMs + SilenceMs + (RecvTimeout + Recog)
      /\ Policy!AgeCap \in Nat
  BY Constants, RecogLongest DEF Policy!AgeCap
<1>2. age + 1 \in Nat
  OBVIOUS
<1>3. /\ UpTo(Policy!AgeCap, age + 1) \in Nat /\ UpTo(Policy!AgeCap, age + 1) <= age + 1
      /\ UpTo(Policy!AgeCap, age + 1) = age + 1 \/ UpTo(Policy!AgeCap, age + 1) = Policy!AgeCap
  BY <1>1, <1>2, UpToBounds, Zenon
<1> QED
  BY <1>1, <1>3, Zenon DEF Older

(* The parts of the server that only its own steps and the tick change. *)
LEMMA TypesStep ==
    ASSUME BaseInv, [Next]_vars
    PROVE  Types' /\ ServerBounds'
<1> USE DEF BaseInv
<1>h. HeldInv
  BY BaseHeld
<1>0. CASE UNCHANGED vars
  BY <1>0 DEF vars, Types, ServerBounds
<1>1. ASSUME NEW d \in Devices, Connect(d) \/ Vanish(d) \/ Unblock(d) \/ Notice(d) \/ GiveUp(d)
      PROVE  Types' /\ ServerBounds'
  <2>1. /\ dev' \in [Devices -> DeviceRecord]
        /\ sock' \in [Devices -> Seq(Kinds \cup {"final", "FIN"})]
        /\ UNCHANGED <<drain, Server>>
        /\ \/ backlog' = backlog
           \/ backlog' = Append(backlog, d) /\ Len(backlog) < Backlog
    BY <1>1, <1>h, DeviceMoves
  <2>2. backlog' \in Seq(Devices) /\ Len(backlog') <= Backlog
    <3>1. CASE backlog' = backlog
      BY <3>1 DEF Types, ServerBounds
    <3>2. CASE backlog' = Append(backlog, d) /\ Len(backlog) < Backlog
      <4>1. backlog' \in Seq(Devices) /\ Len(backlog') = Len(backlog) + 1 /\ Len(backlog) \in Nat
        BY <3>2, AppendOf DEF Types
      <4> QED
        BY <4>1, <3>2, Constants
    <3> QED
      BY <2>1, <3>1, <3>2
  <2> QED
    BY <2>1, <2>2 DEF Types, ServerBounds, Server, session, policy
<1>2. CASE Accept
  <2>1. /\ backlog # <<>> /\ cur' = Head(backlog) /\ backlog' = Tail(backlog)
        /\ UNCHANGED <<drain, dev, sock, closed, left, late, known>>
        /\ spc' = "recv" /\ waited' = 0 /\ run' = Deaf /\ complete' = FALSE
        /\ phase' = "LISTENING" /\ sessionAge' = 0 /\ speechAge' = 0 /\ cmdAge' = 0
    BY <1>2 DEF Accept, Network
  <2>2. /\ cur' \in Devices /\ backlog' \in Seq(Devices)
        /\ Len(backlog) \in Nat /\ Len(backlog') = Len(backlog) - 1
    BY <2>1, TailOf, LenProperties DEF Types
  <2>3. early' \subseteq Devices
    BY <1>2, <2>2 DEF Accept, Types
  <2>4. run' \in [in_speech : BOOLEAN, silence_run : Nat]
    BY <2>1 DEF Deaf
  <2>5. Types'
    BY <2>1, <2>2, <2>3, <2>4 DEF Types
  <2>6. Len(backlog') <= Backlog /\ waited' <= RecvTimeout /\ left' <= Recog
    BY <2>1, <2>2, Constants DEF ServerBounds
  <2> QED
    BY <2>2, <2>5, <2>6 DEF ServerBounds
<1>3. ASSUME NEW item, Recv(item),
             run' \in [in_speech : BOOLEAN, silence_run : Nat],
             spc' \in {"accept", "busy", "tick"},
             left' \in Nat, left' <= Recog, late' \in Nat,
             complete' \in BOOLEAN, speechAge' \in Nat,
             UNCHANGED <<phase, sessionAge, cmdAge>>
      PROVE  Types' /\ ServerBounds'
  <2>1. cur \in Devices
    BY <1>3 DEF ServerBounds, Recv
  <2>2. /\ dev' = dev
        /\ sock' \in [Devices -> Seq(Kinds \cup {"final", "FIN"})]
        /\ UNCHANGED <<drain, closed, backlog, cur, waited, early, known>>
    BY <2>1, <1>3, RecvMoves
  <2>3. Types'
    BY <2>2, <1>3 DEF Types
  <2> QED
    BY <2>1, <2>2, <2>3, <1>3 DEF ServerBounds
<1>4. ASSUME NEW item \in {"loud", "noise"}, RecvSounds(item)
      PROVE  Types' /\ ServerBounds'
  <2>1. Recv(item) /\ spc' = "tick" /\ UNCHANGED <<complete, left, late>>
    BY <1>4 DEF RecvSounds
  <2>2. run' \in [in_speech : BOOLEAN, silence_run : Nat]
    BY <1>4 DEF RecvSounds
  <2>3. speechAge' \in Nat /\ UNCHANGED <<phase, sessionAge, cmdAge>>
    <3>1. UpTo(speechAge, waited) \in Nat
      BY UpToBounds DEF Types
    <3> QED
      BY <3>1, <1>4 DEF RecvSounds, Policy!Speech, policy, Types
  <2>4. left' \in Nat /\ left' <= Recog /\ late' \in Nat /\ complete' \in BOOLEAN
    BY <2>1 DEF Types, ServerBounds
  <2> QED
    BY <1>3, <2>1, <2>2, <2>3, <2>4
<1>5. CASE RecvQuiet
  <2>1. Recv("quiet") /\ UNCHANGED <<complete, phase, sessionAge, speechAge, cmdAge>>
    BY <1>5 DEF RecvQuiet, policy
  <2>2. /\ run' \in [in_speech : BOOLEAN, silence_run : Nat]
        /\ spc' \in {"accept", "busy", "tick"}
        /\ left' \in Nat /\ left' <= Recog /\ late' \in Nat
    <3>1. CASE Ends
      <4>1. run' = Deaf /\ spc' = "busy" /\ left' \in Recogs /\ late' = waited + left'
        BY <1>5, <3>1 DEF RecvQuiet
      <4>2. left' \in Nat /\ left' <= Recog
        BY <4>1, RecogLongest
      <4>3. run' \in [in_speech : BOOLEAN, silence_run : Nat]
        BY <4>1 DEF Deaf
      <4>w. waited \in Nat
        BY DEF Types
      <4>g. \A a, b \in Nat : a + b \in Nat
        OBVIOUS
      <4>4. late' \in Nat
        BY <4>1, <4>2, <4>w, <4>g, Zenon
      <4> QED
        BY <4>1, <4>2, <4>3, <4>4
    <3>2. CASE ~Ends
      <4>1. /\ run' = IF run.in_speech THEN [run EXCEPT !.silence_run = @ + 1] ELSE run
            /\ spc' = "tick" /\ UNCHANGED <<left, late>>
        BY <1>5, <3>2 DEF RecvQuiet
      <4>2. run' \in [in_speech : BOOLEAN, silence_run : Nat]
        BY <4>1 DEF Types
      <4> QED
        BY <4>1, <4>2 DEF Types, ServerBounds
    <3> QED
      BY <3>1, <3>2
  <2>3. complete' \in BOOLEAN /\ speechAge' \in Nat
    BY <2>1 DEF Types
  <2> QED
    BY <1>3, <2>1, <2>2, <2>3
<1>6. CASE RecvFinal
  <2>1. /\ Recv("final") /\ complete' = TRUE /\ spc' = "tick"
        /\ UNCHANGED <<run, left, late, phase, sessionAge, speechAge, cmdAge>>
    BY <1>6 DEF RecvFinal, policy
  <2>2. /\ run' \in [in_speech : BOOLEAN, silence_run : Nat] /\ left' \in Nat /\ left' <= Recog
        /\ late' \in Nat /\ speechAge' \in Nat
    BY <2>1 DEF Types, ServerBounds
  <2> QED
    BY <1>3, <2>1, <2>2
<1>7. CASE RecvClosed
  <2>1. /\ Recv("FIN") /\ spc' = "accept"
        /\ UNCHANGED <<run, complete, left, late, phase, sessionAge, speechAge, cmdAge>>
    BY <1>7 DEF RecvClosed, session, policy
  <2>2. /\ run' \in [in_speech : BOOLEAN, silence_run : Nat] /\ left' \in Nat /\ left' <= Recog
        /\ late' \in Nat /\ speechAge' \in Nat /\ complete' \in BOOLEAN
    BY <2>1 DEF Types, ServerBounds
  <2> QED
    BY <1>3, <2>1, <2>2
<1>8. ASSUME NEW command \in BOOLEAN, Recognised(command)
      PROVE  Types' /\ ServerBounds'
  <2>1. /\ spc = "busy" /\ spc' = "tick"
        /\ UNCHANGED <<drain, dev, sock, closed, backlog, cur, waited, run, complete, left, late, early>>
    BY <1>8 DEF Recognised, Network, session
  <2>2. cur \in Devices
    BY <2>1 DEF ServerBounds
  <2>3. /\ phase' \in {"LISTENING", "WAITING", "CUT"}
        /\ sessionAge' \in Nat /\ speechAge' \in Nat /\ cmdAge' \in Nat
        /\ known' \subseteq Devices
    <3>1. UpTo(speechAge, late) \in Nat
      BY UpToBounds DEF Types
    <3>2. CASE command
      BY <3>1, <3>2, <1>8, <2>2 DEF Recognised, Policy!Command, Types
    <3>3. CASE ~command
      BY <3>3, <1>8 DEF Recognised, policy, Types
    <3> QED
      BY <3>2, <3>3
  <2>4. Types'
    BY <2>1, <2>3 DEF Types
  <2> QED
    BY <2>1, <2>2, <2>4 DEF ServerBounds
<1>9. CASE RecvTimedOut
  BY <1>9 DEF RecvTimedOut, Types, ServerBounds, Network, session, policy
<1>10. CASE SessionTick
  <2>1. /\ spc = "tick" /\ spc' \in {"recv", "accept"}
        /\ UNCHANGED <<drain, dev, sock, backlog, cur, run, complete, left, late, early, known>>
        /\ waited' = waited \/ waited' = 0
        /\ closed' = closed \/ closed' = closed \cup {cur}
        /\ phase' \in {phase, "CUT"} /\ UNCHANGED <<sessionAge, speechAge, cmdAge>>
    BY <1>10 DEF SessionTick, Network, session, Policy!Cut, policy
  <2>2. cur \in Devices
    BY <2>1 DEF ServerBounds
  <2>3. Types'
    BY <2>1, <2>2 DEF Types
  <2>4. waited' <= RecvTimeout
    BY <2>1, Constants DEF ServerBounds
  <2> QED
    BY <2>1, <2>2, <2>3, <2>4 DEF ServerBounds
<1>11. CASE Tick
  <2>1. /\ dev' \in [Devices -> DeviceRecord]
        /\ sock' \in [Devices -> Seq(Kinds \cup {"final", "FIN"})]
    BY <1>11, BaseHeld, TickMoves
  <2>2. /\ ServerWaits
        /\ UNCHANGED <<drain, closed, backlog, cur, spc, late, run, complete, phase, early, known>>
    BY <1>11 DEF Tick
  <2>3. waited' \in Nat /\ waited' <= RecvTimeout
    BY <1>11, <2>2, Constants DEF Tick, ServerWaits, Types, ServerBounds
  <2>4. left' \in Nat /\ left' <= Recog
    BY <1>11, <2>2, RecogLongest DEF Tick, ServerWaits, Types, ServerBounds
  <2>5. sessionAge' \in Nat /\ speechAge' \in Nat /\ cmdAge' \in Nat
    <3>1. Older(sessionAge) \in Nat /\ Older(speechAge) \in Nat /\ Older(cmdAge) \in Nat
      BY OlderNat DEF Types
    <3> QED
      BY <3>1, <1>11 DEF Tick, Types
  <2>6. Types'
    BY <2>1, <2>2, <2>3, <2>4, <2>5 DEF Types
  <2> QED
    BY <2>2, <2>3, <2>4, <2>6 DEF ServerBounds
<1> QED
  BY <1>0, <1>1, <1>2, <1>4, <1>5, <1>6, <1>7, <1>8, <1>9, <1>10, <1>11
     DEF Next, DeviceActs, ServerActs

(* The server's steps on the connections: one item is read, or none. *)
LEMMA ServerMoves ==
    ASSUME BaseInv, ServerActs
    PROVE  /\ dev' = dev /\ drain' = drain
           /\ \A d \in Devices : Rests(d) \/ Popped(d)
<1> USE DEF BaseInv
<1>1. ASSUME NEW item, Recv(item)
      PROVE  /\ dev' = dev /\ drain' = drain
             /\ \A d \in Devices : Rests(d) \/ Popped(d)
  <2>1. cur \in Devices
    BY <1>1 DEF ServerBounds, Recv
  <2> QED
    BY <2>1, <1>1, RecvMoves
<1>2. ASSUME UNCHANGED <<Network, sock>>
      PROVE  /\ dev' = dev /\ drain' = drain
             /\ \A d \in Devices : Rests(d) \/ Popped(d)
  BY <1>2 DEF Network, Rests
<1>3. CASE Accept \/ RecvTimedOut \/ SessionTick \/ \E command \in BOOLEAN : Recognised(command)
  BY <1>2, <1>3 DEF Accept, RecvTimedOut, SessionTick, Recognised
<1>4. CASE RecvQuiet \/ RecvFinal \/ RecvClosed \/ \E item \in {"loud", "noise"} : RecvSounds(item)
  BY <1>1, <1>4 DEF RecvQuiet, RecvFinal, RecvClosed, RecvSounds
<1> QED
  BY <1>3, <1>4 DEF ServerActs

LEMMA Moving ==
    ASSUME BaseInv, [Next]_vars
    PROVE  drain' = drain /\ \A d \in Devices : Moves(d)
<1> USE DEF BaseInv
<1>0. CASE UNCHANGED vars
  BY <1>0 DEF vars, Moves, Rests
<1>1. ASSUME NEW d \in Devices, Connect(d) \/ Vanish(d) \/ Unblock(d) \/ Notice(d) \/ GiveUp(d)
      PROVE  drain' = drain /\ \A e \in Devices : Moves(e)
  BY <1>1, DeviceMoves, BaseHeld DEF Moves
<1>2. CASE ServerActs
  BY <1>2, ServerMoves DEF Moves
<1>3. CASE Tick
  <2>1. drain' = drain
    BY <1>3 DEF Tick
  <2> QED
    BY <2>1, <1>3, BaseHeld, TickMoves DEF Moves
<1> QED
  BY <1>0, <1>1, <1>2, <1>3 DEF Next, DeviceActs

LEMMA DevicesStep ==
    ASSUME BaseInv, [Next]_vars, Types'
    PROVE  DevicesInv'
<1> SUFFICES ASSUME NEW d \in Devices PROVE DeviceInv(d)'
  BY DEF DevicesInv
<1> DEFINE Item2 == Kinds \cup {"final", "FIN"}
<1>1. /\ DeviceInv(d) /\ Moves(d) /\ drain' = drain /\ drain \in Nat
      /\ dev[d] \in DeviceRecord /\ dev'[d] \in DeviceRecord
      /\ sock[d] \in Seq(Item2) /\ sock'[d] \in Seq(Item2)
  BY Moving, Constants DEF BaseInv, DevicesInv, Types
<1>2. Window \in Nat /\ Window > 0 /\ MaxFrames \in Nat /\ Len(sock[d]) \in Nat
  BY <1>1, Constants
<1>3. CASE Rests(d)
  BY <1>1, <1>3 DEF DeviceInv, Rests
<1>4. CASE Joins(d) \/ Leaves(d) \/ Polls(d)
  <2>1. sock'[d] = sock[d] /\ dev'[d].polls \in Nat /\ dev'[d].polls <= drain
    BY <1>1, <1>4 DEF Joins, Leaves, Polls, DeviceInv, DeviceRecord
  <2> QED
    BY <1>1, <1>2, <1>4, <2>1 DEF Joins, Leaves, Polls, Carried, Listened, DeviceInv
<1>5. CASE GivesUp(d)
  <2>1. Len(sock'[d]) = Len(sock[d]) + 1
    BY <1>1, <1>5, AppendOf DEF GivesUp
  <2> QED
    BY <1>1, <1>2, <1>5, <2>1 DEF GivesUp, Carried, Listened, DeviceInv
<1>6. ASSUME NEW item \in Kinds \cup {"final"}, sock'[d] = Append(sock[d], item), Room(d)
      PROVE  /\ Len(sock'[d]) <= Window
             /\ item # "final" /\ (\A i \in 1 .. Len(sock[d]) : sock[d][i] \in Kinds) =>
                   \A i \in 1 .. Len(sock'[d]) : sock'[d][i] \in Kinds
  <2>1. /\ Len(sock'[d]) = Len(sock[d]) + 1
        /\ \A i \in 1 .. Len(sock[d]) : sock'[d][i] = sock[d][i]
        /\ sock'[d][Len(sock[d]) + 1] = item
    BY <1>1, <1>6, AppendOf
  <2>2. Len(sock'[d]) <= Window
    BY <2>1, <1>2, <1>6 DEF Room
  <2>3. ASSUME item # "final", \A i \in 1 .. Len(sock[d]) : sock[d][i] \in Kinds,
               NEW i \in 1 .. Len(sock'[d])
        PROVE  sock'[d][i] \in Kinds
    <3>1. i \in 1 .. Len(sock[d]) \/ i = Len(sock[d]) + 1
      BY <2>1, <1>2
    <3> QED
      BY <3>1, <2>1, <2>3
  <2> QED
    BY <2>2, <2>3
<1>7. CASE Flushes(d)
  <2>1. /\ Len(sock'[d]) <= Window
        /\ dev[d].held # "final" => \A i \in 1 .. Len(sock'[d]) : sock'[d][i] \in Kinds
    BY <1>6, <1>7, <1>1 DEF Flushes, Listened, DeviceInv
  <2> QED
    BY <1>1, <1>2, <1>7, <2>1 DEF Flushes, Listened, DeviceInv
<1>8. ASSUME NEW item \in Kinds \cup {"final"}, Captures(d, item)
      PROVE  DeviceInv(d)'
  <2>0. dev'[d].total_frames <= MaxFrames
    BY <1>1, <1>2, <1>8 DEF Captures, DeviceInv, DeviceRecord
  <2>1. CASE Room(d)
    <3>1. /\ Len(sock'[d]) <= Window
          /\ item # "final" => \A i \in 1 .. Len(sock'[d]) : sock'[d][i] \in Kinds
      BY <1>6, <1>8, <1>1, <2>1 DEF Captures, DeviceInv
    <3> QED
      BY <1>1, <1>2, <1>8, <2>0, <2>1, <3>1 DEF Captures, DeviceInv
  <2>2. CASE ~Room(d)
    <3>1. sock'[d] = sock[d] /\ dev'[d].pc = "blocked" /\ dev'[d].held = item /\ item # "none"
      BY <1>8, <2>2 DEF Captures, Kinds
    <3> QED
      BY <1>1, <1>2, <1>8, <2>0, <3>1 DEF Captures, DeviceInv
  <2> QED
    BY <2>1, <2>2
<1>9. CASE Popped(d)
  <2>1. /\ Len(sock'[d]) = Len(sock[d]) - 1 /\ Len(sock[d]) >= 1
        /\ \A i \in 1 .. (Len(sock[d]) - 1) : sock'[d][i] = sock[d][i + 1]
    BY <1>1, <1>9, TailOf DEF Popped
  <2>2. (\A i \in 1 .. Len(sock[d]) : sock[d][i] \in Kinds) =>
            \A i \in 1 .. Len(sock'[d]) : sock'[d][i] \in Kinds
    <3> SUFFICES ASSUME \A i \in 1 .. Len(sock[d]) : sock[d][i] \in Kinds,
                        NEW i \in 1 .. Len(sock'[d])
                 PROVE  sock'[d][i] \in Kinds
      OBVIOUS
    <3>1. i \in 1 .. (Len(sock[d]) - 1) /\ i + 1 \in 1 .. Len(sock[d])
      BY <2>1, <1>2
    <3> QED
      BY <3>1, <2>1
  <2> QED
    BY <1>1, <1>2, <1>9, <2>1, <2>2 DEF Popped, DeviceInv
<1> QED
  BY <1>1, <1>3, <1>4, <1>5, <1>7, <1>8, <1>9 DEF Moves, DeviceMove, TickMove

LEMMA BaseStep == BaseInv /\ [Next]_vars => BaseInv'
  BY TypesStep, DevicesStep DEF BaseInv

(* The variables stay within their types for every number of devices, and  *)
(* no counter passes its limit: frames, polls, the buffers, the backlog,   *)
(* the wait in recv() and the recognition.                                 *)
THEOREM TypeCorrect == Spec => []TypeOK
<1>1. BaseInv => TypeOK
  <2> SUFFICES ASSUME BaseInv PROVE TypeOK
    OBVIOUS
  <2>1. ASSUME NEW d \in Devices
        PROVE  /\ dev[d].pc \in {"idle", "stream", "blocked", "drain", "done"}
               /\ dev[d].total_frames \in 0 .. MaxFrames
               /\ dev[d].polls \in 0 .. drain
               /\ Len(sock[d]) <= Window + 1
    <3>1. dev[d] \in DeviceRecord /\ DeviceInv(d) /\ drain \in Nat
      BY Constants DEF BaseInv, Types, DevicesInv
    <3> QED
      BY <3>1, Constants DEF DeviceRecord, DeviceInv
  <2>2. waited \in 0 .. RecvTimeout /\ left \in 0 .. Recog
    BY Constants, RecogLongest DEF BaseInv, Types, ServerBounds
  <2> QED
    BY <2>1, <2>2 DEF TypeOK, BaseInv, Types, ServerBounds
<1> QED
  BY <1>1, InitBase, BaseStep, PTL DEF Spec

-----------------------------------------------------------------------------
(* The silence at the end of the stream *)

Held(d) == IF dev[d].held \in Kinds THEN 1 ELSE 0

(* The frames in the buffers are the first n items. *)
Frames(d, n) ==
    /\ n <= Len(sock[d])
    /\ \A i \in 1 .. n : sock[d][i] \in Kinds
    /\ \A i \in (n + 1) .. Len(sock[d]) : sock[d][i] \notin Kinds

(* The quiet frames a device has noted at the end are among the last ones  *)
(* that wait, or all that wait are quiet and the recogniser has counted    *)
(* the others.                                                             *)
StillAfter(d, n) ==
    /\ \A i \in 1 .. n : sock[d][i] # "quiet" => StillOf(dev[d]) <= (n - i) + Held(d)
    /\ dev[d].held \in {"loud", "noise"} => StillOf(dev[d]) = 0
    /\ d = cur /\ run.in_speech => StillOf(dev[d]) <= run.silence_run + n + Held(d)

StillInv == \A d \in Devices : \E n \in Nat : Frames(d, n) /\ StillAfter(d, n)

(* Behind the final chunk there is nothing to send. *)
SentInv ==
    \A d \in Devices :
        (\E i \in 1 .. Len(sock[d]) : sock[d][i] \notin Kinds) => dev[d].held = "none"

CompleteInv ==
    complete => /\ dev[cur].pc \in {"drain", "done"}
                /\ dev[cur].held = "none"
                /\ \A i \in 1 .. Len(sock[cur]) : sock[cur][i] \notin Kinds

HangInv == run.in_speech => run.silence_run < SegHang

QuietInv == BaseInv /\ StillInv /\ SentInv /\ CompleteInv /\ HangInv

LEMMA InitQuiet == Init => QuietInv
<1> SUFFICES ASSUME Init PROVE QuietInv
  OBVIOUS
<1>1. BaseInv
  BY InitBase
<1>2. ~run.in_speech /\ ~complete
  BY DEF Init, Deaf
<1>3. ASSUME NEW d \in Devices
      PROVE  sock[d] = <<>> /\ dev[d].held = "none" /\ Len(sock[d]) = 0
  BY DEF Init, Fresh
<1>4. ASSUME NEW d \in Devices
      PROVE  \E n \in Nat : Frames(d, n) /\ StillAfter(d, n)
  <2>1. Frames(d, 0)
    BY <1>3 DEF Frames
  <2>2. StillAfter(d, 0)
    BY <1>2, <1>3 DEF StillAfter
  <2> QED
    BY <2>1, <2>2
<1> QED
  BY <1>1, <1>2, <1>3, <1>4 DEF QuietInv, StillInv, SentInv, CompleteInv, HangInv

(* The frames of a device that has not sent the final chunk fill its buffers. *)
LEMMA AllFrames ==
    ASSUME Types, NEW d \in Devices, DeviceInv(d), NEW n \in Nat, Frames(d, n),
           dev[d].pc \in {"idle", "stream", "blocked"}
    PROVE  n = Len(sock[d])
<1>1. Len(sock[d]) \in Nat
  BY DEF Types
<1>2. \A i \in 1 .. Len(sock[d]) : sock[d][i] \in Kinds
  BY DEF DeviceInv
<1>3. ASSUME n < Len(sock[d]) PROVE FALSE
  <2>1. n + 1 \in 1 .. Len(sock[d]) /\ n + 1 \in (n + 1) .. Len(sock[d])
    BY <1>1, <1>3
  <2> QED
    BY <2>1, <1>2 DEF Frames
<1> QED
  BY <1>1, <1>3 DEF Frames

(* An item appended to the buffers. *)
LEMMA FramesAppend ==
    ASSUME Types, NEW d \in Devices, NEW n \in Nat, Frames(d, n),
           NEW item \in Kinds \cup {"final", "FIN"}, sock'[d] = Append(sock[d], item)
    PROVE  /\ item \notin Kinds => Frames(d, n)'
           /\ item \in Kinds /\ n = Len(sock[d]) => Frames(d, n + 1)' /\ sock'[d][n + 1] = item
           /\ \A i \in 1 .. n : sock'[d][i] = sock[d][i]
           /\ Len(sock'[d]) = Len(sock[d]) + 1
<1>1. /\ Len(sock'[d]) = Len(sock[d]) + 1
      /\ \A i \in 1 .. Len(sock[d]) : sock'[d][i] = sock[d][i]
      /\ sock'[d][Len(sock[d]) + 1] = item
      /\ Len(sock[d]) \in Nat
  BY AppendOf DEF Types
<1> DEFINE L == Len(sock[d])
           L2 == Len(sock'[d])
<1>2. n <= L /\ n \in Nat /\ L \in Nat /\ L2 = L + 1
  BY <1>1 DEF Frames
<1>3. \A i \in 1 .. n : i \in 1 .. L
  BY <1>2
<1>4. \A i \in 1 .. n : sock'[d][i] = sock[d][i]
  BY <1>1, <1>3
<1>5. ASSUME item \notin Kinds PROVE Frames(d, n)'
  <2>1. ASSUME NEW i \in (n + 1) .. L2 PROVE sock'[d][i] \notin Kinds
    <3>1. (i \in (n + 1) .. L /\ i \in 1 .. L) \/ i = L + 1
      BY <1>2
    <3> QED
      BY <3>1, <1>1, <1>5 DEF Frames
  <2>2. n <= L2
    BY <1>2
  <2> QED
    BY <1>4, <2>1, <2>2 DEF Frames
<1>6. ASSUME item \in Kinds, n = L PROVE Frames(d, n + 1)'
  <2>1. ASSUME NEW i \in 1 .. (n + 1) PROVE sock'[d][i] \in Kinds
    <3>1. i \in 1 .. n \/ i = L + 1
      BY <1>2, <1>6
    <3> QED
      BY <3>1, <1>1, <1>4, <1>6 DEF Frames
  <2>2. n + 1 <= L2 /\ ((n + 1) + 1) .. L2 = {}
    BY <1>2, <1>6
  <2> QED
    BY <2>1, <2>2 DEF Frames
<1> QED
  BY <1>1, <1>4, <1>5, <1>6

(* No step but the reading of an item can spoil the count. *)
LEMMA StillMoves ==
    ASSUME BaseInv, Types', NEW d \in Devices, NEW n \in Nat, Frames(d, n), StillAfter(d, n),
           Rests(d) \/ DeviceMove(d) \/ TickMove(d),
           d = cur' /\ run'.in_speech =>
              d = cur /\ run.in_speech /\ run'.silence_run = run.silence_run
    PROVE  \E m \in Nat : Frames(d, m)' /\ StillAfter(d, m)'
<1>1. /\ Types /\ DeviceInv(d)
      /\ dev[d] \in DeviceRecord /\ dev'[d] \in DeviceRecord
      /\ sock[d] \in Seq(Kinds \cup {"final", "FIN"})
  BY DEF BaseInv, DevicesInv, Types
<1>2. StillOf(dev[d]) \in Nat /\ StillOf(dev'[d]) \in Nat /\ Len(sock[d]) \in Nat
  BY <1>1, StillNat
<1>3. run'.in_speech => run'.silence_run \in Nat
  BY DEF Types
<1>4. Held(d) \in Nat /\ Held(d)' \in Nat
  BY DEF Held
<1>5. ASSUME sock'[d] = sock[d], dev'[d].held = dev[d].held, StillOf(dev'[d]) = StillOf(dev[d])
      PROVE  Frames(d, n)' /\ StillAfter(d, n)'
  BY <1>5 DEF Frames, StillAfter, Held
<1>6. CASE Rests(d) \/ Joins(d) \/ Leaves(d) \/ Polls(d)
  BY <1>5, <1>6 DEF Rests, Joins, Leaves, Polls, Carried, Listened
<1>7. CASE GivesUp(d)
  <2>1. sock'[d] = Append(sock[d], "FIN") /\ dev'[d].held = dev[d].held /\ StillOf(dev'[d]) = StillOf(dev[d])
    BY <1>7 DEF GivesUp, Carried, Listened
  <2>2. "FIN" \in Kinds \cup {"final", "FIN"} /\ "FIN" \notin Kinds
    BY DEF Kinds
  <2>3. Frames(d, n)' /\ \A i \in 1 .. n : sock'[d][i] = sock[d][i]
    BY <2>1, <2>2, <1>1, FramesAppend
  <2>4. StillAfter(d, n)'
    BY <2>1, <2>3 DEF StillAfter, Held
  <2> QED
    BY <2>3, <2>4
<1>8. CASE Flushes(d)
  <2> DEFINE item == dev[d].held
  <2>1. /\ sock'[d] = Append(sock[d], item) /\ item \in Kinds \cup {"final"}
        /\ dev'[d].held = "none" /\ StillOf(dev'[d]) = StillOf(dev[d]) /\ dev[d].pc = "blocked"
    BY <1>8 DEF Flushes, Listened
  <2>2. n = Len(sock[d])
    BY <2>1, <1>1, AllFrames
  <2>3. /\ item \notin Kinds => Frames(d, n)'
        /\ item \in Kinds => Frames(d, n + 1)' /\ sock'[d][n + 1] = item
        /\ \A i \in 1 .. n : sock'[d][i] = sock[d][i]
    BY <2>1, <2>2, <1>1, FramesAppend
  <2>4. CASE item \notin Kinds
    <3>1. Held(d)' = 0 /\ Held(d) = 0
      BY <2>1, <2>4 DEF Held, Kinds
    <3>2. StillAfter(d, n)'
      BY <2>1, <2>3, <3>1 DEF StillAfter
    <3> QED
      BY <2>3, <2>4, <3>2
  <2>5. CASE item \in Kinds
    <3>1. Held(d)' = 0 /\ Held(d) = 1
      BY <2>1, <2>5 DEF Held, Kinds
    <3>2. ASSUME NEW i \in 1 .. (n + 1), sock'[d][i] # "quiet"
          PROVE  StillOf(dev'[d]) <= ((n + 1) - i) + 0
      <4>1. CASE i \in 1 .. n
        <5>1. StillOf(dev[d]) <= (n - i) + 1
          BY <4>1, <2>3, <3>1, <3>2 DEF StillAfter
        <5> QED
          BY <5>1, <4>1, <2>1, <1>2
      <4>2. CASE i = n + 1
        <5>1. item \in {"loud", "noise"}
          BY <4>2, <2>3, <2>5, <3>2 DEF Kinds
        <5>2. StillOf(dev'[d]) = 0
          BY <5>1, <2>1 DEF StillAfter
        <5> QED
          BY <5>2, <4>2
      <4> QED
        BY <4>1, <4>2
    <3>3. ASSUME d = cur', run'.in_speech
          PROVE  StillOf(dev'[d]) <= run'.silence_run + (n + 1) + 0
      <4>1. StillOf(dev[d]) <= run'.silence_run + n + 1
        BY <3>1, <3>3 DEF StillAfter
      <4> QED
        BY <4>1, <2>1, <1>2, <1>3, <3>3
    <3>4. StillAfter(d, n + 1)'
      BY <2>1, <3>1, <3>2, <3>3 DEF StillAfter
    <3> QED
      BY <2>3, <2>5, <3>4
  <2> QED
    BY <2>4, <2>5
<1>9. ASSUME NEW item \in Kinds \cup {"final"}, Captures(d, item)
      PROVE  \E m \in Nat : Frames(d, m)' /\ StillAfter(d, m)'
  <2>1. /\ dev[d].pc = "stream" /\ dev[d].held = "none" /\ Held(d) = 0
        /\ item = "final" => StillOf(dev'[d]) <= StillOf(dev[d])
        /\ item = "quiet" => StillOf(dev'[d]) <= StillOf(dev[d]) + 1
        /\ item \in {"loud", "noise"} => StillOf(dev'[d]) = 0
    BY <1>1, <1>9 DEF Captures, DeviceInv, Held, Kinds
  <2>2. n = Len(sock[d])
    BY <2>1, <1>1, AllFrames
  <2>g. item \in Kinds => StillOf(dev'[d]) <= StillOf(dev[d]) + 1
    BY <2>1, <1>2 DEF Kinds
  <2>3. CASE Room(d) /\ item \in Kinds
    <3>1. sock'[d] = Append(sock[d], item) /\ dev'[d].held = "none" /\ Held(d)' = 0
      BY <1>9, <2>3 DEF Captures, Held, Kinds
    <3>2. /\ Frames(d, n + 1)' /\ sock'[d][n + 1] = item
          /\ \A i \in 1 .. n : sock'[d][i] = sock[d][i]
      BY <2>2, <2>3, <3>1, <1>1, FramesAppend
    <3>3. ASSUME NEW i \in 1 .. (n + 1), sock'[d][i] # "quiet"
          PROVE  StillOf(dev'[d]) <= ((n + 1) - i) + 0
      <4>1. CASE i \in 1 .. n
        <5>1. StillOf(dev[d]) <= (n - i) + 0
          BY <4>1, <2>1, <3>2, <3>3 DEF StillAfter
        <5> QED
          BY <5>1, <4>1, <2>3, <2>g, <1>2
      <4>2. CASE i = n + 1
        <5>1. StillOf(dev'[d]) = 0
          BY <4>2, <2>1, <2>3, <3>2, <3>3 DEF Kinds
        <5> QED
          BY <5>1, <4>2
      <4> QED
        BY <4>1, <4>2
    <3>4. ASSUME d = cur', run'.in_speech
          PROVE  StillOf(dev'[d]) <= run'.silence_run + (n + 1) + 0
      <4>1. StillOf(dev[d]) <= run'.silence_run + n + 0
        BY <2>1, <3>4 DEF StillAfter
      <4> QED
        BY <4>1, <2>3, <2>g, <1>2, <1>3, <3>4
    <3>5. StillAfter(d, n + 1)'
      BY <3>1, <3>3, <3>4 DEF StillAfter
    <3> QED
      BY <3>2, <3>5
  <2>4. CASE Room(d) /\ item = "final"
    <3>1. /\ sock'[d] = Append(sock[d], item) /\ dev'[d].held = "none" /\ Held(d)' = 0
          /\ StillOf(dev'[d]) <= StillOf(dev[d]) /\ item \notin Kinds
      BY <1>9, <2>1, <2>4 DEF Captures, Held, Kinds
    <3>2. Frames(d, n)' /\ \A i \in 1 .. n : sock'[d][i] = sock[d][i]
      BY <3>1, <1>1, FramesAppend
    <3>3. ASSUME NEW i \in 1 .. n, sock'[d][i] # "quiet"
          PROVE  StillOf(dev'[d]) <= (n - i) + 0
      <4>1. StillOf(dev[d]) <= (n - i) + 0
        BY <2>1, <3>2, <3>3 DEF StillAfter
      <4> QED
        BY <4>1, <3>1, <1>2
    <3>4. ASSUME d = cur', run'.in_speech
          PROVE  StillOf(dev'[d]) <= run'.silence_run + n + 0
      <4>1. StillOf(dev[d]) <= run'.silence_run + n + 0
        BY <2>1, <3>4 DEF StillAfter
      <4> QED
        BY <4>1, <3>1, <3>4, <1>2, <1>3
    <3>5. StillAfter(d, n)'
      BY <3>1, <3>3, <3>4 DEF StillAfter
    <3> QED
      BY <3>2, <3>5
  <2>5. CASE ~Room(d) /\ item \in Kinds
    <3>1. sock'[d] = sock[d] /\ dev'[d].held = item /\ Held(d)' = 1
      BY <1>9, <2>5 DEF Captures, Held
    <3>2. Frames(d, n)'
      BY <3>1 DEF Frames
    <3>3. ASSUME NEW i \in 1 .. n, sock'[d][i] # "quiet"
          PROVE  StillOf(dev'[d]) <= (n - i) + 1
      <4>1. StillOf(dev[d]) <= (n - i) + 0
        BY <2>1, <3>1, <3>3 DEF StillAfter
      <4> QED
        BY <4>1, <2>5, <2>g, <1>2
    <3>4. ASSUME d = cur', run'.in_speech
          PROVE  StillOf(dev'[d]) <= run'.silence_run + n + 1
      <4>1. StillOf(dev[d]) <= run'.silence_run + n + 0
        BY <2>1, <3>4 DEF StillAfter
      <4> QED
        BY <4>1, <2>5, <2>g, <1>2, <1>3, <3>4
    <3>5. StillAfter(d, n)'
      BY <2>1, <3>1, <3>3, <3>4 DEF StillAfter
    <3> QED
      BY <3>2, <3>5
  <2>6. CASE ~Room(d) /\ item = "final"
    <3>1. /\ sock'[d] = sock[d] /\ dev'[d].held = "final" /\ Held(d)' = 0
          /\ StillOf(dev'[d]) <= StillOf(dev[d])
      BY <1>9, <2>1, <2>6 DEF Captures, Held, Kinds
    <3>2. Frames(d, n)'
      BY <3>1 DEF Frames
    <3>3. ASSUME NEW i \in 1 .. n, sock'[d][i] # "quiet"
          PROVE  StillOf(dev'[d]) <= (n - i) + 0
      <4>1. StillOf(dev[d]) <= (n - i) + 0
        BY <2>1, <3>1, <3>3 DEF StillAfter
      <4> QED
        BY <4>1, <3>1, <1>2
    <3>4. ASSUME d = cur', run'.in_speech
          PROVE  StillOf(dev'[d]) <= run'.silence_run + n + 0
      <4>1. StillOf(dev[d]) <= run'.silence_run + n + 0
        BY <2>1, <3>4 DEF StillAfter
      <4> QED
        BY <4>1, <3>1, <3>4, <1>2, <1>3
    <3>5. StillAfter(d, n)'
      BY <3>1, <3>3, <3>4 DEF StillAfter
    <3> QED
      BY <3>2, <3>5
  <2> QED
    BY <2>3, <2>4, <2>5, <2>6
<1> QED
  BY <1>6, <1>7, <1>8, <1>9 DEF DeviceMove, TickMove

(* An item read from the buffers. *)
LEMMA FramesTail ==
    ASSUME Types, NEW d \in Devices, NEW n \in Nat, Frames(d, n),
           sock[d] # <<>>, sock'[d] = Tail(sock[d])
    PROVE  /\ sock[d][1] \in Kinds =>
                /\ n >= 1 /\ n - 1 \in Nat /\ Frames(d, n - 1)'
                /\ \A i \in 1 .. (n - 1) : sock'[d][i] = sock[d][i + 1]
           /\ sock[d][1] \notin Kinds => n = 0 /\ Frames(d, 0)'
           /\ Len(sock'[d]) = Len(sock[d]) - 1
<1> DEFINE L == Len(sock[d])
           L2 == Len(sock'[d])
<1>1. /\ L \in Nat /\ L >= 1 /\ L2 = L - 1
      /\ \A i \in 1 .. (L - 1) : sock'[d][i] = sock[d][i + 1]
  BY TailOf DEF Types
<1>2. /\ n <= L
      /\ \A i \in 1 .. n : sock[d][i] \in Kinds
      /\ \A i \in (n + 1) .. L : sock[d][i] \notin Kinds
  BY DEF Frames
<1>3. ASSUME sock[d][1] \in Kinds
      PROVE  /\ n >= 1 /\ n - 1 \in Nat /\ Frames(d, n - 1)'
             /\ \A i \in 1 .. (n - 1) : sock'[d][i] = sock[d][i + 1]
  <2>1. n >= 1
    <3> SUFFICES ASSUME n = 0 PROVE FALSE
      OBVIOUS
    <3>1. 1 \in (n + 1) .. L
      BY <1>1
    <3> QED
      BY <3>1, <1>2, <1>3
  <2>2. ASSUME NEW i \in 1 .. (n - 1)
        PROVE  sock'[d][i] = sock[d][i + 1] /\ sock'[d][i] \in Kinds
    <3>1. i \in 1 .. (L - 1) /\ i + 1 \in 1 .. n
      BY <1>1, <1>2, <2>1
    <3> QED
      BY <3>1, <1>1, <1>2
  <2>3. ASSUME NEW i \in ((n - 1) + 1) .. L2
        PROVE  sock'[d][i] \notin Kinds
    <3>1. i \in 1 .. (L - 1) /\ i + 1 \in (n + 1) .. L
      BY <1>1, <1>2, <2>1
    <3> QED
      BY <3>1, <1>1, <1>2
  <2>4. n - 1 <= L2 /\ n - 1 \in Nat
    BY <1>1, <1>2, <2>1
  <2> QED
    BY <2>1, <2>2, <2>3, <2>4 DEF Frames
<1>4. ASSUME sock[d][1] \notin Kinds PROVE n = 0 /\ Frames(d, 0)'
  <2>1. n = 0
    <3> SUFFICES ASSUME n >= 1 PROVE FALSE
      OBVIOUS
    <3>1. 1 \in 1 .. n
      OBVIOUS
    <3> QED
      BY <3>1, <1>2, <1>4
  <2>2. ASSUME NEW i \in (0 + 1) .. L2
        PROVE  sock'[d][i] \notin Kinds
    <3>1. i \in 1 .. (L - 1) /\ i + 1 \in (n + 1) .. L
      BY <1>1, <2>1
    <3> QED
      BY <3>1, <1>1, <1>2
  <2>3. 0 <= L2
    BY <1>1
  <2> QED
    BY <2>1, <2>2, <2>3 DEF Frames
<1> QED
  BY <1>1, <1>3, <1>4

(* The count when the server reads: a sound restarts it, a quiet frame     *)
(* moves from the buffers into the recogniser's count.                     *)
LEMMA StillRecv ==
    ASSUME BaseInv, Types', cur \in Devices, NEW n \in Nat, Frames(cur, n), StillAfter(cur, n),
           Popped(cur), cur' = cur,
           sock[cur][1] \in {"loud", "noise"} => run'.silence_run = 0,
           sock[cur][1] \notin {"loud", "noise"} /\ run'.in_speech => run.in_speech,
           sock[cur][1] = "quiet" /\ run'.in_speech => run'.silence_run = run.silence_run + 1,
           sock[cur][1] \notin Kinds => run' = run
    PROVE  \E m \in Nat : Frames(cur, m)' /\ StillAfter(cur, m)'
<1>1. /\ Types /\ sock[cur] # <<>> /\ sock'[cur] = Tail(sock[cur]) /\ dev'[cur] = dev[cur]
      /\ StillOf(dev[cur]) \in Nat /\ run.silence_run \in Nat /\ run'.silence_run \in Nat
  BY StillNat DEF BaseInv, Popped, Types
<1>2. Held(cur)' = Held(cur) /\ Held(cur) \in Nat
  BY <1>1 DEF Held
<1> DEFINE d == cur
<1>3. /\ sock[d][1] \in Kinds =>
                /\ n >= 1 /\ n - 1 \in Nat /\ Frames(d, n - 1)'
                /\ \A i \in 1 .. (n - 1) : sock'[d][i] = sock[d][i + 1]
      /\ sock[d][1] \notin Kinds => n = 0 /\ Frames(d, 0)'
  <2> SUFFICES ASSUME NEW e \in Devices, e = cur
               PROVE  /\ sock[e][1] \in Kinds =>
                            /\ n >= 1 /\ n - 1 \in Nat /\ Frames(e, n - 1)'
                            /\ \A i \in 1 .. (n - 1) : sock'[e][i] = sock[e][i + 1]
                      /\ sock[e][1] \notin Kinds => n = 0 /\ Frames(e, 0)'
    BY Zenon
  <2>1. Frames(e, n) /\ sock[e] # <<>> /\ sock'[e] = Tail(sock[e])
    BY <1>1
  <2> QED
    BY <1>1, <2>1, FramesTail
<1>4. CASE sock[cur][1] \notin Kinds
  <2>1. StillAfter(cur, 0)'
    BY <1>1, <1>2, <1>3, <1>4 DEF StillAfter
  <2> QED
    BY <1>3, <1>4, <2>1
<1>5. CASE sock[cur][1] \in Kinds
  <2>1. ASSUME NEW i \in 1 .. (n - 1), sock'[cur][i] # "quiet"
        PROVE  StillOf(dev'[cur]) <= ((n - 1) - i) + Held(cur)
    <3>1. i + 1 \in 1 .. n /\ sock[cur][i + 1] # "quiet"
      BY <1>3, <1>5, <2>1
    <3>2. StillOf(dev[cur]) <= (n - (i + 1)) + Held(cur)
      BY <3>1 DEF StillAfter
    <3>3. i \in Nat
      OBVIOUS
    <3> QED
      BY <1>1, <1>2, <3>2, <3>3
  <2>2. ASSUME run'.in_speech
        PROVE  StillOf(dev'[cur]) <= run'.silence_run + (n - 1) + Held(cur)
    <3>1. CASE sock[cur][1] = "quiet"
      <4>1. run.in_speech /\ run'.silence_run = run.silence_run + 1
        BY <3>1, <2>2
      <4>2. StillOf(dev[cur]) <= run.silence_run + n + Held(cur)
        BY <4>1 DEF StillAfter
      <4> QED
        BY <1>1, <1>2, <4>1, <4>2
    <3>2. CASE sock[cur][1] # "quiet"
      <4>1. run'.silence_run = 0
        BY <3>2, <1>5 DEF Kinds
      <4>2. 1 \in 1 .. n
        BY <1>3, <1>5
      <4>3. StillOf(dev[cur]) <= (n - 1) + Held(cur)
        BY <3>2, <4>2 DEF StillAfter
      <4> QED
        BY <1>1, <1>2, <4>1, <4>3
    <3> QED
      BY <3>1, <3>2
  <2>3. StillAfter(cur, n - 1)'
    <3>1. cur' = cur /\ dev'[cur].held = dev[cur].held /\ StillOf(dev'[cur]) = StillOf(dev[cur])
      BY <1>1
    <3> QED
      BY <1>2, <2>1, <2>2, <3>1 DEF StillAfter
  <2> QED
    BY <1>3, <1>5, <2>3
<1> QED
  BY <1>4, <1>5

Odd(d) == \E i \in 1 .. Len(sock[d]) : sock[d][i] \notin Kinds

NoFrames(d) == \A i \in 1 .. Len(sock[d]) : sock[d][i] \notin Kinds

LEMMA SentMoves ==
    ASSUME BaseInv, NEW d \in Devices, Moves(d), Odd(d) => dev[d].held = "none"
    PROVE  Odd(d)' => dev'[d].held = "none"
<1> SUFFICES ASSUME Odd(d)', dev'[d].held # "none" PROVE FALSE
  OBVIOUS
<1>1. DeviceInv(d) /\ sock[d] \in Seq(Kinds \cup {"final", "FIN"}) /\ Len(sock[d]) \in Nat
  BY DEF BaseInv, DevicesInv, Types
<1>2. CASE Rests(d) \/ Joins(d) \/ Leaves(d) \/ Polls(d)
  BY <1>2 DEF Rests, Joins, Leaves, Polls, Carried, Listened, Odd
<1>3. CASE GivesUp(d)
  BY <1>1, <1>3 DEF GivesUp, Carried, Listened, DeviceInv
<1>4. CASE Flushes(d)
  BY <1>4 DEF Flushes
<1>5. ASSUME NEW item \in Kinds \cup {"final"}, Captures(d, item) PROVE FALSE
  <2>1. ~Room(d) /\ sock'[d] = sock[d] /\ dev[d].pc = "stream"
    BY <1>5 DEF Captures
  <2> QED
    BY <2>1, <1>1 DEF DeviceInv, Odd
<1>6. CASE Popped(d)
  <2>1. /\ Len(sock'[d]) = Len(sock[d]) - 1
        /\ \A i \in 1 .. (Len(sock[d]) - 1) : sock'[d][i] = sock[d][i + 1]
        /\ dev'[d] = dev[d]
    BY <1>1, <1>6, TailOf DEF Popped
  <2>2. PICK i \in 1 .. Len(sock'[d]) : sock'[d][i] \notin Kinds
    BY DEF Odd
  <2>3. i \in 1 .. (Len(sock[d]) - 1) /\ i + 1 \in 1 .. Len(sock[d])
    BY <2>1, <1>1
  <2>4. sock[d][i + 1] \notin Kinds
    BY <2>1, <2>2, <2>3
  <2> QED
    BY <2>1, <2>3, <2>4 DEF Odd
<1> QED
  BY <1>2, <1>3, <1>4, <1>5, <1>6 DEF Moves, DeviceMove, TickMove

LEMMA FinishedMoves ==
    ASSUME BaseInv, NEW d \in Devices, Moves(d),
           dev[d].pc \in {"drain", "done"}, dev[d].held = "none", NoFrames(d)
    PROVE  dev'[d].pc \in {"drain", "done"} /\ dev'[d].held = "none" /\ NoFrames(d)'
<1>1. sock[d] \in Seq(Kinds \cup {"final", "FIN"}) /\ Len(sock[d]) \in Nat
  BY DEF BaseInv, DevicesInv, Types
<1>2. CASE Rests(d) \/ Joins(d) \/ Leaves(d) \/ Polls(d)
  BY <1>2 DEF Rests, Joins, Leaves, Polls, Carried, Listened, NoFrames
<1>3. CASE GivesUp(d)
  <2>1. dev'[d].pc = "done" /\ dev'[d].held = "none" /\ sock'[d] = Append(sock[d], "FIN")
    BY <1>3 DEF GivesUp, Carried, Listened
  <2>2. /\ Len(sock'[d]) = Len(sock[d]) + 1
        /\ \A i \in 1 .. Len(sock[d]) : sock'[d][i] = sock[d][i]
        /\ sock'[d][Len(sock[d]) + 1] = "FIN"
    BY <1>1, <2>1, AppendOf
  <2>3. ASSUME NEW i \in 1 .. Len(sock'[d]) PROVE sock'[d][i] \notin Kinds
    <3>1. i \in 1 .. Len(sock[d]) \/ i = Len(sock[d]) + 1
      BY <1>1, <2>2
    <3> QED
      BY <2>2, <3>1 DEF NoFrames, Kinds
  <2> QED
    BY <2>1, <2>3 DEF NoFrames
<1>4. ~Flushes(d) /\ \A item : ~Captures(d, item)
  BY DEF Flushes, Captures
<1>5. CASE Popped(d)
  <2>1. /\ Len(sock'[d]) = Len(sock[d]) - 1
        /\ \A i \in 1 .. (Len(sock[d]) - 1) : sock'[d][i] = sock[d][i + 1]
        /\ dev'[d] = dev[d]
    BY <1>1, <1>5, TailOf DEF Popped
  <2>2. ASSUME NEW i \in 1 .. Len(sock'[d]) PROVE sock'[d][i] \notin Kinds
    <3>1. i \in 1 .. (Len(sock[d]) - 1) /\ i + 1 \in 1 .. Len(sock[d])
      BY <2>1, <1>1
    <3> QED
      BY <2>1, <3>1 DEF NoFrames
  <2> QED
    BY <2>1, <2>2 DEF NoFrames
<1> QED
  BY <1>2, <1>3, <1>4, <1>5 DEF Moves, DeviceMove, TickMove

(* The steps that leave cur, run and complete alone. *)
LEMMA QuietKept ==
    ASSUME QuietInv, BaseInv', cur' = cur, run' = run, complete' = complete,
           \A d \in Devices : Rests(d) \/ DeviceMove(d) \/ TickMove(d)
    PROVE  QuietInv'
<1>1. BaseInv /\ Types' /\ \A d \in Devices : Moves(d)
  BY DEF QuietInv, BaseInv, Moves
<1>2. StillInv'
  <2> SUFFICES ASSUME NEW d \in Devices
               PROVE  \E m \in Nat : Frames(d, m)' /\ StillAfter(d, m)'
    BY DEF StillInv
  <2>1. PICK n \in Nat : Frames(d, n) /\ StillAfter(d, n)
    BY DEF QuietInv, StillInv
  <2> QED
    BY <1>1, <2>1, StillMoves
<1>3. SentInv'
  BY <1>1, SentMoves DEF QuietInv, SentInv, Odd
<1>4. CompleteInv'
  <2> SUFFICES ASSUME complete PROVE dev'[cur].pc \in {"drain", "done"} /\ dev'[cur].held = "none" /\ NoFrames(cur)'
    BY DEF CompleteInv, NoFrames
  <2>1. cur \in Devices
    BY <1>1 DEF BaseInv, ServerBounds
  <2>2. dev[cur].pc \in {"drain", "done"} /\ dev[cur].held = "none" /\ NoFrames(cur)
    BY DEF QuietInv, CompleteInv, NoFrames
  <2> SUFFICES ASSUME NEW d \in Devices, d = cur
               PROVE  dev'[d].pc \in {"drain", "done"} /\ dev'[d].held = "none" /\ NoFrames(d)'
    BY <2>1 DEF NoFrames
  <2>3. Moves(d) /\ dev[d].pc \in {"drain", "done"} /\ dev[d].held = "none" /\ NoFrames(d)
    BY <1>1, <2>2
  <2> QED
    BY <1>1, <2>3, FinishedMoves
<1> QED
  BY <1>2, <1>3, <1>4 DEF QuietInv, HangInv

(* The steps of the server that read an item. *)
LEMMA QuietRecv ==
    ASSUME QuietInv, BaseInv', NEW item, Recv(item),
           item \in {"loud", "noise"} => run'.silence_run = 0,
           item \notin {"loud", "noise"} /\ run'.in_speech => run.in_speech,
           item = "quiet" /\ run'.in_speech => run'.silence_run = run.silence_run + 1,
           item \notin Kinds => run' = run,
           run'.in_speech => run'.silence_run < SegHang,
           complete' => complete \/ item = "final"
    PROVE  QuietInv'
<1>1. BaseInv /\ Types /\ Types' /\ cur \in Devices
  BY DEF QuietInv, BaseInv, ServerBounds, Recv
<1>2. /\ Popped(cur) /\ sock[cur][1] = item /\ cur' = cur /\ dev' = dev
      /\ \A e \in Devices : e # cur => Rests(e)
  BY <1>1, RecvMoves
<1>3. \A d \in Devices : Moves(d)
  BY <1>2 DEF Moves
<1>4. StillInv'
  <2> SUFFICES ASSUME NEW d \in Devices
               PROVE  \E m \in Nat : Frames(d, m)' /\ StillAfter(d, m)'
    BY DEF StillInv
  <2>1. PICK n \in Nat : Frames(d, n) /\ StillAfter(d, n)
    BY DEF QuietInv, StillInv
  <2>2. CASE d # cur
    BY <1>1, <1>2, <2>1, <2>2, StillMoves
  <2>3. CASE d = cur
    <3>1. Frames(cur, n) /\ StillAfter(cur, n)
      BY <2>1, <2>3
    <3>2. \E m \in Nat : Frames(cur, m)' /\ StillAfter(cur, m)'
      BY <1>1, <1>2, <3>1, StillRecv
    <3> QED
      BY <1>2, <2>3, <3>2 DEF Frames, StillAfter, Held
  <2> QED
    BY <2>2, <2>3
<1>5. SentInv'
  BY <1>1, <1>3, SentMoves DEF QuietInv, SentInv, Odd
<1>6. CompleteInv'
  <2> SUFFICES ASSUME complete' PROVE dev'[cur].pc \in {"drain", "done"} /\ dev'[cur].held = "none" /\ NoFrames(cur)'
    BY <1>2 DEF CompleteInv, NoFrames
  <2>1. (dev[cur].pc \in {"drain", "done"} /\ dev[cur].held = "none" /\ NoFrames(cur)) \/ item = "final"
    BY DEF QuietInv, CompleteInv, NoFrames
  <2>2. CASE item = "final"
    <3>1. PICK n \in Nat : Frames(cur, n)
      BY <1>1 DEF QuietInv, StillInv
    <3>2. Len(sock[cur]) \in Nat /\ Len(sock[cur]) >= 1 /\ sock[cur][1] \notin Kinds
      BY <1>1, <1>2, <2>2, TailOf DEF Popped, Types, Kinds
    <3>3. n = 0
      <4> SUFFICES ASSUME n >= 1 PROVE FALSE
        OBVIOUS
      <4>1. 1 \in 1 .. n
        OBVIOUS
      <4> QED
        BY <3>1, <3>2, <4>1 DEF Frames
    <3>4. NoFrames(cur)
      BY <3>1, <3>3 DEF Frames, NoFrames
    <3>5. 1 \in 1 .. Len(sock[cur])
      BY <3>2
    <3>6. Odd(cur)
      BY <3>2, <3>5 DEF Odd
    <3>7. dev[cur].held = "none"
      BY <3>6, <1>1 DEF QuietInv, SentInv, Odd
    <3>8. dev[cur].pc \in {"drain", "done"}
      BY <1>1, <3>2, <3>5 DEF BaseInv, DevicesInv, DeviceInv, Types, DeviceRecord
    <3> QED
      BY <1>2, <3>4, <3>7, <3>8, <1>1, <1>3, FinishedMoves DEF NoFrames
  <2>3. CASE dev[cur].pc \in {"drain", "done"} /\ dev[cur].held = "none" /\ NoFrames(cur)
    BY <1>2, <2>3, <1>1, <1>3, FinishedMoves DEF NoFrames
  <2> QED
    BY <2>1, <2>2, <2>3
<1> QED
  BY <1>4, <1>5, <1>6 DEF QuietInv, HangInv

LEMMA QuietStep == QuietInv /\ [Next]_vars => QuietInv'
<1> SUFFICES ASSUME QuietInv, [Next]_vars PROVE QuietInv'
  OBVIOUS
<1>b. BaseInv /\ BaseInv' /\ HeldInv
  BY BaseStep, BaseHeld DEF QuietInv
<1>t. run \in [in_speech : BOOLEAN, silence_run : Nat] /\ run.silence_run \in Nat /\ SegHang \in Nat
  BY <1>b, Constants DEF BaseInv, Types
<1>0. CASE UNCHANGED vars
  BY <1>0, <1>b, QuietKept DEF vars, Rests
<1>1. ASSUME NEW d \in Devices, Connect(d) \/ Vanish(d) \/ Unblock(d) \/ Notice(d) \/ GiveUp(d)
      PROVE  QuietInv'
  <2>1. /\ \A e \in Devices : Rests(e) \/ DeviceMove(e)
        /\ UNCHANGED Server
    BY <1>1, <1>b, DeviceMoves DEF BaseInv
  <2>2. cur' = cur /\ run' = run /\ complete' = complete
    BY <2>1 DEF Server, session
  <2> QED
    BY <1>b, <2>1, <2>2, QuietKept
<1>2. CASE Tick
  <2>1. cur' = cur /\ run' = run /\ complete' = complete
    BY <1>2 DEF Tick
  <2>2. \A d \in Devices : TickMove(d)
    BY <1>2, <1>b, BaseHeld, TickMoves DEF BaseInv
  <2> QED
    BY <1>b, <2>1, <2>2, QuietKept
<1>3. CASE Accept
  <2>1. dev' = dev /\ sock' = sock /\ ~run'.in_speech /\ ~complete'
    BY <1>3 DEF Accept, Network, Deaf
  <2>2. StillInv'
    BY <2>1 DEF QuietInv, StillInv, Frames, StillAfter, Held
  <2>3. SentInv' /\ CompleteInv' /\ HangInv'
    BY <2>1 DEF QuietInv, SentInv, CompleteInv, HangInv
  <2> QED
    BY <1>b, <2>2, <2>3 DEF QuietInv
<1>4. CASE RecvTimedOut \/ SessionTick \/ \E command \in BOOLEAN : Recognised(command)
  <2>1. dev' = dev /\ sock' = sock /\ cur' = cur /\ run' = run /\ complete' = complete
    BY <1>4 DEF RecvTimedOut, SessionTick, Recognised, Network, session
  <2> QED
    BY <1>b, <2>1, QuietKept DEF Rests
<1>5. ASSUME NEW item \in {"loud", "noise"}, RecvSounds(item) PROVE QuietInv'
  <2>1. /\ Recv(item) /\ run'.in_speech /\ run'.silence_run = 0
        /\ complete' = complete /\ item \in Kinds /\ item # "quiet"
    BY <1>5 DEF RecvSounds, Kinds
  <2>2. run'.silence_run < SegHang
    BY <2>1, Constants
  <2> QED
    BY <1>b, <2>1, <2>2, QuietRecv
<1>6. CASE RecvQuiet
  <2>1. Recv("quiet") /\ complete' = complete /\ "quiet" \in Kinds
    BY <1>6 DEF RecvQuiet, Kinds
  <2>2. run'.in_speech => /\ run.in_speech /\ run'.silence_run = run.silence_run + 1
                          /\ run'.silence_run < SegHang
    <3>1. CASE Ends
      BY <1>6, <3>1 DEF RecvQuiet, Deaf
    <3>2. CASE ~Ends /\ run.in_speech
      <4>1. run' = [run EXCEPT !.silence_run = @ + 1]
        BY <1>6, <3>2 DEF RecvQuiet
      <4>2. run'.silence_run = run.silence_run + 1
        BY <4>1, <1>t
      <4> QED
        BY <4>2, <3>2, <1>t DEF Ends
    <3>3. CASE ~Ends /\ ~run.in_speech
      BY <1>6, <3>3 DEF RecvQuiet
    <3> QED
      BY <3>1, <3>2, <3>3
  <2> QED
    BY <1>b, <2>1, <2>2, QuietRecv
<1>7. CASE RecvFinal
  <2>1. Recv("final") /\ run' = run /\ "final" \notin Kinds
    BY <1>7 DEF RecvFinal, Kinds
  <2>2. run'.in_speech => run'.silence_run < SegHang
    BY <2>1 DEF QuietInv, HangInv
  <2> QED
    BY <1>b, <2>1, <2>2, QuietRecv
<1>8. CASE RecvClosed
  <2>1. Recv("FIN") /\ run' = run /\ complete' = complete /\ "FIN" \notin Kinds
    BY <1>8 DEF RecvClosed, Kinds, session
  <2>2. run'.in_speech => run'.silence_run < SegHang
    BY <2>1 DEF QuietInv, HangInv
  <2> QED
    BY <1>b, <2>1, <2>2, QuietRecv
<1> QED
  BY <1>0, <1>1, <1>2, <1>3, <1>4, <1>5, <1>6, <1>7, <1>8 DEF Next, DeviceActs, ServerActs

(* mic_i2s.c:156-170, stt_stub.c:45-55: for every hang of the device that  *)
(* is longer than the recogniser's, and every size of the buffers, when    *)
(* the server has read the final chunk of a device that stopped after its  *)
(* hang of frames that the server, too, heard as quiet, no utterance is    *)
(* open.                                                                   *)
THEOREM SilenceEnds == Spec => []SilenceEndsUtterance
<1>1. QuietInv => (complete /\ StillOf(dev[cur]) >= SegHang => ~run.in_speech)
  <2> SUFFICES ASSUME QuietInv, complete, run.in_speech
               PROVE  ~(StillOf(dev[cur]) >= SegHang)
    OBVIOUS
  <2>1. cur \in Devices
    BY DEF QuietInv, BaseInv, ServerBounds
  <2>2. PICK n \in Nat : Frames(cur, n) /\ StillAfter(cur, n)
    BY <2>1 DEF QuietInv, StillInv
  <2>3. n = 0
    <3> SUFFICES ASSUME n >= 1 PROVE FALSE
      OBVIOUS
    <3>1. n <= Len(sock[cur]) /\ Len(sock[cur]) \in Nat
      BY <2>1, <2>2 DEF Frames, QuietInv, BaseInv, Types
    <3>2. 1 \in 1 .. n /\ 1 \in 1 .. Len(sock[cur])
      BY <3>1
    <3> QED
      BY <2>2, <3>2 DEF Frames, QuietInv, CompleteInv
  <2>4. Held(cur) = 0
    BY DEF QuietInv, CompleteInv, Held, Kinds
  <2>5. StillOf(dev[cur]) <= run.silence_run + 0 + 0
    BY <2>2, <2>3, <2>4 DEF StillAfter
  <2>6. run.silence_run < SegHang /\ run.silence_run \in Nat /\ StillOf(dev[cur]) \in Nat
    BY <2>1, StillNat DEF QuietInv, HangInv, BaseInv, Types
  <2> QED
    BY <2>5, <2>6, Constants
<1>2. Spec => []QuietInv
  BY InitQuiet, QuietStep, PTL DEF Spec
<1>3. ASSUME QuietInv, HangFrames > SegHang, complete, dev[cur].agreed,
             dev[cur].silence_run >= HangFrames
      PROVE  StillOf(dev[cur]) >= SegHang
  <2>1. dev[cur].silence_run \in Nat
    BY <1>3 DEF QuietInv, BaseInv, ServerBounds, Types, DeviceRecord
  <2>2. \/ StillOf(dev[cur]) = dev[cur].silence_run
        \/ StillOf(dev[cur]) = dev[cur].silence_run - 1
    BY <1>3, <2>1, Constants DEF StillOf
  <2> QED
    BY <1>3, <2>1, <2>2, Constants
<1>4. QuietInv /\ TypeOK => SilenceEndsUtterance
  BY <1>1, <1>3 DEF SilenceEndsUtterance
<1> QED
  BY <1>2, <1>4, TypeCorrect, PTL

-----------------------------------------------------------------------------
(* The backlog and the connection being served *)

(* A device is in the backlog once, before it is served and not after. *)
QueueInv ==
    /\ \A i \in 1 .. Len(backlog) :
         /\ backlog[i] \notin early \cup known \cup closed
         /\ dev[backlog[i]].pc # "idle"
         /\ \A j \in 1 .. Len(backlog) : backlog[i] = backlog[j] => i = j
         /\ spc # "accept" => backlog[i] # cur
    /\ spc # "accept" => cur \notin closed /\ dev[cur].pc # "idle"
    /\ \A d \in Devices : dev[d].pc = "idle" => d \notin early \cup known \cup closed
    /\ \A d \in early \cup known :
         (d = cur /\ spc # "accept") \/ d \in closed \/ dev[d].pc = "done"

(* A device that has closed has returned. *)
FinInv == \A d \in Devices : \A i \in 1 .. Len(sock[d]) : sock[d][i] = "FIN" => dev[d].pc = "done"

ServedInv == BaseInv /\ QueueInv /\ FinInv

LEMMA PcMoves ==
    ASSUME NEW d \in Devices, Moves(d)
    PROVE  /\ dev'[d].pc = "idle" => dev[d].pc = "idle"
           /\ dev[d].pc = "done" => dev'[d].pc = "done"
  BY DEF Moves, DeviceMove, TickMove, Rests, Joins, Leaves, GivesUp, Flushes, Captures, Polls, Popped

LEMMA FinMoves ==
    ASSUME BaseInv, NEW d \in Devices, Moves(d),
           \A i \in 1 .. Len(sock[d]) : sock[d][i] = "FIN" => dev[d].pc = "done"
    PROVE  \A i \in 1 .. Len(sock'[d]) : sock'[d][i] = "FIN" => dev'[d].pc = "done"
<1>1. sock[d] \in Seq(Kinds \cup {"final", "FIN"}) /\ Len(sock[d]) \in Nat
  BY DEF BaseInv, DevicesInv, Types
<1>2. dev[d].pc = "done" => dev'[d].pc = "done"
  BY PcMoves
<1>3. CASE sock'[d] = sock[d]
  BY <1>2, <1>3
<1>4. ASSUME NEW item \in Kinds \cup {"final"}, sock'[d] = Append(sock[d], item)
      PROVE  \A i \in 1 .. Len(sock'[d]) : sock'[d][i] = "FIN" => dev'[d].pc = "done"
  <2>1. item \in Kinds \cup {"final", "FIN"} /\ item # "FIN"
    BY DEF Kinds
  <2>2. /\ Len(sock'[d]) = Len(sock[d]) + 1
        /\ \A i \in 1 .. Len(sock[d]) : sock'[d][i] = sock[d][i]
        /\ sock'[d][Len(sock[d]) + 1] = item
    BY <1>1, <1>4, <2>1, AppendOf
  <2>3. \A i \in 1 .. Len(sock'[d]) : i \in 1 .. Len(sock[d]) \/ i = Len(sock[d]) + 1
    BY <1>1, <2>2
  <2> QED
    BY <1>2, <2>1, <2>2, <2>3
<1>5. CASE Popped(d)
  <2>1. /\ Len(sock'[d]) = Len(sock[d]) - 1
        /\ \A i \in 1 .. (Len(sock[d]) - 1) : sock'[d][i] = sock[d][i + 1]
    BY <1>1, <1>5, TailOf DEF Popped
  <2>2. \A i \in 1 .. Len(sock'[d]) : i \in 1 .. (Len(sock[d]) - 1) /\ i + 1 \in 1 .. Len(sock[d])
    BY <1>1, <2>1
  <2> QED
    BY <1>2, <2>1, <2>2
<1>6. CASE Rests(d) \/ Joins(d) \/ Leaves(d) \/ Polls(d)
  BY <1>3, <1>6 DEF Rests, Joins, Leaves, Polls
<1>7. CASE GivesUp(d)
  BY <1>7 DEF GivesUp
<1>8. CASE Flushes(d)
  BY <1>4, <1>8 DEF Flushes
<1>9. ASSUME NEW item \in Kinds \cup {"final"}, Captures(d, item)
      PROVE  \A i \in 1 .. Len(sock'[d]) : sock'[d][i] = "FIN" => dev'[d].pc = "done"
  BY <1>3, <1>4, <1>9 DEF Captures
<1> QED
  BY <1>5, <1>6, <1>7, <1>8, <1>9 DEF Moves, DeviceMove, TickMove

LEMMA QueueKept ==
    ASSUME ServedInv, UNCHANGED <<backlog, cur, closed, early>>,
           spc' = "accept" <=> spc = "accept",
           known' = known \/ (spc # "accept" /\ known' = known \cup {cur}),
           \A d \in Devices : Moves(d)
    PROVE  QueueInv'
<1>1. /\ \A d \in Devices : dev'[d].pc = "idle" => dev[d].pc = "idle"
      /\ \A d \in Devices : dev[d].pc = "done" => dev'[d].pc = "done"
  BY PcMoves
<1>2. /\ \A i \in 1 .. Len(backlog) : backlog[i] \in Devices
      /\ spc # "accept" => cur \in Devices
      /\ early \subseteq Devices /\ known \subseteq Devices
  BY DEF ServedInv, BaseInv, Types, ServerBounds
<1>3. ASSUME NEW i \in 1 .. Len(backlog)
      PROVE  /\ backlog[i] \notin early \cup known' \cup closed
             /\ dev'[backlog[i]].pc # "idle"
             /\ \A j \in 1 .. Len(backlog) : backlog[i] = backlog[j] => i = j
             /\ spc # "accept" => backlog[i] # cur
  BY <1>1, <1>2, <1>3 DEF ServedInv, QueueInv
<1>4. spc # "accept" => cur \notin closed /\ dev'[cur].pc # "idle"
  BY <1>1, <1>2 DEF ServedInv, QueueInv
<1>5. ASSUME NEW d \in Devices, dev'[d].pc = "idle"
      PROVE  d \notin early \cup known' \cup closed
  BY <1>1, <1>2, <1>4, <1>5 DEF ServedInv, QueueInv
<1>6. ASSUME NEW d \in early \cup known'
      PROVE  (d = cur /\ spc # "accept") \/ d \in closed \/ dev'[d].pc = "done"
  BY <1>1, <1>2, <1>6 DEF ServedInv, QueueInv
<1> QED
  BY <1>3, <1>4, <1>5, <1>6 DEF QueueInv

LEMMA QueueStep ==
    ASSUME ServedInv, [Next]_vars
    PROVE  QueueInv'
<1>b. BaseInv /\ HeldInv /\ \A d \in Devices : Moves(d)
  BY BaseHeld, Moving DEF ServedInv
<1>p. /\ \A d \in Devices : dev'[d].pc = "idle" => dev[d].pc = "idle"
      /\ \A d \in Devices : dev[d].pc = "done" => dev'[d].pc = "done"
  BY <1>b, PcMoves
<1>s. /\ \A i \in 1 .. Len(backlog) : backlog[i] \in Devices
      /\ spc # "accept" => cur \in Devices
      /\ early \subseteq Devices /\ known \subseteq Devices
      /\ backlog \in Seq(Devices) /\ Len(backlog) \in Nat
  BY DEF ServedInv, BaseInv, Types, ServerBounds
<1>0. CASE UNCHANGED vars
  BY <1>0, <1>b, QueueKept DEF vars
<1>1. ASSUME NEW d \in Devices, Connect(d) \/ Vanish(d) \/ Unblock(d) \/ Notice(d) \/ GiveUp(d)
      PROVE  QueueInv'
  <2>1. /\ UNCHANGED Server
        /\ \/ backlog' = backlog
           \/ backlog' = Append(backlog, d) /\ Joins(d)
    BY <1>1, <1>b, DeviceMoves DEF BaseInv
  <2>2. UNCHANGED <<closed, cur, spc, early, known>>
    BY <2>1 DEF Server
  <2>3. CASE backlog' = backlog
    BY <1>b, <2>2, <2>3, QueueKept
  <2>4. CASE backlog' = Append(backlog, d) /\ Joins(d)
    <3>1. /\ Len(backlog') = Len(backlog) + 1
          /\ \A i \in 1 .. Len(backlog) : backlog'[i] = backlog[i]
          /\ backlog'[Len(backlog) + 1] = d
      BY <1>s, <2>4, AppendOf
    <3>2. /\ d \notin early \cup known \cup closed /\ dev'[d].pc # "idle"
          /\ \A i \in 1 .. Len(backlog) : backlog[i] # d
          /\ spc # "accept" => cur # d
      BY <2>4 DEF Joins, ServedInv, QueueInv
    <3>3. \A i \in 1 .. Len(backlog') : i \in 1 .. Len(backlog) \/ i = Len(backlog) + 1
      BY <3>1, <1>s
    <3>4. ASSUME NEW i \in 1 .. Len(backlog')
          PROVE  /\ backlog'[i] \notin early \cup known \cup closed
                 /\ dev'[backlog'[i]].pc # "idle"
                 /\ spc # "accept" => backlog'[i] # cur
      BY <1>p, <1>s, <3>1, <3>2, <3>3, <3>4 DEF ServedInv, QueueInv
    <3>5. ASSUME NEW i \in 1 .. Len(backlog'), NEW j \in 1 .. Len(backlog'), backlog'[i] = backlog'[j]
          PROVE  i = j
      BY <3>1, <3>2, <3>3, <3>5 DEF ServedInv, QueueInv
    <3>6. /\ spc # "accept" => cur \notin closed /\ dev'[cur].pc # "idle"
          /\ \A e \in Devices : dev'[e].pc = "idle" => e \notin early \cup known \cup closed
          /\ \A e \in early \cup known :
                (e = cur /\ spc # "accept") \/ e \in closed \/ dev'[e].pc = "done"
      BY <1>p, <1>s DEF ServedInv, QueueInv
    <3> QED
      BY <2>2, <3>4, <3>5, <3>6 DEF QueueInv
  <2> QED
    BY <2>1, <2>3, <2>4
<1>2. CASE Tick
  BY <1>2, <1>b, QueueKept DEF Tick
<1>3. CASE Accept
  <2>1. /\ spc = "accept" /\ backlog # <<>> /\ cur' = Head(backlog) /\ backlog' = Tail(backlog)
        /\ spc' = "recv" /\ dev' = dev /\ closed' = closed /\ known' = known
        /\ early' = early \/ early' = early \cup {cur'}
    BY <1>3 DEF Accept, Network
  <2>2. /\ cur' = backlog[1] /\ Len(backlog) >= 1 /\ Len(backlog') = Len(backlog) - 1
        /\ \A i \in 1 .. (Len(backlog) - 1) : backlog'[i] = backlog[i + 1]
    BY <2>1, <1>s, TailOf
  <2>3. /\ \A i \in 1 .. Len(backlog') : i \in 1 .. (Len(backlog) - 1) /\ i + 1 \in 1 .. Len(backlog)
        /\ 1 \in 1 .. Len(backlog) /\ \A i \in 1 .. Len(backlog') : i + 1 # 1
        /\ \A i, j \in 1 .. Len(backlog') : i + 1 = j + 1 => i = j
    BY <2>2, <1>s
  <2>4. cur' \in Devices /\ cur' \notin early \cup known \cup closed /\ dev[cur'].pc # "idle"
    BY <2>2, <2>3, <1>s DEF ServedInv, QueueInv
  <2>5. ASSUME NEW i \in 1 .. Len(backlog')
        PROVE  /\ backlog'[i] \notin early' \cup known \cup closed
               /\ dev[backlog'[i]].pc # "idle"
               /\ backlog'[i] # cur'
    <3>1. backlog'[i] = backlog[i + 1] /\ i + 1 \in 1 .. Len(backlog) /\ i + 1 # 1
      BY <2>2, <2>3
    <3>2. backlog[i + 1] # backlog[1]
      BY <3>1, <2>3 DEF ServedInv, QueueInv
    <3> QED
      BY <3>1, <3>2, <2>1, <2>2 DEF ServedInv, QueueInv
  <2>6. ASSUME NEW i \in 1 .. Len(backlog'), NEW j \in 1 .. Len(backlog'), backlog'[i] = backlog'[j]
        PROVE  i = j
    <3>1. /\ backlog'[i] = backlog[i + 1] /\ i + 1 \in 1 .. Len(backlog)
          /\ backlog'[j] = backlog[j + 1] /\ j + 1 \in 1 .. Len(backlog)
      BY <2>2, <2>3
    <3>2. i + 1 = j + 1
      BY <3>1, <2>6 DEF ServedInv, QueueInv
    <3> QED
      BY <3>2, <2>3
  <2>7. \A d \in Devices : dev[d].pc = "idle" => d \notin early' \cup known \cup closed
    BY <2>1, <2>4 DEF ServedInv, QueueInv
  <2>8. \A d \in early' \cup known : d = cur' \/ d \in closed \/ dev[d].pc = "done"
    BY <2>1 DEF ServedInv, QueueInv
  <2> QED
    BY <2>1, <2>4, <2>5, <2>6, <2>7, <2>8 DEF QueueInv
<1>4. CASE RecvTimedOut \/ \E command \in BOOLEAN : Recognised(command)
  <2>1. /\ UNCHANGED <<backlog, cur, closed, early>>
        /\ spc # "accept" /\ spc' # "accept"
        /\ known' = known \/ known' = known \cup {cur}
    BY <1>4 DEF RecvTimedOut, Recognised
  <2> QED
    BY <2>1, <1>b, QueueKept
<1>5. ASSUME NEW item, Recv(item), spc' # "accept" PROVE QueueInv'
  <2>1. UNCHANGED <<backlog, cur, closed, early, known>> /\ spc # "accept"
    BY <1>5 DEF Recv
  <2> QED
    BY <2>1, <1>5, <1>b, QueueKept
<1>6. CASE RecvQuiet \/ RecvFinal \/ \E item \in {"loud", "noise"} : RecvSounds(item)
  BY <1>5, <1>6 DEF RecvQuiet, RecvFinal, RecvSounds
<1>7. CASE RecvClosed
  <2>1. /\ UNCHANGED <<backlog, cur, closed, early, known, dev>> /\ spc = "recv" /\ spc' = "accept"
        /\ Recv("FIN")
    BY <1>7 DEF RecvClosed, Recv, Network
  <2>2. cur \in Devices
    BY <2>1, <1>s
  <2>3. sock[cur][1] = "FIN" /\ sock[cur] # <<>>
    BY <2>1, <2>2, <1>b, RecvMoves DEF Popped, BaseInv
  <2>4. Len(sock[cur]) >= 1 /\ Len(sock[cur]) \in Nat
    BY <2>2, <2>3, <1>b, TailOf DEF BaseInv, Types
  <2>5. 1 \in 1 .. Len(sock[cur])
    BY <2>4
  <2>6. dev[cur].pc = "done"
    BY <2>2, <2>3, <2>5 DEF ServedInv, FinInv
  <2> QED
    BY <2>1, <2>6 DEF ServedInv, QueueInv
<1>8. CASE SessionTick
  <2>1. /\ spc = "tick" /\ UNCHANGED <<dev, backlog, cur, early, known>>
        /\ \/ spc' = "accept" /\ closed' = closed \cup {cur}
           \/ spc' = "recv" /\ closed' = closed
    BY <1>8 DEF SessionTick, Network
  <2>2. CASE spc' = "recv" /\ closed' = closed
    BY <2>1, <2>2, <1>b, QueueKept
  <2>3. CASE spc' = "accept" /\ closed' = closed \cup {cur}
    BY <2>1, <2>3, <1>s DEF ServedInv, QueueInv
  <2> QED
    BY <2>1, <2>2, <2>3
<1> QED
  BY <1>0, <1>1, <1>2, <1>3, <1>4, <1>6, <1>7, <1>8 DEF Next, DeviceActs, ServerActs

LEMMA InitServed == Init => ServedInv
<1> SUFFICES ASSUME Init PROVE ServedInv
  OBVIOUS
<1>1. /\ BaseInv /\ spc = "accept" /\ early = {} /\ known = {} /\ closed = {}
      /\ Len(backlog) = 0 /\ \A d \in Devices : Len(sock[d]) = 0
  BY InitBase DEF Init
<1>2. QueueInv
  BY <1>1 DEF QueueInv
<1>3. FinInv
  BY <1>1 DEF FinInv
<1> QED
  BY <1>1, <1>2, <1>3 DEF ServedInv

LEMMA ServedStep == ServedInv /\ [Next]_vars => ServedInv'
<1> SUFFICES ASSUME ServedInv, [Next]_vars PROVE ServedInv'
  OBVIOUS
<1>1. BaseInv /\ BaseInv' /\ \A d \in Devices : Moves(d)
  BY BaseStep, Moving DEF ServedInv
<1>2. FinInv'
  BY <1>1, FinMoves DEF ServedInv, FinInv
<1> QED
  BY <1>1, <1>2, QueueStep DEF ServedInv

-----------------------------------------------------------------------------
(* Speech that waits to be read *)

CleanInv ==
    \A d \in Devices : dev[d].clean =>
        dev[d].held # "noise" /\ \A i \in 1 .. Len(sock[d]) : sock[d][i] # "noise"

(* Time has passed in this recv(). *)
Loose == spc = "recv" /\ waited > 0

(* Then the buffers were empty, and hold at most what came with the tick. *)
LooseInv ==
    Loose =>
      /\ dev[cur].pc # "blocked"
      /\ sock[cur] = <<>> => dev[cur].pc # "stream"
      /\ \A i \in 2 .. Len(sock[cur]) : sock[cur][i] \notin Kinds

Bound == SegHang + Recog + RecvTimeout

LoudWaits ==
    \/ \E i \in 1 .. Len(sock[cur]) : sock[cur][i] = "loud"
    \/ dev[cur].pc = "blocked" /\ dev[cur].held = "loud"

FramesCome ==
    \/ dev[cur].pc \in {"stream", "blocked"}
    \/ \E i \in 1 .. Len(sock[cur]) : sock[cur][i] \in Kinds

SilentInv == spc = "busy" => ~run.in_speech

BusyTalk == spc = "busy" => speechAge + left <= Bound

LoudTalk == LoudWaits /\ ~Loose => speechAge <= Bound

RunTalk ==
    run.in_speech /\ FramesCome =>
        speechAge <= RecvTimeout + run.silence_run + (IF Loose THEN 1 ELSE 0)

(* The last speech is as old as the silence counted since, and a           *)
(* recognition, and the wait before it was read; unless time has passed    *)
(* with nothing to read.                                                   *)
TalkInv == spc # "accept" /\ dev[cur].clean => BusyTalk /\ LoudTalk /\ RunTalk

SpeechInv ==
    /\ QuietInv /\ ServedInv
    /\ CleanInv /\ LooseInv /\ SilentInv /\ TalkInv

LEMMA InitSpeech == Init => SpeechInv
<1> SUFFICES ASSUME Init PROVE SpeechInv
  OBVIOUS
<1>1. QuietInv /\ ServedInv
  BY InitQuiet, InitServed
<1>2. spc = "accept" /\ \A d \in Devices : Len(sock[d]) = 0 /\ dev[d].held = "none"
  BY DEF Init, Fresh
<1>3. CleanInv
  BY <1>2 DEF CleanInv
<1> QED
  BY <1>1, <1>2, <1>3 DEF SpeechInv, LooseInv, Loose, SilentInv, TalkInv

LEMMA CleanMoves ==
    ASSUME BaseInv, NEW d \in Devices, Moves(d),
           dev[d].clean => dev[d].held # "noise" /\ \A i \in 1 .. Len(sock[d]) : sock[d][i] # "noise"
    PROVE  /\ dev'[d].clean => dev[d].clean
           /\ dev'[d].clean =>
                dev'[d].held # "noise" /\ \A i \in 1 .. Len(sock'[d]) : sock'[d][i] # "noise"
<1>1. sock[d] \in Seq(Kinds \cup {"final", "FIN"}) /\ Len(sock[d]) \in Nat
  BY DEF BaseInv, DevicesInv, Types
<1>2. ASSUME NEW item \in Kinds \cup {"final", "FIN"}, item # "noise",
             sock'[d] = Append(sock[d], item),
             \A i \in 1 .. Len(sock[d]) : sock[d][i] # "noise"
      PROVE  \A i \in 1 .. Len(sock'[d]) : sock'[d][i] # "noise"
  <2>1. /\ Len(sock'[d]) = Len(sock[d]) + 1
        /\ \A i \in 1 .. Len(sock[d]) : sock'[d][i] = sock[d][i]
        /\ sock'[d][Len(sock[d]) + 1] = item
    BY <1>1, <1>2, AppendOf
  <2>2. \A i \in 1 .. Len(sock'[d]) : i \in 1 .. Len(sock[d]) \/ i = Len(sock[d]) + 1
    BY <1>1, <2>1
  <2> QED
    BY <1>2, <2>1, <2>2
<1>3. CASE Rests(d) \/ Joins(d) \/ Leaves(d) \/ Polls(d)
  BY <1>3 DEF Rests, Joins, Leaves, Polls, Carried, Listened
<1>4. CASE GivesUp(d)
  <2>1. /\ dev'[d].clean = dev[d].clean /\ dev'[d].held = dev[d].held
        /\ sock'[d] = Append(sock[d], "FIN")
    BY <1>4 DEF GivesUp, Carried, Listened
  <2> QED
    BY <1>2, <2>1
<1>5. CASE Flushes(d)
  <2>1. /\ dev'[d].clean = dev[d].clean /\ dev'[d].held = "none"
        /\ sock'[d] = Append(sock[d], dev[d].held) /\ dev[d].held \in Kinds \cup {"final"}
    BY <1>5 DEF Flushes, Listened
  <2> QED
    BY <1>2, <2>1
<1>6. ASSUME NEW item \in Kinds \cup {"final"}, Captures(d, item)
      PROVE  /\ dev'[d].clean => dev[d].clean
             /\ dev'[d].clean =>
                  dev'[d].held # "noise" /\ \A i \in 1 .. Len(sock'[d]) : sock'[d][i] # "noise"
  <2>1. dev'[d].clean => dev[d].clean /\ item # "noise"
    BY <1>6 DEF Captures
  <2>2. CASE Room(d)
    <3>1. dev'[d].held = "none" /\ sock'[d] = Append(sock[d], item)
      BY <1>6, <2>2 DEF Captures
    <3> QED
      BY <1>2, <2>1, <3>1
  <2>3. CASE ~Room(d)
    <3>1. dev'[d].held = item /\ sock'[d] = sock[d]
      BY <1>6, <2>3 DEF Captures
    <3> QED
      BY <2>1, <3>1
  <2> QED
    BY <2>2, <2>3
<1>7. CASE Popped(d)
  <2>1. /\ Len(sock'[d]) = Len(sock[d]) - 1
        /\ \A i \in 1 .. (Len(sock[d]) - 1) : sock'[d][i] = sock[d][i + 1]
        /\ dev'[d] = dev[d]
    BY <1>1, <1>7, TailOf DEF Popped
  <2>2. \A i \in 1 .. Len(sock'[d]) : i \in 1 .. (Len(sock[d]) - 1) /\ i + 1 \in 1 .. Len(sock[d])
    BY <1>1, <2>1
  <2> QED
    BY <2>1, <2>2
<1> QED
  BY <1>3, <1>4, <1>5, <1>6, <1>7 DEF Moves, DeviceMove, TickMove

(* What a device does by itself between two ticks brings no new frame. *)
LEMMA WaitingKept ==
    ASSUME ServedInv, spc # "accept", cur' = cur, Rests(cur) \/ DeviceMove(cur)
    PROVE  /\ LoudWaits' => LoudWaits
           /\ FramesCome' => FramesCome
           /\ dev'[cur].clean = dev[cur].clean
<1>1. cur \in Devices /\ sock[cur] \in Seq(Kinds \cup {"final", "FIN"}) /\ Len(sock[cur]) \in Nat
  BY DEF ServedInv, BaseInv, Types, ServerBounds
<1>2. ~Joins(cur)
  BY DEF Joins, ServedInv, QueueInv
<1>3. CASE Rests(cur) \/ Leaves(cur)
  BY <1>3 DEF Rests, Leaves, Carried, Listened, LoudWaits, FramesCome
<1>4. ASSUME NEW item \in Kinds \cup {"final", "FIN"}, sock'[cur] = Append(sock[cur], item)
      PROVE  \A i \in 1 .. Len(sock'[cur]) :
                \/ i \in 1 .. Len(sock[cur]) /\ sock'[cur][i] = sock[cur][i]
                \/ sock'[cur][i] = item
  <2>1. /\ Len(sock'[cur]) = Len(sock[cur]) + 1
        /\ \A i \in 1 .. Len(sock[cur]) : sock'[cur][i] = sock[cur][i]
        /\ sock'[cur][Len(sock[cur]) + 1] = item
    BY <1>1, <1>4, AppendOf
  <2>2. \A i \in 1 .. Len(sock'[cur]) : i \in 1 .. Len(sock[cur]) \/ i = Len(sock[cur]) + 1
    BY <1>1, <2>1
  <2> QED
    BY <2>1, <2>2
<1>5. CASE GivesUp(cur)
  <2>1. /\ dev'[cur].pc = "done" /\ dev'[cur].clean = dev[cur].clean
        /\ sock'[cur] = Append(sock[cur], "FIN") /\ "FIN" \notin Kinds
    BY <1>5 DEF GivesUp, Carried, Listened, Kinds
  <2>2. \A i \in 1 .. Len(sock'[cur]) :
                \/ i \in 1 .. Len(sock[cur]) /\ sock'[cur][i] = sock[cur][i]
                \/ sock'[cur][i] = "FIN"
    BY <1>4, <2>1
  <2> QED
    BY <2>1, <2>2 DEF LoudWaits, FramesCome
<1>6. CASE Flushes(cur)
  <2>1. /\ dev[cur].pc = "blocked" /\ dev'[cur].pc # "blocked" /\ dev'[cur].clean = dev[cur].clean
        /\ sock'[cur] = Append(sock[cur], dev[cur].held) /\ dev[cur].held \in Kinds \cup {"final"}
    BY <1>6 DEF Flushes, Listened
  <2>2. \A i \in 1 .. Len(sock'[cur]) :
                \/ i \in 1 .. Len(sock[cur]) /\ sock'[cur][i] = sock[cur][i]
                \/ sock'[cur][i] = dev[cur].held
    BY <1>4, <2>1
  <2> QED
    BY <2>1, <2>2 DEF LoudWaits, FramesCome
<1> QED
  BY <1>2, <1>3, <1>5, <1>6 DEF DeviceMove

(* A read takes one item off, and nothing that waits is new. *)
LEMMA WaitingRead ==
    ASSUME SpeechInv, NEW item, Recv(item)
    PROVE  /\ cur \in Devices /\ sock[cur] # <<>> /\ sock[cur][1] = item /\ 1 \in 1 .. Len(sock[cur])
           /\ cur' = cur /\ waited' = waited /\ dev' = dev /\ spc = "recv"
           /\ LoudWaits' => LoudWaits /\ ~Loose
<1>1. cur \in Devices /\ Types
  BY DEF SpeechInv, ServedInv, BaseInv, ServerBounds, Recv
<1>2. /\ Popped(cur) /\ sock[cur][1] = item /\ dev' = dev /\ spc = "recv"
      /\ cur' = cur /\ waited' = waited
  BY <1>1, RecvMoves
<1>3. /\ Len(sock'[cur]) = Len(sock[cur]) - 1 /\ Len(sock[cur]) >= 1 /\ Len(sock[cur]) \in Nat
      /\ \A i \in 1 .. (Len(sock[cur]) - 1) : sock'[cur][i] = sock[cur][i + 1]
  BY <1>1, <1>2, TailOf DEF Popped, Types
<1>4. /\ \A i \in 1 .. Len(sock'[cur]) : /\ i \in 1 .. (Len(sock[cur]) - 1)
                                         /\ i + 1 \in 1 .. Len(sock[cur]) /\ i + 1 \in 2 .. Len(sock[cur])
      /\ 1 \in 1 .. Len(sock[cur])
  BY <1>3
<1>5. ASSUME LoudWaits' PROVE LoudWaits /\ ~Loose
  <2>1. CASE dev[cur].pc = "blocked" /\ dev[cur].held = "loud"
    BY <2>1 DEF LoudWaits, SpeechInv, LooseInv
  <2>2. CASE ~(dev[cur].pc = "blocked" /\ dev[cur].held = "loud")
    <3>1. PICK i \in 1 .. Len(sock'[cur]) : sock'[cur][i] = "loud"
      BY <1>2, <1>5, <2>2 DEF LoudWaits
    <3>2. sock[cur][i + 1] = "loud" /\ i + 1 \in 1 .. Len(sock[cur]) /\ i + 1 \in 2 .. Len(sock[cur])
      BY <1>3, <1>4, <3>1
    <3> QED
      BY <3>2 DEF LoudWaits, SpeechInv, LooseInv, Kinds
  <2> QED
    BY <2>1, <2>2
<1> QED
  BY <1>1, <1>2, <1>4, <1>5 DEF Popped

LEMMA SpeechTypes ==
    ASSUME SpeechInv
    PROVE  /\ speechAge \in Nat /\ waited \in Nat /\ left \in Nat /\ run.silence_run \in Nat
           /\ waited <= RecvTimeout /\ left <= Recog
           /\ SegHang \in Nat /\ Recog \in Nat /\ RecvTimeout \in Nat /\ RecvTimeout > 0 /\ SegHang > 0
           /\ Bound = SegHang + Recog + RecvTimeout
           /\ run.in_speech => run.silence_run < SegHang
           /\ spc # "accept" => cur \in Devices
  BY Constants, RecogLongest
     DEF SpeechInv, ServedInv, BaseInv, Types, ServerBounds, QuietInv, HangInv, Bound

LEMMA LooseStep ==
    ASSUME SpeechInv, [Next]_vars
    PROVE  LooseInv'
<1>b. BaseInv /\ HeldInv
  BY BaseHeld DEF SpeechInv, ServedInv
<1>s. spc # "accept" => cur \in Devices
  BY SpeechTypes
<1>0. CASE UNCHANGED vars
  BY <1>0 DEF vars, SpeechInv, LooseInv, Loose
<1>1. ASSUME NEW d \in Devices, Connect(d) \/ Vanish(d) \/ Unblock(d) \/ Notice(d) \/ GiveUp(d)
      PROVE  LooseInv'
  <2>1. UNCHANGED Server /\ DeviceMove(d) /\ \A e \in Devices : e # d => Rests(e)
    BY <1>1, <1>b, DeviceMoves DEF BaseInv
  <2>2. cur' = cur /\ spc' = spc /\ waited' = waited
    BY <2>1 DEF Server
  <2> SUFFICES ASSUME Loose PROVE /\ dev'[cur].pc # "blocked"
                                  /\ sock'[cur] = <<>> => dev'[cur].pc # "stream"
                                  /\ \A i \in 2 .. Len(sock'[cur]) : sock'[cur][i] \notin Kinds
    BY <2>2 DEF LooseInv, Loose
  <2>3. /\ cur \in Devices /\ dev[cur].pc # "blocked" /\ dev[cur].pc # "idle"
        /\ sock[cur] = <<>> => dev[cur].pc # "stream"
        /\ \A i \in 2 .. Len(sock[cur]) : sock[cur][i] \notin Kinds
    BY <1>s DEF Loose, SpeechInv, LooseInv, ServedInv, QueueInv
  <2>4. CASE Rests(cur)
    BY <2>3, <2>4 DEF Rests
  <2>5. CASE Joins(cur) \/ Leaves(cur) \/ Flushes(cur)
    BY <2>3, <2>5 DEF Joins, Leaves, Flushes
  <2>6. CASE GivesUp(cur)
    <3>1. dev'[cur].pc = "done" /\ sock'[cur] = Append(sock[cur], "FIN") /\ "FIN" \notin Kinds
      BY <2>6 DEF GivesUp, Kinds
    <3>2. /\ Len(sock'[cur]) = Len(sock[cur]) + 1 /\ Len(sock[cur]) \in Nat
          /\ \A i \in 1 .. Len(sock[cur]) : sock'[cur][i] = sock[cur][i]
          /\ sock'[cur][Len(sock[cur]) + 1] = "FIN"
      BY <2>3, <3>1, <1>b, AppendOf DEF BaseInv, Types
    <3>3. \A i \in 2 .. Len(sock'[cur]) :
              (i \in 2 .. Len(sock[cur]) /\ i \in 1 .. Len(sock[cur])) \/ i = Len(sock[cur]) + 1
      BY <3>2
    <3> QED
      BY <2>3, <3>1, <3>2, <3>3
  <2> QED
    BY <2>1, <2>3, <2>4, <2>5, <2>6 DEF DeviceMove
<1>2. CASE Tick
  <2>1. cur' = cur /\ spc' = spc /\ ServerWaits /\ \A d \in Devices : DeviceWaits(d)
    BY <1>2 DEF Tick
  <2>2. \A d \in Devices : TickMove(d)
    BY <1>2, <1>b, BaseHeld, TickMoves DEF BaseInv
  <2> SUFFICES ASSUME spc = "recv"
               PROVE  /\ dev'[cur].pc # "blocked"
                      /\ sock'[cur] = <<>> => dev'[cur].pc # "stream"
                      /\ \A i \in 2 .. Len(sock'[cur]) : sock'[cur][i] \notin Kinds
    BY <2>1 DEF LooseInv, Loose
  <2>3. cur \in Devices /\ sock[cur] = <<>> /\ Len(sock[cur]) = 0 /\ Room(cur)
    BY <1>s, <2>1, Constants DEF ServerWaits, Room
  <2>4. dev[cur].pc # "blocked"
    BY <2>1, <2>3 DEF DeviceWaits
  <2>5. CASE Rests(cur) /\ dev[cur].pc \notin {"stream", "drain"}
    BY <2>3, <2>4, <2>5 DEF Rests
  <2>6. CASE Polls(cur)
    BY <2>3, <2>6 DEF Polls
  <2>7. ASSUME NEW item \in Kinds \cup {"final"}, Captures(cur, item)
        PROVE  /\ dev'[cur].pc # "blocked"
               /\ sock'[cur] = <<>> => dev'[cur].pc # "stream"
               /\ \A i \in 2 .. Len(sock'[cur]) : sock'[cur][i] \notin Kinds
    <3>1. dev'[cur].pc \in {"drain", "stream"} /\ sock'[cur] = Append(sock[cur], item)
      BY <2>3, <2>7 DEF Captures
    <3>2. Len(sock'[cur]) = 1
      <4>1. sock[cur] \in Seq(Kinds \cup {"final", "FIN"}) /\ item \in Kinds \cup {"final", "FIN"}
        BY <2>3, <1>b DEF BaseInv, Types
      <4>2. Len(sock'[cur]) = Len(sock[cur]) + 1
        BY <3>1, <4>1, AppendOf
      <4> QED
        BY <4>2, <2>3
    <3>3. sock'[cur] # <<>>
      BY <3>2
    <3> QED
      BY <3>1, <3>2, <3>3
  <2> QED
    BY <2>2, <2>3, <2>5, <2>6, <2>7 DEF TickMove
<1>3. CASE ServerActs
  <2>1. ~Loose'
    BY <1>3 DEF ServerActs, Accept, RecvSounds, RecvQuiet, RecvFinal, RecvClosed, Recognised,
                RecvTimedOut, SessionTick, Loose
  <2> QED
    BY <2>1 DEF LooseInv
<1> QED
  BY <1>0, <1>1, <1>2, <1>3 DEF Next, DeviceActs

(* A tick: in recv() only a streaming device can bring a frame, and one    *)
(* frame; in the recogniser the time was set aside.                        *)
LEMMA TalkTick ==
    ASSUME SpeechInv, Tick
    PROVE  TalkInv'
<1>b. BaseInv
  BY DEF SpeechInv, ServedInv
<1>1. /\ cur' = cur /\ spc' = spc /\ run' = run
      /\ ServerWaits /\ \A d \in Devices : DeviceWaits(d)
      /\ \A d \in Devices : TickMove(d) /\ Moves(d)
  BY <1>b, BaseHeld, TickMoves DEF Tick, Moves, BaseInv
<1> SUFFICES ASSUME spc # "accept", dev'[cur].clean PROVE (BusyTalk /\ LoudTalk /\ RunTalk)'
  BY <1>1 DEF TalkInv
<1>t. /\ speechAge \in Nat /\ waited \in Nat /\ left \in Nat /\ run.silence_run \in Nat
      /\ SegHang \in Nat /\ Recog \in Nat /\ RecvTimeout \in Nat
      /\ Bound = SegHang + Recog + RecvTimeout /\ cur \in Devices
  BY SpeechTypes
<1>2. dev[cur].clean
  BY <1>b, <1>1, <1>t, CleanMoves DEF SpeechInv, CleanInv
<1>3. BusyTalk /\ LoudTalk /\ RunTalk
  BY <1>2 DEF SpeechInv, TalkInv
<1>4. speechAge' \in Nat /\ speechAge' <= speechAge + 1
  BY <1>t, OlderNat DEF Tick
<1>5. CASE spc = "busy"
  <2>1. left' = left - 1 /\ left > 0 /\ ~run.in_speech
    BY <1>1, <1>5 DEF Tick, ServerWaits, SpeechInv, SilentInv
  <2>2. speechAge + left <= Bound
    BY <1>3, <1>5 DEF BusyTalk
  <2>3. speechAge' + left' <= Bound /\ speechAge' <= Bound
    <3> DEFINE s2 == speechAge'
               l2 == left'
    <3>1. s2 \in Nat /\ s2 <= speechAge + 1 /\ l2 = left - 1
      BY <1>4, <2>1
    <3>2. Bound \in Nat
      BY <1>t
    <3> HIDE DEF s2, l2, Bound
    <3>3. s2 + l2 <= Bound /\ s2 <= Bound
      BY <1>t, <2>1, <2>2, <3>1, <3>2
    <3> QED
      BY <3>3 DEF s2, l2
  <2> QED
    BY <1>1, <2>1, <2>3 DEF BusyTalk, LoudTalk, RunTalk, Bound
<1>6. CASE spc = "recv"
  <2>1. sock[cur] = <<>> /\ Len(sock[cur]) = 0 /\ waited' = waited + 1
    BY <1>1, <1>6 DEF Tick, ServerWaits
  <2>2. Loose'
    BY <1>1, <1>6, <1>t, <2>1 DEF Loose
  <2>3. ASSUME run.in_speech, FramesCome'
        PROVE  speechAge' <= RecvTimeout + run.silence_run + 1
    <3>1. dev[cur].pc \in {"stream", "blocked"}
      <4> SUFFICES ASSUME dev[cur].pc \notin {"stream", "blocked"} PROVE FALSE
        OBVIOUS
      <4>1. sock'[cur] = sock[cur] /\ dev'[cur].pc = dev[cur].pc
        BY <1>1, <1>t DEF TickMove, Rests, Polls, Captures
      <4> QED
        BY <1>1, <2>1, <2>3, <4>1 DEF FramesCome
    <3>2. ~Loose
      BY <2>1, <3>1 DEF SpeechInv, LooseInv
    <3>3. FramesCome
      BY <3>1 DEF FramesCome
    <3>4. speechAge <= RecvTimeout + run.silence_run + 0
      BY <1>3, <2>3, <3>2, <3>3 DEF RunTalk
    <3> QED
      BY <1>t, <1>4, <3>4
  <2> QED
    BY <1>1, <1>6, <2>2, <2>3 DEF BusyTalk, LoudTalk, RunTalk
<1> QED
  BY <1>1, <1>5, <1>6 DEF ServerWaits

(* The server's steps. *)
LEMMA TalkServer ==
    ASSUME SpeechInv, QuietInv', ServerActs
    PROVE  TalkInv'
<1>t. /\ speechAge \in Nat /\ waited \in Nat /\ left \in Nat /\ run.silence_run \in Nat
      /\ waited <= RecvTimeout /\ left <= Recog
      /\ SegHang \in Nat /\ Recog \in Nat /\ RecvTimeout \in Nat /\ RecvTimeout > 0 /\ SegHang > 0
      /\ Bound = SegHang + Recog + RecvTimeout
      /\ run.in_speech => run.silence_run < SegHang
      /\ spc # "accept" => cur \in Devices
  BY SpeechTypes
<1>1. CASE Accept
  <2>1. speechAge' = 0 /\ ~run'.in_speech /\ spc' = "recv"
    BY <1>1 DEF Accept, Deaf
  <2>2. speechAge' <= Bound
    BY <2>1, <1>t
  <2> QED
    BY <2>1, <2>2 DEF TalkInv, BusyTalk, LoudTalk, RunTalk, Bound
<1>2. ASSUME NEW item \in {"loud", "noise"}, RecvSounds(item) PROVE TalkInv'
  <2>1. Recv(item) /\ run' = [in_speech |-> TRUE, silence_run |-> 0] /\ spc' = "tick"
    BY <1>2 DEF RecvSounds
  <2>2. /\ cur \in Devices /\ sock[cur][1] = item /\ 1 \in 1 .. Len(sock[cur])
        /\ cur' = cur /\ dev' = dev
    BY <2>1, WaitingRead
  <2>3. CASE item = "noise"
    <3>1. ~dev[cur].clean
      BY <2>2, <2>3 DEF SpeechInv, CleanInv
    <3> QED
      BY <2>2, <3>1 DEF TalkInv
  <2>4. CASE item = "loud"
    <3>1. speechAge' = UpTo(speechAge, waited)
      BY <1>2, <2>4 DEF RecvSounds
    <3>2. UpTo(speechAge, waited) \in Nat /\ UpTo(speechAge, waited) <= waited
      BY <1>t, UpToBounds
    <3>3. speechAge' <= RecvTimeout /\ speechAge' <= Bound /\ speechAge' \in Nat
      <4> DEFINE s2 == UpTo(speechAge, waited)
      <4>1. s2 \in Nat /\ s2 <= waited
        BY <3>2
      <4> HIDE DEF s2
      <4>2. s2 <= RecvTimeout /\ s2 <= SegHang + Recog + RecvTimeout /\ s2 \in Nat
        BY <4>1, <1>t
      <4> QED
        BY <3>1, <4>2, <1>t DEF s2
    <3>4. RunTalk'
      <4>1. run'.silence_run = 0 /\ ~Loose'
        BY <2>1 DEF Loose
      <4>2. speechAge' <= RecvTimeout + 0 + 0
        BY <3>3, <1>t
      <4> QED
        BY <4>1, <4>2 DEF RunTalk
    <3> QED
      BY <2>1, <3>3, <3>4 DEF TalkInv, BusyTalk, LoudTalk, Bound
  <2> QED
    BY <2>3, <2>4
<1>3. CASE RecvQuiet
  <2>1. Recv("quiet") /\ speechAge' = speechAge
    BY <1>3 DEF RecvQuiet, policy
  <2>2. /\ cur \in Devices /\ sock[cur][1] = "quiet" /\ 1 \in 1 .. Len(sock[cur])
        /\ cur' = cur /\ dev' = dev /\ waited' = waited /\ spc = "recv"
        /\ LoudWaits' => LoudWaits /\ ~Loose
    BY <2>1, WaitingRead
  <2> SUFFICES ASSUME dev[cur].clean PROVE (BusyTalk /\ LoudTalk /\ RunTalk)'
    BY <2>2 DEF TalkInv
  <2>3. BusyTalk /\ LoudTalk /\ RunTalk
    BY <2>2 DEF SpeechInv, TalkInv
  <2>4. FramesCome
    BY <2>2 DEF FramesCome, Kinds
  <2>5. run.in_speech => speechAge <= RecvTimeout + run.silence_run + 1
    <3>1. run.in_speech => speechAge <= RecvTimeout + run.silence_run + (IF Loose THEN 1 ELSE 0)
      BY <2>3, <2>4 DEF RunTalk
    <3> QED
      BY <3>1, <1>t
  <2>6. LoudTalk'
    <3>1. LoudWaits' => speechAge <= Bound
      BY <2>2, <2>3 DEF LoudTalk
    <3> QED
      BY <2>1, <3>1 DEF LoudTalk, Bound
  <2>7. CASE Ends
    <3>1. run' = Deaf /\ spc' = "busy" /\ left' \in Recogs /\ run.in_speech
      BY <1>3, <2>7 DEF RecvQuiet, Ends
    <3>2. left' \in Nat /\ left' <= Recog /\ ~run'.in_speech
      BY <3>1, RecogLongest DEF Deaf
    <3>3. speechAge + left' <= Bound
      <4> DEFINE l2 == left'
      <4>1. l2 \in Nat /\ l2 <= Recog
        BY <3>2
      <4> HIDE DEF l2
      <4>2. speechAge + l2 <= SegHang + Recog + RecvTimeout
        BY <4>1, <1>t, <2>5, <3>1
      <4> QED
        BY <4>2, <1>t DEF l2
    <3> QED
      BY <2>1, <2>6, <3>2, <3>3 DEF BusyTalk, RunTalk, Bound
  <2>8. CASE ~Ends
    <3>1. /\ run' = IF run.in_speech THEN [run EXCEPT !.silence_run = @ + 1] ELSE run
          /\ spc' = "tick"
      BY <1>3, <2>8 DEF RecvQuiet
    <3>2. run'.in_speech => run.in_speech /\ run'.silence_run = run.silence_run + 1
      BY <3>1 DEF SpeechInv, ServedInv, BaseInv, Types
    <3>3. ~Loose' /\ BusyTalk'
      BY <3>1 DEF Loose, BusyTalk
    <3>4. run'.in_speech => speechAge' <= RecvTimeout + run'.silence_run + 0
      <4> SUFFICES ASSUME run'.in_speech PROVE speechAge' <= RecvTimeout + run'.silence_run + 0
        OBVIOUS
      <4>1. speechAge <= RecvTimeout + (run.silence_run + 1) + 0
        BY <2>5, <3>2, <1>t
      <4> QED
        BY <4>1, <2>1, <3>2
    <3> QED
      BY <2>6, <3>3, <3>4 DEF RunTalk
  <2> QED
    BY <2>7, <2>8
<1>4. CASE RecvFinal
  <2>1. complete' /\ spc' = "tick" /\ run' = run
    BY <1>4 DEF RecvFinal
  <2>2. ~LoudWaits' /\ ~FramesCome'
    BY <2>1 DEF QuietInv, CompleteInv, LoudWaits, FramesCome, Kinds
  <2> QED
    BY <2>1, <2>2 DEF TalkInv, BusyTalk, LoudTalk, RunTalk
<1>5. CASE RecvClosed
  BY <1>5 DEF RecvClosed, TalkInv
<1>6. ASSUME NEW command \in BOOLEAN, Recognised(command) PROVE TalkInv'
  <2>1. /\ spc = "busy" /\ spc' = "tick" /\ left = 0
        /\ cur' = cur /\ dev' = dev /\ sock' = sock /\ run' = run
    BY <1>6 DEF Recognised, Network, session
  <2>2. ~run'.in_speech
    BY <2>1 DEF SpeechInv, SilentInv
  <2> SUFFICES ASSUME dev[cur].clean PROVE (BusyTalk /\ LoudTalk /\ RunTalk)'
    BY <2>1 DEF TalkInv
  <2>3. speechAge <= Bound
    BY <2>1, <1>t DEF SpeechInv, TalkInv, BusyTalk
  <2>4. speechAge' \in Nat /\ speechAge' <= speechAge
    BY <1>6, <1>t DEF Recognised, Policy!Command, policy
  <2>5. speechAge' <= Bound
    <3> DEFINE s2 == speechAge'
               b2 == Bound
    <3>1. s2 \in Nat /\ s2 <= speechAge /\ speechAge <= b2 /\ b2 \in Nat
      BY <2>3, <2>4, <1>t
    <3> HIDE DEF s2, b2
    <3>2. s2 <= b2
      BY <3>1, <1>t
    <3> QED
      BY <3>2 DEF s2, b2
  <2> QED
    BY <2>1, <2>2, <2>5 DEF BusyTalk, LoudTalk, RunTalk, Bound
<1>7. CASE RecvTimedOut
  <2>1. /\ spc = "recv" /\ sock[cur] = <<>> /\ waited >= RecvTimeout /\ spc' = "tick"
        /\ cur' = cur /\ dev' = dev /\ sock' = sock
    BY <1>7 DEF RecvTimedOut, Network
  <2>2. Loose /\ Len(sock[cur]) = 0
    BY <2>1, <1>t DEF Loose
  <2>3. ~LoudWaits' /\ ~FramesCome'
    BY <2>1, <2>2 DEF SpeechInv, LooseInv, LoudWaits, FramesCome
  <2> QED
    BY <2>1, <2>3 DEF TalkInv, BusyTalk, LoudTalk, RunTalk
<1>8. CASE SessionTick
  <2>1. CASE spc' = "accept"
    BY <2>1 DEF TalkInv
  <2>2. CASE spc' # "accept"
    <3>1. /\ spc = "tick" /\ spc' = "recv" /\ waited' = 0 /\ speechAge' = speechAge
          /\ cur' = cur /\ dev' = dev /\ sock' = sock /\ run' = run
      BY <1>8, <2>2 DEF SessionTick, Network, policy, session
    <3>2. ~Loose /\ ~Loose'
      BY <3>1 DEF Loose
    <3>3. (LoudWaits' <=> LoudWaits) /\ (FramesCome' <=> FramesCome)
      BY <3>1 DEF LoudWaits, FramesCome
    <3> SUFFICES ASSUME dev[cur].clean PROVE (BusyTalk /\ LoudTalk /\ RunTalk)'
      BY <3>1 DEF TalkInv
    <3>4. BusyTalk /\ LoudTalk /\ RunTalk
      BY <3>1 DEF SpeechInv, TalkInv
    <3> QED
      BY <3>1, <3>2, <3>3, <3>4 DEF BusyTalk, LoudTalk, RunTalk, Bound
  <2> QED
    BY <2>1, <2>2
<1> QED
  BY <1>1, <1>2, <1>3, <1>4, <1>5, <1>6, <1>7, <1>8 DEF ServerActs

LEMMA SilentStep ==
    ASSUME SpeechInv, [Next]_vars
    PROVE  SilentInv'
<1>b. BaseInv /\ HeldInv
  BY BaseHeld DEF SpeechInv, ServedInv
<1>1. ASSUME spc' = spc, run' = run PROVE SilentInv'
  BY <1>1 DEF SpeechInv, SilentInv
<1>2. ASSUME NEW d \in Devices, Connect(d) \/ Vanish(d) \/ Unblock(d) \/ Notice(d) \/ GiveUp(d)
      PROVE  SilentInv'
  <2>1. UNCHANGED Server
    BY <1>2, <1>b, DeviceMoves DEF BaseInv
  <2> QED
    BY <2>1, <1>1 DEF Server, session
<1>3. CASE Tick \/ UNCHANGED vars
  BY <1>1, <1>3 DEF Tick, vars
<1>4. CASE ServerActs
  BY <1>4 DEF ServerActs, Accept, RecvSounds, RecvQuiet, RecvFinal, RecvClosed, Recognised,
              RecvTimedOut, SessionTick, SilentInv, Deaf
<1> QED
  BY <1>2, <1>3, <1>4 DEF Next, DeviceActs

LEMMA SpeechStep == SpeechInv /\ [Next]_vars => SpeechInv'
<1> SUFFICES ASSUME SpeechInv, [Next]_vars PROVE SpeechInv'
  OBVIOUS
<1>1. QuietInv' /\ ServedInv' /\ LooseInv' /\ SilentInv'
  BY QuietStep, ServedStep, LooseStep, SilentStep DEF SpeechInv
<1>2. BaseInv /\ HeldInv /\ \A d \in Devices : Moves(d)
  BY BaseHeld, Moving DEF SpeechInv, ServedInv
<1>3. CleanInv'
  BY <1>2, CleanMoves DEF SpeechInv, CleanInv
<1>4. TalkInv'
  <2>0. CASE UNCHANGED vars
    BY <2>0 DEF vars, SpeechInv, TalkInv, BusyTalk, LoudTalk, RunTalk, LoudWaits, FramesCome, Loose, Bound
  <2>1. ASSUME NEW d \in Devices, Connect(d) \/ Vanish(d) \/ Unblock(d) \/ Notice(d) \/ GiveUp(d)
        PROVE  TalkInv'
    <3>1. UNCHANGED Server /\ \A e \in Devices : Rests(e) \/ DeviceMove(e)
      BY <2>1, <1>2, DeviceMoves DEF BaseInv
    <3>2. UNCHANGED <<cur, spc, waited, left, run, speechAge>>
      BY <3>1 DEF Server, session, policy
    <3> SUFFICES ASSUME spc # "accept" PROVE TalkInv'
      BY <3>2 DEF TalkInv
    <3>3. cur \in Devices
      BY SpeechTypes
    <3>4. /\ LoudWaits' => LoudWaits
          /\ FramesCome' => FramesCome
          /\ dev'[cur].clean = dev[cur].clean
      BY <3>1, <3>2, <3>3, WaitingKept DEF SpeechInv
    <3>5. Loose' <=> Loose
      BY <3>2 DEF Loose
    <3> QED
      BY <3>2, <3>4, <3>5 DEF SpeechInv, TalkInv, BusyTalk, LoudTalk, RunTalk, Bound
  <2>2. CASE Tick
    BY <2>2, TalkTick
  <2>3. CASE ServerActs
    BY <2>3, <1>1, TalkServer
  <2> QED
    BY <2>0, <2>1, <2>2, <2>3 DEF Next, DeviceActs
<1> QED
  BY <1>1, <1>3, <1>4 DEF SpeechInv

(* session.c:48-53, main.c:84-96: for every length of a recognition and    *)
(* every size of the buffers, if the silence limit exceeds the silence     *)
(* that ends an utterance, a recognition and a timeout together, a session *)
(* is not cut for silence while speech waits to be read.                   *)
THEOREM TalkersKeepTheirSession == Spec => NotCutWhileTalking
<1>1. SpeechInv /\ [Next]_vars =>
        [(/\ SilenceMs > SegHang + Recog + RecvTimeout
          /\ phase # "CUT" /\ phase' = "CUT" /\ reason' = "SILENCE"
          /\ dev[cur].clean)
         => \A i \in DOMAIN sock[cur] : sock[cur][i] # "loud"]_vars
  <2> SUFFICES ASSUME SpeechInv, Next, SilenceMs > SegHang + Recog + RecvTimeout,
                      phase # "CUT", phase' = "CUT", reason' = "SILENCE", dev[cur].clean,
                      NEW i \in DOMAIN sock[cur], sock[cur][i] = "loud"
               PROVE  FALSE
    BY DEF vars
  <2>b. BaseInv /\ HeldInv
    BY BaseHeld DEF SpeechInv, ServedInv
  <2>1. SessionTick
    <3>1. ASSUME NEW d \in Devices, Connect(d) \/ Vanish(d) \/ Unblock(d) \/ Notice(d) \/ GiveUp(d)
          PROVE  FALSE
      <4>1. UNCHANGED Server
        BY <3>1, <2>b, DeviceMoves DEF BaseInv
      <4> QED
        BY <4>1 DEF Server, policy
    <3>2. CASE Tick
      BY <3>2 DEF Tick
    <3>3. CASE ServerActs
      BY <3>3 DEF ServerActs, Accept, RecvSounds, RecvQuiet, RecvFinal, RecvClosed, Recognised,
                  RecvTimedOut, Policy!Speech, Policy!Command, policy
    <3> QED
      BY <3>1, <3>2, <3>3 DEF Next, DeviceActs
  <2>2. spc = "tick" /\ Policy!Verdict = "SILENCE"
    BY <2>1 DEF SessionTick, Policy!Cut, policy
  <2>3. speechAge >= SilenceMs
    BY <2>2 DEF Policy!Verdict, Policy!Due
  <2>4. cur \in Devices /\ speechAge \in Nat /\ Bound = SegHang + Recog + RecvTimeout /\ Bound \in Nat
    BY <2>2, SpeechTypes
  <2>5. i \in 1 .. Len(sock[cur])
    BY <2>4, <2>b DEF BaseInv, Types
  <2>6. LoudWaits /\ ~Loose
    BY <2>2, <2>5 DEF LoudWaits, Loose
  <2>7. speechAge <= Bound
    BY <2>2, <2>6 DEF SpeechInv, TalkInv, LoudTalk
  <2>8. SilenceMs \in Nat
    BY Constants
  <2> HIDE DEF Bound
  <2> QED
    BY <2>3, <2>4, <2>7, <2>8
<1>2. Spec => []SpeechInv
  BY InitSpeech, SpeechStep, PTL DEF Spec
<1> QED
  BY <1>1, <1>2, PTL DEF Spec, NotCutWhileTalking

-----------------------------------------------------------------------------
(* The device's patience *)

(* The final chunk: the last item but for the close, and in the buffers of *)
(* a draining device until it is read.  The polls begin with it.           *)
FinalInv ==
    /\ \A d \in Devices : \A i, j \in 1 .. Len(sock[d]) :
          sock[d][i] = "final" /\ j > i => sock[d][j] = "FIN"
    /\ complete => \A i \in 1 .. Len(sock[cur]) : sock[cur][i] # "final"
    /\ \A d \in Devices : dev[d].pc = "drain" /\ d \notin closed /\ ~(d = cur /\ complete) =>
          \E i \in 1 .. Len(sock[d]) : sock[d][i] = "final"
    /\ \A d \in Devices : spc = "accept" /\ d = cur => d \in closed \/ dev[d].pc = "done"
    /\ \A d \in Devices : dev[d].pc \in {"idle", "stream", "blocked"} => dev[d].polls = 0

LEMMA PollMoves ==
    ASSUME NEW d \in Devices, Moves(d),
           dev[d].pc \in {"idle", "stream", "blocked"} => dev[d].polls = 0
    PROVE  dev'[d].pc \in {"idle", "stream", "blocked"} => dev'[d].polls = 0
  BY DEF Moves, DeviceMove, TickMove, Rests, Joins, Leaves, GivesUp, Flushes, Captures, Polls, Popped

(* Items behind the final chunk. *)
LEMMA LastMoves ==
    ASSUME BaseInv, NEW d \in Devices, Moves(d),
           \A i, j \in 1 .. Len(sock[d]) : sock[d][i] = "final" /\ j > i => sock[d][j] = "FIN"
    PROVE  \A i, j \in 1 .. Len(sock'[d]) : sock'[d][i] = "final" /\ j > i => sock'[d][j] = "FIN"
<1>1. /\ sock[d] \in Seq(Kinds \cup {"final", "FIN"}) /\ Len(sock[d]) \in Nat
      /\ DeviceInv(d)
  BY DEF BaseInv, DevicesInv, Types
<1>2. CASE sock'[d] = sock[d]
  BY <1>2
<1>3. ASSUME NEW item \in Kinds \cup {"final", "FIN"}, sock'[d] = Append(sock[d], item),
             item = "FIN" \/ \A i \in 1 .. Len(sock[d]) : sock[d][i] \in Kinds
      PROVE  \A i, j \in 1 .. Len(sock'[d]) : sock'[d][i] = "final" /\ j > i => sock'[d][j] = "FIN"
  <2>1. /\ Len(sock'[d]) = Len(sock[d]) + 1
        /\ \A i \in 1 .. Len(sock[d]) : sock'[d][i] = sock[d][i]
        /\ sock'[d][Len(sock[d]) + 1] = item
    BY <1>1, <1>3, AppendOf
  <2> SUFFICES ASSUME NEW i \in 1 .. Len(sock'[d]), NEW j \in 1 .. Len(sock'[d]),
                      sock'[d][i] = "final", j > i
               PROVE  sock'[d][j] = "FIN"
    OBVIOUS
  <2>2. i \in 1 .. Len(sock[d]) /\ (j \in 1 .. Len(sock[d]) \/ j = Len(sock[d]) + 1)
    BY <1>1, <2>1
  <2>3. sock[d][i] = "final" /\ "final" \notin Kinds
    BY <2>1, <2>2 DEF Kinds
  <2>4. item = "FIN"
    BY <1>3, <2>2, <2>3
  <2> QED
    BY <2>1, <2>2, <2>3, <2>4
<1>4. CASE Popped(d)
  <2>1. /\ Len(sock'[d]) = Len(sock[d]) - 1
        /\ \A i \in 1 .. (Len(sock[d]) - 1) : sock'[d][i] = sock[d][i + 1]
    BY <1>1, <1>4, TailOf DEF Popped
  <2>2. \A i \in 1 .. Len(sock'[d]) : i \in 1 .. (Len(sock[d]) - 1) /\ i + 1 \in 1 .. Len(sock[d])
    BY <1>1, <2>1
  <2>3. \A i, j \in 1 .. Len(sock'[d]) : j > i => j + 1 > i + 1
    OBVIOUS
  <2> QED
    BY <2>1, <2>2, <2>3
<1>5. CASE Rests(d) \/ Joins(d) \/ Leaves(d) \/ Polls(d)
  BY <1>2, <1>5 DEF Rests, Joins, Leaves, Polls
<1>6. CASE GivesUp(d)
  BY <1>3, <1>6 DEF GivesUp
<1>7. CASE Flushes(d)
  BY <1>1, <1>3, <1>7 DEF Flushes, DeviceInv
<1>8. ASSUME NEW item \in Kinds \cup {"final"}, Captures(d, item)
      PROVE  \A i, j \in 1 .. Len(sock'[d]) : sock'[d][i] = "final" /\ j > i => sock'[d][j] = "FIN"
  BY <1>1, <1>2, <1>3, <1>8 DEF Captures, DeviceInv
<1> QED
  BY <1>4, <1>5, <1>6, <1>7, <1>8 DEF Moves, DeviceMove, TickMove

(* A final chunk stays until it is read. *)
LEMMA FinalThere ==
    ASSUME BaseInv, NEW d \in Devices, Rests(d) \/ DeviceMove(d) \/ TickMove(d),
           dev'[d].pc = "drain",
           dev[d].pc = "drain" => \E i \in 1 .. Len(sock[d]) : sock[d][i] = "final"
    PROVE  \E i \in 1 .. Len(sock'[d]) : sock'[d][i] = "final"
<1>1. sock[d] \in Seq(Kinds \cup {"final", "FIN"}) /\ Len(sock[d]) \in Nat
  BY DEF BaseInv, Types
<1>2. ASSUME sock'[d] = Append(sock[d], "final")
      PROVE  \E i \in 1 .. Len(sock'[d]) : sock'[d][i] = "final"
  <2>1. Len(sock'[d]) = Len(sock[d]) + 1 /\ sock'[d][Len(sock[d]) + 1] = "final"
    BY <1>1, <1>2, AppendOf
  <2>2. Len(sock[d]) + 1 \in 1 .. Len(sock'[d])
    BY <1>1, <2>1
  <2> QED
    BY <2>1, <2>2
<1>3. CASE Rests(d) \/ Polls(d)
  BY <1>3 DEF Rests, Polls
<1>4. CASE Flushes(d)
  BY <1>2, <1>4 DEF Flushes
<1>5. ASSUME NEW item \in Kinds \cup {"final"}, Captures(d, item)
      PROVE  \E i \in 1 .. Len(sock'[d]) : sock'[d][i] = "final"
  BY <1>2, <1>5 DEF Captures
<1>6. ~Joins(d) /\ ~Leaves(d) /\ ~GivesUp(d)
  BY DEF Joins, Leaves, GivesUp
<1> QED
  BY <1>3, <1>4, <1>5, <1>6 DEF DeviceMove, TickMove

(* A complete stream gets no second final chunk. *)
LEMMA NoFinalMoves ==
    ASSUME BaseInv, NEW d \in Devices, Moves(d), dev[d].pc \in {"drain", "done"},
           \A i \in 1 .. Len(sock[d]) : sock[d][i] # "final"
    PROVE  \A i \in 1 .. Len(sock'[d]) : sock'[d][i] # "final"
<1>1. sock[d] \in Seq(Kinds \cup {"final", "FIN"}) /\ Len(sock[d]) \in Nat
  BY DEF BaseInv, Types
<1>2. CASE Rests(d) \/ Joins(d) \/ Leaves(d) \/ Polls(d)
  BY <1>2 DEF Rests, Joins, Leaves, Polls
<1>3. CASE GivesUp(d)
  <2>1. /\ Len(sock'[d]) = Len(sock[d]) + 1
        /\ \A i \in 1 .. Len(sock[d]) : sock'[d][i] = sock[d][i]
        /\ sock'[d][Len(sock[d]) + 1] = "FIN"
    BY <1>1, <1>3, AppendOf DEF GivesUp
  <2>2. \A i \in 1 .. Len(sock'[d]) : i \in 1 .. Len(sock[d]) \/ i = Len(sock[d]) + 1
    BY <1>1, <2>1
  <2> QED
    BY <2>1, <2>2
<1>4. CASE Popped(d)
  <2>1. /\ Len(sock'[d]) = Len(sock[d]) - 1
        /\ \A i \in 1 .. (Len(sock[d]) - 1) : sock'[d][i] = sock[d][i + 1]
    BY <1>1, <1>4, TailOf DEF Popped
  <2>2. \A i \in 1 .. Len(sock'[d]) : i \in 1 .. (Len(sock[d]) - 1) /\ i + 1 \in 1 .. Len(sock[d])
    BY <1>1, <2>1
  <2> QED
    BY <2>1, <2>2
<1>5. ~Flushes(d) /\ \A item : ~Captures(d, item)
  BY DEF Flushes, Captures
<1> QED
  BY <1>2, <1>3, <1>4, <1>5 DEF Moves, DeviceMove, TickMove

(* The steps that leave cur and complete alone and read nothing. *)
LEMMA FinalKept ==
    ASSUME SpeechInv, FinalInv, cur' = cur, complete' = complete, closed \subseteq closed',
           spc' = "accept" => spc = "accept" \/ cur \in closed',
           \A d \in Devices : Rests(d) \/ DeviceMove(d) \/ TickMove(d)
    PROVE  FinalInv'
<1>1. BaseInv /\ \A d \in Devices : Moves(d)
  BY DEF SpeechInv, ServedInv, Moves
<1>2. ASSUME NEW d \in Devices
      PROVE  \A i, j \in 1 .. Len(sock'[d]) : sock'[d][i] = "final" /\ j > i => sock'[d][j] = "FIN"
  <2>1. \A i, j \in 1 .. Len(sock[d]) : sock[d][i] = "final" /\ j > i => sock[d][j] = "FIN"
    BY DEF FinalInv
  <2> QED
    BY <1>1, <2>1, LastMoves
<1>3. complete => \A i \in 1 .. Len(sock'[cur]) : sock'[cur][i] # "final"
  <2> SUFFICES ASSUME complete PROVE \A i \in 1 .. Len(sock'[cur]) : sock'[cur][i] # "final"
    OBVIOUS
  <2>1. cur \in Devices /\ dev[cur].pc \in {"drain", "done"}
    BY <1>1 DEF BaseInv, ServerBounds, SpeechInv, QuietInv, CompleteInv
  <2>2. \A i \in 1 .. Len(sock[cur]) : sock[cur][i] # "final"
    BY DEF FinalInv
  <2>3. Moves(cur)
    BY <1>1, <2>1
  <2> DEFINE d == cur
  <2>4. d \in Devices /\ Moves(d) /\ dev[d].pc \in {"drain", "done"} /\ \A i \in 1 .. Len(sock[d]) : sock[d][i] # "final"
    BY <2>1, <2>2, <2>3
  <2> QED
    BY <1>1, <2>4, NoFinalMoves
<1>4. ASSUME NEW d \in Devices, dev'[d].pc = "drain", d \notin closed', ~(d = cur /\ complete)
      PROVE  \E i \in 1 .. Len(sock'[d]) : sock'[d][i] = "final"
  <2>1. dev[d].pc = "drain" => \E i \in 1 .. Len(sock[d]) : sock[d][i] = "final"
    BY <1>4 DEF FinalInv
  <2> QED
    BY <1>1, <1>4, <2>1, FinalThere
<1>5. ASSUME NEW d \in Devices, spc' = "accept", d = cur
      PROVE  d \in closed' \/ dev'[d].pc = "done"
  <2>1. dev[d].pc = "done" => dev'[d].pc = "done"
    BY <1>1, PcMoves
  <2> QED
    BY <1>5, <2>1 DEF FinalInv
<1>6. ASSUME NEW d \in Devices
      PROVE  dev'[d].pc \in {"idle", "stream", "blocked"} => dev'[d].polls = 0
  BY <1>1, PollMoves DEF FinalInv
<1> QED
  BY <1>2, <1>3, <1>4, <1>5, <1>6 DEF FinalInv

LEMMA FinalRecv ==
    ASSUME SpeechInv, FinalInv, NEW item, Recv(item),
           complete' => complete \/ item = "final",
           complete \/ item = "final" => complete',
           spc' = "accept" => item = "FIN"
    PROVE  FinalInv'
<1>1. BaseInv /\ Types /\ cur \in Devices
  BY DEF SpeechInv, ServedInv, BaseInv, ServerBounds, Recv
<1>2. /\ Popped(cur) /\ sock[cur][1] = item /\ dev' = dev /\ cur' = cur /\ closed' = closed
      /\ \A e \in Devices : e # cur => Rests(e)
  BY <1>1, RecvMoves
<1>3. \A d \in Devices : Moves(d)
  BY <1>2 DEF Moves
<1>4. ASSUME NEW d \in Devices
      PROVE  \A i, j \in 1 .. Len(sock'[d]) : sock'[d][i] = "final" /\ j > i => sock'[d][j] = "FIN"
  <2>1. \A i, j \in 1 .. Len(sock[d]) : sock[d][i] = "final" /\ j > i => sock[d][j] = "FIN"
    BY DEF FinalInv
  <2> QED
    BY <1>1, <1>3, <2>1, LastMoves
<1>t. /\ sock[cur] \in Seq(Kinds \cup {"final", "FIN"}) /\ Len(sock[cur]) \in Nat /\ Len(sock[cur]) >= 1
      /\ Len(sock'[cur]) = Len(sock[cur]) - 1
      /\ \A i \in 1 .. (Len(sock[cur]) - 1) : sock'[cur][i] = sock[cur][i + 1]
  BY <1>1, <1>2, TailOf DEF Popped, Types
<1>i. 1 \in 1 .. Len(sock[cur])
  BY <1>t
<1>5. complete' => \A i \in 1 .. Len(sock'[cur]) : sock'[cur][i] # "final"
  <2> SUFFICES ASSUME complete', NEW i \in 1 .. Len(sock'[cur]) PROVE sock'[cur][i] # "final"
    OBVIOUS
  <2>1. i \in 1 .. (Len(sock[cur]) - 1) /\ i + 1 \in 1 .. Len(sock[cur]) /\ i + 1 > 1
    BY <1>t
  <2>2. sock'[cur][i] = sock[cur][i + 1]
    BY <2>1, <1>t
  <2>3. CASE item = "final"
    BY <1>1, <1>2, <1>i, <2>1, <2>2, <2>3 DEF FinalInv
  <2>4. CASE complete
    BY <2>1, <2>2, <2>4 DEF FinalInv
  <2> QED
    BY <2>3, <2>4
<1>6. ASSUME NEW d \in Devices, dev[d].pc = "drain", d \notin closed, ~(d = cur /\ complete')
      PROVE  \E i \in 1 .. Len(sock'[d]) : sock'[d][i] = "final"
  <2>1. PICK i \in 1 .. Len(sock[d]) : sock[d][i] = "final"
    BY <1>6 DEF FinalInv
  <2>2. CASE d # cur
    BY <1>2, <2>1, <2>2 DEF Rests
  <2>3. CASE d = cur
    <3>1. item # "final"
      BY <1>6, <2>3
    <3>2. i # 1
      BY <1>2, <2>1, <2>3, <3>1
    <3>3. i - 1 \in 1 .. Len(sock'[cur]) /\ i - 1 \in 1 .. (Len(sock[cur]) - 1) /\ (i - 1) + 1 = i
      BY <1>t, <2>1, <2>3, <3>2
    <3>4. sock'[cur][i - 1] = "final"
      BY <1>t, <2>1, <2>3, <3>3
    <3> QED
      BY <2>3, <3>3, <3>4
  <2> QED
    BY <2>2, <2>3
<1>7. spc' = "accept" => dev'[cur].pc = "done"
  BY <1>1, <1>2, <1>i DEF SpeechInv, ServedInv, FinInv
<1> QED
  BY <1>2, <1>4, <1>5, <1>6, <1>7 DEF FinalInv

LEMMA FinalStep ==
    ASSUME SpeechInv, FinalInv, [Next]_vars
    PROVE  FinalInv'
<1>b. BaseInv /\ HeldInv
  BY BaseHeld DEF SpeechInv, ServedInv
<1>0. CASE UNCHANGED vars
  BY <1>0, FinalKept DEF vars, Rests
<1>1. ASSUME NEW d \in Devices, Connect(d) \/ Vanish(d) \/ Unblock(d) \/ Notice(d) \/ GiveUp(d)
      PROVE  FinalInv'
  <2>1. UNCHANGED Server /\ \A e \in Devices : Rests(e) \/ DeviceMove(e)
    BY <1>1, <1>b, DeviceMoves DEF BaseInv
  <2>2. cur' = cur /\ complete' = complete /\ closed' = closed /\ spc' = spc
    BY <2>1 DEF Server, session
  <2> QED
    BY <2>1, <2>2, FinalKept
<1>2. CASE Tick
  <2>1. cur' = cur /\ complete' = complete /\ closed' = closed /\ spc' = spc
    BY <1>2 DEF Tick
  <2>2. \A d \in Devices : TickMove(d)
    BY <1>2, <1>b, BaseHeld, TickMoves DEF BaseInv
  <2> QED
    BY <2>1, <2>2, FinalKept
<1>3. CASE Accept
  <2>1. dev' = dev /\ sock' = sock /\ closed' = closed /\ complete' = FALSE /\ spc' = "recv" /\ spc = "accept"
    BY <1>3 DEF Accept, Network
  <2>2. ASSUME NEW d \in Devices, dev[d].pc = "drain", d \notin closed
        PROVE  \E i \in 1 .. Len(sock[d]) : sock[d][i] = "final"
    BY <2>1, <2>2 DEF FinalInv
  <2> QED
    BY <2>1, <2>2 DEF FinalInv
<1>4. CASE RecvTimedOut \/ SessionTick \/ \E command \in BOOLEAN : Recognised(command)
  <2>1. /\ dev' = dev /\ sock' = sock /\ cur' = cur /\ complete' = complete
        /\ closed \subseteq closed'
        /\ spc' = "accept" => cur \in closed'
    BY <1>4 DEF RecvTimedOut, SessionTick, Recognised, Network, session
  <2> QED
    BY <2>1, FinalKept DEF Rests
<1>5. ASSUME NEW item \in {"loud", "noise"}, RecvSounds(item) PROVE FinalInv'
  <2>1. Recv(item) /\ complete' = complete /\ spc' # "accept"
    BY <1>5 DEF RecvSounds
  <2>2. item # "final"
    OBVIOUS
  <2> QED
    BY <2>1, <2>2, FinalRecv, Zenon
<1>6. CASE RecvQuiet
  <2>1. Recv("quiet") /\ complete' = complete /\ spc' # "accept"
    BY <1>6 DEF RecvQuiet
  <2> QED
    BY <2>1, FinalRecv
<1>7. CASE RecvFinal
  <2>1. Recv("final") /\ complete' = TRUE /\ spc' # "accept"
    BY <1>7 DEF RecvFinal
  <2> QED
    BY <2>1, FinalRecv
<1>8. CASE RecvClosed
  <2>1. Recv("FIN") /\ complete' = complete
    BY <1>8 DEF RecvClosed, session
  <2> QED
    BY <2>1, FinalRecv
<1> QED
  BY <1>0, <1>1, <1>2, <1>3, <1>4, <1>5, <1>6, <1>7, <1>8 DEF Next, DeviceActs, ServerActs

(* The recognitions that m items can ask for: an utterance is a sound and  *)
(* the silence that ends it.                                               *)
Load(m) == Recog * (m \div (SegHang + 1))

LEMMA DivPlus ==
    ASSUME NEW m \in Nat, NEW s \in Nat, s > 0
    PROVE  (m + s) \div s = m \div s + 1
  OBVIOUS

LEMMA DivNat ==
    ASSUME NEW m \in Nat, NEW s \in Nat, s > 0
    PROVE  m \div s \in Nat /\ (m < s => m \div s = 0)
<1>1. m \div s \in Nat
  OBVIOUS
<1>2. m < s => m \div s = 0
  OBVIOUS
<1> QED
  BY <1>1, <1>2

LEMMA DivMonotone ==
    ASSUME NEW m \in Nat, NEW n \in Nat, NEW s \in Nat, s > 0, m <= n
    PROVE  m \div s <= n \div s
  OBVIOUS

LEMMA Times ==
    ASSUME NEW r \in Nat, NEW m \in Nat
    PROVE  /\ r * m \in Nat /\ r * 0 = 0
           /\ r * (m + 1) = r * m + r
           /\ \A n \in Nat : m <= n => r * m <= r * n
  OBVIOUS

LEMMA LoadOf ==
    /\ \A m \in Nat : Load(m) \in Nat
    /\ \A m, n \in Nat : m <= n => Load(m) <= Load(n)
    /\ \A m \in Nat : Load(m + (SegHang + 1)) = Load(m) + Recog
    /\ Lag = Load(Window - 1) /\ Lag \in Nat
    /\ Window - 1 \in Nat
<1> DEFINE s == SegHang + 1
<1>1. s \in Nat /\ s > 0 /\ Recog \in Nat /\ Window - 1 \in Nat
  BY Constants, RecogLongest
<1>2. \A m : Load(m) = Recog * (m \div s)
  BY DEF Load
<1> HIDE DEF s
<1>3. \A m \in Nat : m \div s \in Nat
  BY <1>1, DivNat
<1>4. \A m \in Nat : Load(m) \in Nat
  BY <1>1, <1>2, <1>3, Times
<1>5. ASSUME NEW m \in Nat, NEW n \in Nat, m <= n PROVE Load(m) <= Load(n)
  <2>1. m \div s <= n \div s /\ m \div s \in Nat /\ n \div s \in Nat
    BY <1>1, <1>3, <1>5, DivMonotone
  <2>2. Recog * (m \div s) <= Recog * (n \div s)
    BY <1>1, <2>1, Times, Zenon
  <2> QED
    BY <1>2, <2>2
<1>6. ASSUME NEW m \in Nat PROVE Load(m + s) = Load(m) + Recog
  <2>1. (m + s) \div s = m \div s + 1 /\ m \div s \in Nat
    BY <1>1, <1>3, DivPlus
  <2>2. Recog * (m \div s + 1) = Recog * (m \div s) + Recog
    BY <1>1, <2>1, Times, Zenon
  <2>3. Load(m + s) = Recog * ((m + s) \div s) /\ Load(m) = Recog * (m \div s)
    BY <1>2
  <2> QED
    BY <2>1, <2>2, <2>3, Zenon
<1>7. Lag = Load(Window - 1)
  BY DEF Lag, Load
<1> QED
  BY <1>1, <1>4, <1>5, <1>6, <1>7, Zenon DEF s

(* The longer of a recognition and the window. *)
Longer == Maximum({Recog, DebounceMs})

LEMMA LongerOf ==
    /\ Longer \in Nat /\ Longer >= Recog /\ Longer >= DebounceMs
    /\ CutDelay = Lag + Longer + RecvTimeout
<1>1. Recog \in Nat /\ DebounceMs \in Nat
  BY Constants, RecogLongest
<1>2. \E x \in {Recog, DebounceMs} : \A y \in {Recog, DebounceMs} : x >= y
  BY <1>1
<1>3. Longer \in {Recog, DebounceMs} /\ \A y \in {Recog, DebounceMs} : Longer >= y
  BY <1>2 DEF Longer, Maximum
<1> QED
  BY <1>1, <1>3 DEF CutDelay, Longer

(* How much of a recognition the items that wait, with what the recogniser *)
(* has heard of an utterance, can make up; without the final chunk.        *)
Pending == IF complete THEN 0 ELSE 1

Spoken == IF run.in_speech THEN run.silence_run + 1 ELSE 0

Weight == (Len(sock[cur]) - Pending) + Spoken

LEMMA WeightOf ==
    ASSUME SpeechInv, FinalInv, spc # "accept", dev[cur].pc = "drain"
    PROVE  /\ complete => Len(sock[cur]) = 0
           /\ ~complete => Len(sock[cur]) >= 1
           /\ Weight \in Nat
           /\ Len(sock[cur]) \in Nat
           /\ Spoken \in Nat /\ Spoken <= SegHang
           /\ Pending \in {0, 1}
           /\ Weight = (Len(sock[cur]) - Pending) + Spoken
<1>1. /\ BaseInv /\ cur \in Devices /\ cur \notin closed /\ Len(sock[cur]) \in Nat
      /\ sock[cur] \in Seq(Kinds \cup {"final", "FIN"})
  BY SpeechTypes DEF SpeechInv, ServedInv, QueueInv, BaseInv, Types
<1>2. complete => Len(sock[cur]) = 0
  <2> SUFFICES ASSUME complete, Len(sock[cur]) >= 1 PROVE FALSE
    BY <1>1
  <2>1. 1 \in 1 .. Len(sock[cur])
    BY <1>1
  <2>2. sock[cur][1] \in Kinds \cup {"final", "FIN"}
    BY <1>1, <2>1
  <2>3. sock[cur][1] \notin Kinds
    BY <2>1 DEF SpeechInv, QuietInv, CompleteInv
  <2>4. sock[cur][1] # "final"
    BY <2>1 DEF FinalInv
  <2>5. sock[cur][1] # "FIN"
    BY <1>1, <2>1 DEF SpeechInv, ServedInv, FinInv
  <2> QED
    BY <2>2, <2>3, <2>4, <2>5
<1>3. ~complete => Len(sock[cur]) >= 1
  <2> SUFFICES ASSUME ~complete PROVE Len(sock[cur]) >= 1
    OBVIOUS
  <2>1. \E i \in 1 .. Len(sock[cur]) : sock[cur][i] = "final"
    BY <1>1 DEF FinalInv
  <2> QED
    BY <1>1, <2>1
<1>4. Spoken \in Nat /\ Spoken <= SegHang
  <2>1. run.silence_run \in Nat /\ SegHang \in Nat /\ (run.in_speech => run.silence_run < SegHang)
    BY <1>1, Constants DEF SpeechInv, QuietInv, HangInv, BaseInv, Types
  <2> QED
    BY <2>1 DEF Spoken
<1>5. Pending \in {0, 1} /\ (complete => Pending = 0) /\ (~complete => Pending = 1)
  BY DEF Pending
<1>6. Weight = (Len(sock[cur]) - Pending) + Spoken
  BY DEF Weight
<1> HIDE DEF Weight
<1>7. Weight \in Nat
  BY <1>1, <1>2, <1>3, <1>4, <1>5, <1>6
<1> QED
  BY <1>1, <1>2, <1>3, <1>4, <1>5, <1>6, <1>7

(* A recognition: what is left of it, and the ages when it is over.  The   *)
(* frame it is about was read when the clock was `waited` old.             *)
BusyInv ==
    spc = "busy" =>
        /\ waited + left <= late /\ late <= waited + Recog
        /\ late <= speechAge + waited + left
        /\ late <= cmdAge + waited + left

(* After a command, the timers have been evaluated since the clock was     *)
(* last read, and they have not cut the session.                           *)
WindowInv ==
    spc # "accept" /\ cur \in known =>
        phase = "WAITING" /\ (spc = "recv" => cmdAge < DebounceMs + waited)

LEMMA TimedTypes ==
    ASSUME BaseInv
    PROVE  /\ waited \in Nat /\ left \in Nat /\ late \in Nat
           /\ speechAge \in Nat /\ cmdAge \in Nat
           /\ waited <= RecvTimeout /\ left <= Recog
           /\ Recog \in Nat /\ RecvTimeout \in Nat /\ DebounceMs \in Nat
           /\ RecvTimeout > 0 /\ DebounceMs > 0
           /\ spc # "accept" => cur \in Devices
  BY Constants, RecogLongest DEF BaseInv, Types, ServerBounds

(* An age that reaches the cap is past every recognition. *)
LEMMA OlderEnough ==
    ASSUME NEW age \in Nat, NEW w \in Nat, NEW k \in Nat, NEW t \in Nat,
           w + k <= t, t <= w + Recog, w <= RecvTimeout, t <= age + w + k, k > 0
    PROVE  t <= Older(age) + w + (k - 1)
<1>1. /\ Older(age) \in Nat
      /\ Older(age) = age + 1 \/ Older(age) = Policy!AgeCap
      /\ Policy!AgeCap = DebounceMs + MaxSessionMs + SilenceMs + (RecvTimeout + Recog)
  BY OlderNat
<1>2. /\ DebounceMs \in Nat /\ MaxSessionMs \in Nat /\ SilenceMs \in Nat /\ RecvTimeout \in Nat
      /\ Recog \in Nat
  BY Constants, RecogLongest
<1> DEFINE o == Older(age)
           c == Policy!AgeCap
<1>3. o \in Nat /\ (o = age + 1 \/ o = c) /\ c = DebounceMs + MaxSessionMs + SilenceMs + (RecvTimeout + Recog)
  BY <1>1
<1> HIDE DEF o, c
<1>4. t <= o + w + (k - 1)
  BY <1>2, <1>3
<1> QED
  BY <1>4 DEF o

LEMMA BusyStep ==
    ASSUME BaseInv, BaseInv', BusyInv, [Next]_vars
    PROVE  BusyInv'
<1>t. /\ waited \in Nat /\ left \in Nat /\ late \in Nat /\ speechAge \in Nat /\ cmdAge \in Nat
      /\ waited <= RecvTimeout /\ left <= Recog /\ Recog \in Nat
  BY TimedTypes
<1>1. CASE UNCHANGED <<spc, waited, left, late, speechAge, cmdAge>>
  BY <1>1 DEF BusyInv
<1>2. ASSUME NEW d \in Devices, Connect(d) \/ Vanish(d) \/ Unblock(d) \/ Notice(d) \/ GiveUp(d)
      PROVE  BusyInv'
  <2>1. UNCHANGED Server
    BY <1>2, BaseHeld, DeviceMoves DEF BaseInv
  <2> QED
    BY <2>1, <1>1 DEF Server, session, policy
<1>3. CASE Tick
  <2> SUFFICES ASSUME spc' = "busy"
               PROVE  /\ waited' + left' <= late' /\ late' <= waited' + Recog
                      /\ late' <= speechAge' + waited' + left'
                      /\ late' <= cmdAge' + waited' + left'
    BY DEF BusyInv
  <2>1. /\ spc = "busy" /\ waited' = waited /\ left' = left - 1 /\ left > 0 /\ late' = late
        /\ speechAge' = Older(speechAge) /\ cmdAge' = Older(cmdAge)
    BY <1>3 DEF Tick, ServerWaits
  <2>2. /\ waited + left <= late /\ late <= waited + Recog
        /\ late <= speechAge + waited + left /\ late <= cmdAge + waited + left
    BY <2>1 DEF BusyInv
  <2>3. late <= Older(speechAge) + waited + (left - 1) /\ late <= Older(cmdAge) + waited + (left - 1)
    BY <1>t, <2>1, <2>2, OlderEnough
  <2>4. waited + (left - 1) <= late
    BY <1>t, <2>2
  <2> QED
    BY <2>1, <2>2, <2>3, <2>4
<1>4. CASE RecvQuiet /\ Ends
  <2>1. left' \in Recogs /\ late' = waited + left' /\ UNCHANGED <<waited, speechAge, cmdAge>>
    BY <1>4 DEF RecvQuiet, Recv, policy
  <2> DEFINE k == left'
  <2>2. k \in Nat /\ k <= Recog /\ late' = waited + k
    BY <2>1, RecogLongest
  <2> HIDE DEF k
  <2>3. /\ waited + k <= waited + k /\ waited + k <= waited + Recog
        /\ waited + k <= speechAge + waited + k /\ waited + k <= cmdAge + waited + k
    BY <1>t, <2>2
  <2> QED
    BY <2>1, <2>2, <2>3 DEF BusyInv, k
<1>5. CASE ServerActs /\ ~(RecvQuiet /\ Ends)
  <2>1. spc' # "busy"
    BY <1>5 DEF ServerActs, Accept, RecvSounds, RecvQuiet, RecvFinal, RecvClosed, Recognised,
                RecvTimedOut, SessionTick
  <2> QED
    BY <2>1 DEF BusyInv
<1> QED
  BY <1>1, <1>2, <1>3, <1>4, <1>5 DEF Next, DeviceActs, vars

LEMMA WindowStep ==
    ASSUME ServedInv, BaseInv', WindowInv, [Next]_vars
    PROVE  WindowInv'
<1>b. BaseInv
  BY DEF ServedInv
<1>t. /\ waited \in Nat /\ cmdAge \in Nat /\ DebounceMs \in Nat
      /\ waited' \in Nat /\ cmdAge' \in Nat /\ DebounceMs > 0
  BY <1>b, TimedTypes DEF BaseInv, Types
<1>1. CASE UNCHANGED <<spc, cur, known, phase, cmdAge, waited>>
  BY <1>1 DEF WindowInv
<1>2. ASSUME NEW d \in Devices, Connect(d) \/ Vanish(d) \/ Unblock(d) \/ Notice(d) \/ GiveUp(d)
      PROVE  WindowInv'
  <2>1. UNCHANGED Server
    BY <1>2, <1>b, BaseHeld, DeviceMoves DEF BaseInv
  <2> QED
    BY <2>1, <1>1 DEF Server, policy
<1>3. CASE Tick
  <2>1. UNCHANGED <<spc, cur, known, phase>>
    BY <1>3 DEF Tick
  <2> SUFFICES ASSUME spc = "recv", cur \in known PROVE cmdAge' < DebounceMs + waited'
    BY <2>1 DEF WindowInv
  <2>2. waited' = waited + 1 /\ cmdAge' = Older(cmdAge) /\ cmdAge < DebounceMs + waited
    BY <1>3 DEF Tick, WindowInv
  <2>3. cmdAge' \in Nat /\ cmdAge' <= cmdAge + 1
    BY <1>t, <2>2, OlderNat
  <2> QED
    BY <1>t, <2>2, <2>3
<1>4. CASE Accept
  <2>1. /\ backlog # <<>> /\ cur' = Head(backlog) /\ known' = known
    BY <1>4 DEF Accept
  <2>2. Len(backlog) >= 1 /\ Len(backlog) \in Nat /\ Head(backlog) = backlog[1]
    BY <1>b, <2>1, TailOf DEF BaseInv, Types
  <2>3. 1 \in 1 .. Len(backlog)
    BY <2>2
  <2>4. cur' \notin known'
    BY <2>1, <2>2, <2>3 DEF ServedInv, QueueInv
  <2> QED
    BY <2>4 DEF WindowInv
<1>5. ASSUME NEW item, Recv(item), UNCHANGED phase, spc' # "recv" PROVE WindowInv'
  <2>1. UNCHANGED <<cur, known>> /\ spc = "recv"
    BY <1>5 DEF Recv
  <2> QED
    BY <1>5, <2>1 DEF WindowInv
<1>6. CASE RecvQuiet \/ RecvFinal \/ RecvClosed \/ \E item \in {"loud", "noise"} : RecvSounds(item)
  BY <1>5, <1>6 DEF RecvQuiet, RecvFinal, RecvClosed, RecvSounds, Policy!Speech, policy
<1>7. ASSUME NEW command \in BOOLEAN, Recognised(command) PROVE WindowInv'
  <2>1. /\ spc = "busy" /\ spc' = "tick" /\ cur' = cur
        /\ (phase' = "WAITING" \/ (phase' = phase /\ known' = known))
    BY <1>7 DEF Recognised, Policy!Command, policy
  <2> QED
    BY <2>1 DEF WindowInv
<1>8. CASE RecvTimedOut
  BY <1>8 DEF RecvTimedOut, WindowInv, policy
<1>9. CASE SessionTick
  <2> SUFFICES ASSUME spc' # "accept", cur' \in known'
               PROVE  phase' = "WAITING" /\ cmdAge' < DebounceMs + waited'
    BY DEF WindowInv
  <2>1. /\ spc = "tick" /\ Policy!Verdict = "NONE" /\ waited' = 0
        /\ UNCHANGED <<cur, known, phase, cmdAge>>
    BY <1>9 DEF SessionTick, policy
  <2>2. phase = "WAITING"
    BY <2>1 DEF WindowInv
  <2>3. ~(cmdAge >= DebounceMs)
    <3>1. DebounceMs # 0
      BY <1>t
    <3> QED
      BY <2>1, <2>2, <3>1 DEF Policy!Verdict, Policy!Due
  <2> QED
    BY <1>t, <2>1, <2>2, <2>3
<1> QED
  BY <1>1, <1>2, <1>3, <1>4, <1>6, <1>7, <1>8, <1>9 DEF Next, DeviceActs, ServerActs, vars

(* The polls of a device that was accepted in time and has sent its final  *)
(* chunk, against what is ahead of the server: while it recognises, while  *)
(* a further utterance may wait, after a command, and at the timers.       *)
Patient == spc # "accept" /\ cur \in early /\ dev[cur].pc = "drain"

BusyPatience == spc = "busy" => dev[cur].polls + Load(Weight) + waited + left <= Lag + late

LoadPatience ==
    spc # "busy" /\ Weight >= SegHang + 1 => dev[cur].polls + Load(Weight) <= Lag + Recog

WindowPatience ==
    spc # "busy" /\ cur \in known => dev[cur].polls + DebounceMs <= Lag + Longer + cmdAge

TickPatience == spc = "tick" /\ cur \in known => dev[cur].polls < CutDelay

Patience == BusyPatience /\ LoadPatience /\ WindowPatience /\ TickPatience

PatienceInv == Patient => Patience

TimedInv == SpeechInv /\ FinalInv /\ BusyInv /\ WindowInv /\ PatienceInv

(* The numbers that Patience relates. *)
Numbers ==
    /\ cur \in Devices /\ dev[cur].polls \in Nat
    /\ Weight \in Nat /\ Load(Weight) \in Nat
    /\ Weight = (Len(sock[cur]) - Pending) + Spoken
    /\ Spoken \in Nat /\ Spoken <= SegHang
    /\ Len(sock[cur]) \in Nat /\ Len(sock[cur]) <= Window
    /\ complete => Len(sock[cur]) = 0
    /\ Pending \in {0, 1}
    /\ waited \in Nat /\ left \in Nat /\ late \in Nat /\ cmdAge \in Nat
    /\ waited <= RecvTimeout

LEMMA PatientNumbers == SpeechInv /\ FinalInv /\ Patient => Numbers
<1> SUFFICES ASSUME SpeechInv, FinalInv, Patient PROVE Numbers
  OBVIOUS
<1>1. BaseInv /\ spc # "accept" /\ dev[cur].pc = "drain"
  BY DEF SpeechInv, ServedInv, Patient
<1>2. /\ waited \in Nat /\ left \in Nat /\ late \in Nat /\ cmdAge \in Nat
      /\ waited <= RecvTimeout /\ cur \in Devices
  BY <1>1, TimedTypes
<1>3. /\ complete => Len(sock[cur]) = 0
      /\ Weight \in Nat /\ Len(sock[cur]) \in Nat /\ Spoken \in Nat /\ Spoken <= SegHang
      /\ Pending \in {0, 1} /\ Weight = (Len(sock[cur]) - Pending) + Spoken
  BY <1>1, WeightOf
<1>4. Load(Weight) \in Nat
  BY <1>3, LoadOf
<1>5. Len(sock[cur]) <= Window /\ dev[cur].polls \in Nat
  BY <1>1, <1>2 DEF BaseInv, DevicesInv, DeviceInv, Types, DeviceRecord
<1> QED
  BY <1>2, <1>3, <1>4, <1>5 DEF Numbers

(* The constants that Patience relates. *)
LEMMA PatienceConstants ==
    /\ Lag \in Nat /\ Longer \in Nat /\ Longer >= Recog /\ Longer >= DebounceMs
    /\ CutDelay = Lag + Longer + RecvTimeout
    /\ Recog \in Nat /\ DebounceMs \in Nat /\ RecvTimeout \in Nat /\ SegHang \in Nat /\ Window \in Nat
    /\ RecvTimeout > 0
  BY LoadOf, LongerOf, Constants, RecogLongest

(* The final chunk enters the buffers. *)
LEMMA PatienceBegins ==
    SpeechInv /\ FinalInv /\ BusyInv /\ Patient /\ dev[cur].polls = 0 => Patience
<1> SUFFICES ASSUME SpeechInv, FinalInv, BusyInv, Patient, dev[cur].polls = 0 PROVE Patience
  OBVIOUS
<1>n. Numbers
  BY PatientNumbers
<1> DEFINE w == Weight
           v == Window - 1
<1>1. /\ w \in Nat /\ v \in Nat /\ Load(w) \in Nat /\ Load(v) \in Nat /\ Lag = Load(v)
      /\ Load(v + (SegHang + 1)) = Load(v) + Recog
  BY <1>n, LoadOf DEF Numbers
<1>2. w <= v + Spoken
  <2>1. /\ w = (Len(sock[cur]) - Pending) + Spoken /\ Len(sock[cur]) <= Window
        /\ (complete => Len(sock[cur]) = 0) /\ (~complete => Pending = 1) /\ (complete => Pending = 0)
        /\ Len(sock[cur]) \in Nat /\ Spoken \in Nat
    BY <1>n DEF Numbers, Pending
  <2>2. Window \in Nat /\ Window > 0
    BY Constants
  <2> HIDE DEF w
  <2> QED
    BY <2>1, <2>2
<1> HIDE DEF w, v
<1>3. Spoken \in Nat /\ Spoken <= SegHang /\ SegHang \in Nat
  BY <1>n, PatienceConstants DEF Numbers
<1>4. BusyPatience
  <2> SUFFICES ASSUME spc = "busy" PROVE 0 + Load(w) + waited + left <= Lag + late
    BY DEF BusyPatience, w
  <2>1. Spoken = 0
    BY DEF SpeechInv, SilentInv, Spoken
  <2>2. w <= v
    BY <1>1, <1>2, <2>1
  <2>3. Load(w) <= Load(v)
    BY <1>1, <2>2, LoadOf
  <2>4. waited + left <= late /\ waited \in Nat /\ left \in Nat /\ late \in Nat
    BY <1>n DEF BusyInv, Numbers
  <2>5. Load(w) \in Nat /\ Lag \in Nat /\ Load(w) <= Lag
    BY <1>1, <2>3
  <2> QED
    BY <2>4, <2>5
<1>5. LoadPatience
  <2>1. w <= v + (SegHang + 1) /\ v + (SegHang + 1) \in Nat
    BY <1>1, <1>2, <1>3
  <2>2. Load(w) <= Load(v) + Recog
    BY <1>1, <2>1, LoadOf
  <2>3. 0 + Load(w) = Load(w)
    BY <1>1
  <2> QED
    BY <1>1, <2>2, <2>3 DEF LoadPatience, w
<1>6. WindowPatience
  <2>1. 0 + DebounceMs <= Lag + Longer + cmdAge
    BY <1>n, PatienceConstants DEF Numbers
  <2> QED
    BY <2>1 DEF WindowPatience
<1>7. TickPatience
  <2>1. 0 < CutDelay
    BY PatienceConstants
  <2> QED
    BY <2>1 DEF TickPatience
<1> QED
  BY <1>4, <1>5, <1>6, <1>7 DEF Patience

(* How a device comes to drain. *)
LEMMA DrainMoves ==
    ASSUME FinalInv, NEW d \in Devices, dev'[d].pc = "drain"
    PROVE  /\ Rests(d) \/ DeviceMove(d) => dev'[d].polls = 0 \/ Rests(d)
           /\ TickMove(d) => dev'[d].polls = 0 \/ Polls(d)
<1>1. dev[d].pc \in {"idle", "stream", "blocked"} => dev[d].polls = 0
  BY DEF FinalInv
<1>2. DeviceMove(d) => dev'[d].polls = 0
  BY <1>1 DEF DeviceMove, Joins, Leaves, GivesUp, Flushes
<1>3. TickMove(d) => dev'[d].polls = 0 \/ Polls(d)
  BY <1>1 DEF TickMove, Captures, Rests
<1> QED
  BY <1>2, <1>3

LEMMA PatienceTick ==
    ASSUME TimedInv, SpeechInv', FinalInv', BusyInv', Tick, Patient'
    PROVE  Patience'
<1>b. BaseInv /\ HeldInv
  BY BaseHeld DEF TimedInv, SpeechInv, ServedInv
<1>1. UNCHANGED <<cur, spc, late, run, complete, early, known>> /\ ServerWaits
  BY DEF Tick
<1>2. cur \in Devices /\ spc # "accept" /\ cur \in early /\ dev'[cur].pc = "drain"
  BY <1>1, <1>b, TimedTypes DEF Patient
<1>3. TickMove(cur)
  BY <1>b, <1>2, BaseHeld, TickMoves DEF BaseInv
<1>4. CASE dev'[cur].polls = 0
  <2>1. (SpeechInv /\ FinalInv /\ BusyInv /\ Patient /\ dev[cur].polls = 0 => Patience)'
    BY PatienceBegins, PTL
  <2> QED
    BY <1>1, <1>4, <2>1
<1>5. CASE Polls(cur)
  <2>1. /\ dev[cur].pc = "drain" /\ dev'[cur].polls = dev[cur].polls + 1
        /\ sock'[cur] = sock[cur]
    BY <1>5 DEF Polls
  <2>2. Patient /\ Numbers /\ Patience
    BY <1>2, <2>1, PatientNumbers DEF Patient, TimedInv, PatienceInv
  <2>3. Weight' = Weight
    BY <1>1, <2>1 DEF Weight, Pending, Spoken
  <2>4. Load(Weight)' = Load(Weight)
    BY <2>3 DEF Load
  <2> DEFINE p == dev[cur].polls
             l == Load(Weight)
  <2>5. p \in Nat /\ l \in Nat /\ waited \in Nat /\ left \in Nat /\ late \in Nat /\ cmdAge \in Nat
    BY <2>2 DEF Numbers
  <2>6. CASE spc = "busy"
    <3>1. left > 0 /\ left' = left - 1 /\ waited' = waited
      BY <1>1, <2>6 DEF ServerWaits, Tick
    <3>2. p + l + waited + left <= Lag + late
      BY <2>2, <2>6 DEF Patience, BusyPatience
    <3> HIDE DEF p, l
    <3>3. (p + 1) + l + waited + (left - 1) <= Lag + late
      BY <2>5, <3>2, PatienceConstants
    <3>4. BusyPatience'
      BY <1>1, <2>1, <2>4, <3>1, <3>3 DEF BusyPatience, p, l
    <3> QED
      BY <1>1, <2>6, <3>4 DEF Patience, LoadPatience, WindowPatience, TickPatience
  <2>7. CASE spc = "recv"
    <3>1. Len(sock[cur]) = 0 /\ waited < RecvTimeout /\ cmdAge' = Older(cmdAge)
      BY <1>1, <2>7 DEF ServerWaits, Tick
    <3>2. Weight <= SegHang
      <4>1. ~complete => Len(sock[cur]) >= 1
        BY <1>2, <2>1, WeightOf DEF TimedInv
      <4>2. complete
        BY <3>1, <4>1
      <4>3. Pending = 0 /\ Weight = (0 - Pending) + Spoken /\ Spoken \in Nat /\ Spoken <= SegHang
        BY <2>2, <3>1, <4>2 DEF Numbers, Pending
      <4> QED
        BY <4>3
    <3>3. LoadPatience'
      <4>1. ~(Weight >= SegHang + 1)
        BY <2>2, <3>2, PatienceConstants DEF Numbers
      <4> QED
        BY <2>3, <4>1 DEF LoadPatience
    <3>4. WindowPatience'
      <4> SUFFICES ASSUME cur \in known PROVE (p + 1) + DebounceMs <= Lag + Longer + cmdAge'
        BY <1>1, <2>1 DEF WindowPatience
      <4>1. cmdAge < DebounceMs + waited
        BY <1>2, <2>7 DEF TimedInv, WindowInv
      <4>2. p + DebounceMs <= Lag + Longer + cmdAge
        BY <2>2, <2>7 DEF Patience, WindowPatience
      <4> DEFINE o == Older(cmdAge)
                 c == Policy!AgeCap
      <4>3. /\ o \in Nat /\ o <= cmdAge + 1 /\ (o = cmdAge + 1 \/ o = c)
            /\ c = DebounceMs + MaxSessionMs + SilenceMs + (RecvTimeout + Recog)
        BY <2>5, OlderNat
      <4>4. /\ MaxSessionMs \in Nat /\ SilenceMs \in Nat /\ RecvTimeout \in Nat /\ Recog \in Nat
            /\ DebounceMs \in Nat /\ Lag \in Nat /\ Longer \in Nat
        BY Constants, PatienceConstants
      <4> HIDE DEF o, c, p
      <4>5. o = cmdAge + 1
        BY <2>5, <3>1, <4>1, <4>3, <4>4
      <4>6. (p + 1) + DebounceMs <= Lag + Longer + o
        BY <2>5, <4>2, <4>4, <4>5
      <4> QED
        BY <3>1, <4>6 DEF o
    <3> QED
      BY <1>1, <2>7, <3>3, <3>4 DEF Patience, BusyPatience, TickPatience
  <2> QED
    BY <1>1, <1>2, <2>6, <2>7 DEF ServerWaits
<1> QED
  BY <1>2, <1>3, <1>4, <1>5, DrainMoves DEF TimedInv

(* The timers are evaluated once recv() returns. *)
LEMMA PatienceRead ==
    ASSUME TimedInv, SpeechInv', FinalInv', Patient, spc = "recv", spc' = "tick",
           UNCHANGED <<dev, cur, cmdAge, known>>, Patient', Weight' <= Weight
    PROVE  Patience'
<1>n. Numbers /\ Patience
  BY PatientNumbers DEF TimedInv, PatienceInv
<1>m. Weight' \in Nat
  <2>1. (SpeechInv /\ FinalInv /\ Patient => Numbers)'
    BY PatientNumbers, PTL
  <2> QED
    BY <2>1 DEF Numbers
<1> DEFINE p == dev[cur].polls
           w == Weight
           u == Weight'
<1>1. /\ p \in Nat /\ w \in Nat /\ u \in Nat /\ u <= w /\ Load(w) \in Nat /\ Load(u) \in Nat
      /\ cmdAge \in Nat /\ waited \in Nat /\ waited <= RecvTimeout
  BY <1>n, <1>m, LoadOf DEF Numbers
<1>2. LoadPatience'
  <2> SUFFICES ASSUME u >= SegHang + 1 PROVE p + Load(u) <= Lag + Recog
    BY DEF LoadPatience, Load
  <2> HIDE DEF u, w, p
  <2>1. w >= SegHang + 1
    BY <1>1, PatienceConstants
  <2>2. p + Load(w) <= Lag + Recog
    BY <1>n, <2>1 DEF Patience, LoadPatience, p, w
  <2>3. Load(u) <= Load(w)
    BY <1>1, LoadOf
  <2> QED
    BY <1>1, <2>2, <2>3, PatienceConstants
<1>3. WindowPatience'
  BY <1>n DEF Patience, WindowPatience
<1>4. TickPatience'
  <2> SUFFICES ASSUME cur \in known PROVE p < CutDelay
    BY DEF TickPatience
  <2>1. cmdAge < DebounceMs + waited
    BY DEF TimedInv, WindowInv
  <2>2. p + DebounceMs <= Lag + Longer + cmdAge
    BY <1>n DEF Patience, WindowPatience
  <2> HIDE DEF p
  <2>3. p < Lag + Longer + RecvTimeout
    BY <1>1, <2>1, <2>2, PatienceConstants
  <2> QED
    BY <2>3, PatienceConstants
<1> QED
  BY <1>2, <1>3, <1>4 DEF Patience, BusyPatience

(* The buffers and the recogniser when the server has read an item. *)
LEMMA WeightRead ==
    ASSUME TimedInv, SpeechInv', FinalInv', Patient, NEW item, Recv(item), Patient'
    PROVE  /\ cur' = cur /\ Pending' \in {0, 1} /\ Pending \in {0, 1}
           /\ Spoken \in Nat /\ Spoken' \in Nat
           /\ Len(sock[cur]) \in Nat /\ Len(sock[cur]) >= 1 /\ ~complete
           /\ Len(sock'[cur]) = Len(sock[cur]) - 1
           /\ Weight = (Len(sock[cur]) - Pending) + Spoken
           /\ Weight' = (Len(sock'[cur]) - Pending') + Spoken'
           /\ Weight \in Nat /\ Weight' \in Nat
<1>1. BaseInv /\ Types /\ cur \in Devices
  BY DEF TimedInv, SpeechInv, ServedInv, BaseInv, ServerBounds, Recv
<1>2. Popped(cur) /\ cur' = cur
  BY <1>1, RecvMoves
<1>3. /\ Len(sock[cur]) \in Nat /\ Len(sock[cur]) >= 1
      /\ Len(sock'[cur]) = Len(sock[cur]) - 1
  BY <1>1, <1>2, TailOf DEF Popped, Types
<1>4. Numbers
  BY PatientNumbers DEF TimedInv
<1>5. Numbers'
  <2>1. (SpeechInv /\ FinalInv /\ Patient => Numbers)'
    BY PatientNumbers, PTL
  <2> QED
    BY <2>1
<1>6. ~complete
  BY <1>3, <1>4 DEF Numbers
<1> QED
  BY <1>2, <1>3, <1>4, <1>5, <1>6 DEF Numbers

LEMMA PatienceSounds ==
    ASSUME TimedInv, SpeechInv', FinalInv', Patient, Patient',
           NEW item \in {"loud", "noise"}, RecvSounds(item)
    PROVE  Patience'
<1>1. /\ Recv(item) /\ spc = "recv" /\ spc' = "tick" /\ run'.in_speech /\ run'.silence_run = 0
      /\ complete' = complete /\ UNCHANGED <<dev, cur, cmdAge, known>>
  BY DEF RecvSounds, Recv, Network, Policy!Speech, policy
<1>2. Spoken' = 1 /\ Pending' = Pending
  BY <1>1 DEF Spoken, Pending
<1> DEFINE n == Len(sock[cur])
           m == Len(sock'[cur])
           q == Pending
           w == Weight
           u == Weight'
           a == Spoken
<1>3. /\ n \in Nat /\ m = n - 1 /\ w = (n - q) + a /\ u = (m - q) + 1 /\ q \in {0, 1} /\ a \in Nat
  BY <1>1, <1>2, WeightRead
<1> HIDE DEF n, m, q, w, u, a
<1>4. u <= w
  BY <1>3
<1> QED
  BY <1>1, <1>4, PatienceRead DEF u, w

LEMMA PatienceQuiet ==
    ASSUME TimedInv, SpeechInv', FinalInv', BusyInv', Patient, Patient', RecvQuiet
    PROVE  Patience'
<1>1. /\ Recv("quiet") /\ spc = "recv"
      /\ complete' = complete /\ UNCHANGED <<dev, cur, cmdAge, known, waited>>
  BY DEF RecvQuiet, Recv, Network, policy
<1>2. Pending' = Pending
  BY <1>1 DEF Pending
<1>t. /\ run \in [in_speech : BOOLEAN, silence_run : Nat] /\ run.silence_run \in Nat
      /\ SegHang \in Nat /\ (run.in_speech => run.silence_run < SegHang)
  BY Constants DEF TimedInv, SpeechInv, ServedInv, BaseInv, Types, QuietInv, HangInv
<1> DEFINE n == Len(sock[cur])
           m == Len(sock'[cur])
           q == Pending
           w == Weight
           u == Weight'
           a == Spoken
           b == Spoken'
<1>3. /\ n \in Nat /\ n >= 1 /\ m = n - 1 /\ w = (n - q) + a /\ u = (m - q) + b /\ q \in {0, 1}
      /\ a \in Nat /\ b \in Nat /\ w \in Nat /\ u \in Nat
  BY <1>1, <1>2, WeightRead
<1>4. CASE Ends
  <2>1. run' = Deaf /\ spc' = "busy" /\ late' = waited + left'
    BY <1>4 DEF RecvQuiet
  <2>2. b = 0
    BY <2>1 DEF Spoken, Deaf
  <2>3. a = SegHang
    BY <1>4, <1>t DEF Ends, Spoken
  <2> HIDE DEF n, m, q, w, u, a, b
  <2>4. w = u + (SegHang + 1) /\ w >= SegHang + 1
    BY <1>3, <1>t, <2>2, <2>3
  <2>5. Load(w) = Load(u) + Recog /\ Load(u) \in Nat
    BY <1>3, <2>4, LoadOf
  <2>6. Numbers /\ Patience
    BY PatientNumbers DEF TimedInv, PatienceInv
  <2> DEFINE p == dev[cur].polls
             lo == Load(u)
             k == left'
  <2>7. p + Load(w) <= Lag + Recog
    BY <1>1, <2>4, <2>6 DEF Patience, LoadPatience, w
  <2>8. p \in Nat /\ lo \in Nat /\ waited \in Nat /\ k \in Nat
    <3>1. left' \in Nat
      BY DEF SpeechInv, ServedInv, BaseInv, Types
    <3> QED
      BY <2>5, <2>6, <3>1 DEF Numbers
  <2>9. p + (lo + Recog) <= Lag + Recog
    BY <2>5, <2>7
  <2> HIDE DEF p, lo, k
  <2>10. p + lo + waited + k <= Lag + (waited + k)
    BY <2>8, <2>9, PatienceConstants
  <2>11. dev'[cur'].polls = p /\ Load(Weight)' = lo /\ left' = k /\ waited' = waited /\ late' = waited + k
    BY <1>1, <2>1 DEF p, lo, k, u, Load
  <2>12. BusyPatience'
    BY <2>10, <2>11 DEF BusyPatience
  <2> QED
    BY <2>1, <2>12 DEF Patience, LoadPatience, WindowPatience, TickPatience
<1>5. CASE ~Ends
  <2>1. spc' = "tick" /\ run' = IF run.in_speech THEN [run EXCEPT !.silence_run = @ + 1] ELSE run
    BY <1>5 DEF RecvQuiet
  <2>2. b <= a + 1
    <3>1. CASE run.in_speech
      <4>1. run'.silence_run = run.silence_run + 1 /\ run'.in_speech
        BY <2>1, <3>1, <1>t
      <4> QED
        BY <3>1, <4>1, <1>t DEF Spoken
    <3>2. CASE ~run.in_speech
      BY <2>1, <3>2 DEF Spoken
    <3> QED
      BY <3>1, <3>2
  <2> HIDE DEF n, m, q, w, u, a, b
  <2>3. u <= w
    BY <1>3, <2>2
  <2> QED
    BY <1>1, <2>1, <2>3, PatienceRead DEF u, w
<1> QED
  BY <1>4, <1>5

LEMMA PatienceFinal ==
    ASSUME TimedInv, SpeechInv', FinalInv', Patient, Patient', RecvFinal
    PROVE  Patience'
<1>1. /\ Recv("final") /\ spc = "recv" /\ spc' = "tick" /\ run' = run
      /\ complete' = TRUE /\ UNCHANGED <<dev, cur, cmdAge, known>>
  BY DEF RecvFinal, Recv, Network, policy
<1>2. Spoken' = Spoken /\ Pending' = 0
  BY <1>1 DEF Spoken, Pending
<1>3. ~complete
  BY <1>1, WeightRead
<1>4. Pending = 1
  BY <1>3 DEF Pending
<1> DEFINE n == Len(sock[cur])
           m == Len(sock'[cur])
           w == Weight
           u == Weight'
           a == Spoken
<1>5. /\ n \in Nat /\ m = n - 1 /\ w = (n - 1) + a /\ u = (m - 0) + a /\ a \in Nat
  BY <1>1, <1>2, <1>4, WeightRead
<1> HIDE DEF n, m, w, u, a
<1>6. u <= w
  BY <1>5
<1> QED
  BY <1>1, <1>6, PatienceRead DEF u, w

LEMMA PatienceRecognised ==
    ASSUME TimedInv, Patient, NEW command \in BOOLEAN, Recognised(command)
    PROVE  Patience'
<1>1. /\ spc = "busy" /\ spc' = "tick" /\ left = 0
      /\ UNCHANGED <<dev, sock, cur, run, complete>>
  BY DEF Recognised, Network, session
<1>2. Numbers /\ Patience /\ BusyInv
  BY PatientNumbers DEF TimedInv, PatienceInv
<1>3. Weight' = Weight
  BY <1>1 DEF Weight, Pending, Spoken
<1>4. Load(Weight)' = Load(Weight)
  BY <1>3 DEF Load
<1> DEFINE p == dev[cur].polls
           l == Load(Weight)
           c == cmdAge'
<1>5. /\ p \in Nat /\ l \in Nat /\ waited \in Nat /\ late \in Nat /\ cmdAge \in Nat /\ speechAge \in Nat
  BY <1>2 DEF Numbers, TimedInv, SpeechInv, ServedInv, BaseInv, Types
<1>6. p + l + waited + 0 <= Lag + late /\ late <= waited + Recog
  BY <1>1, <1>2 DEF Patience, BusyPatience, BusyInv
<1>7. late <= speechAge + waited + 0 /\ late <= cmdAge + waited + 0
  BY <1>1, <1>2 DEF BusyInv
<1>8. c \in Nat /\ late <= c + waited
  <2>1. CASE command
    <3>1. c = UpTo(speechAge, late)
      BY <2>1 DEF Recognised, Policy!Command
    <3>2. c \in Nat /\ (c = speechAge \/ c = late)
      BY <1>5, <3>1, UpToBounds
    <3> HIDE DEF c
    <3> QED
      BY <1>5, <1>7, <3>2
  <2>2. CASE ~command
    <3>1. c = cmdAge
      BY <2>2 DEF Recognised, policy
    <3> HIDE DEF c
    <3> QED
      BY <1>5, <1>7, <3>1
  <2> QED
    BY <2>1, <2>2
<1> HIDE DEF p, l, c
<1>9. p + l <= Lag + Recog
  BY <1>5, <1>6, PatienceConstants
<1>10. p + DebounceMs <= Lag + Longer + c
  BY <1>5, <1>6, <1>8, PatienceConstants
<1>11. p < CutDelay
  <2>1. p < Lag + Longer + RecvTimeout
    BY <1>5, <1>6, PatienceConstants
  <2> QED
    BY <2>1, PatienceConstants
<1>12. LoadPatience'
  BY <1>1, <1>4, <1>9 DEF LoadPatience, p, l
<1>13. WindowPatience' /\ TickPatience'
  BY <1>1, <1>10, <1>11 DEF WindowPatience, TickPatience, p, c
<1> QED
  BY <1>1, <1>12, <1>13 DEF Patience, BusyPatience

(* What else leaves the polls and the buffers alone. *)
LEMMA PatienceRests ==
    ASSUME TimedInv, Patient', dev'[cur] = dev[cur], sock'[cur] = sock[cur],
           UNCHANGED <<cur, run, complete, cmdAge, known, early>>,
           \/ UNCHANGED <<spc, waited, left, late>>
           \/ spc = "tick" /\ spc' = "recv"
    PROVE  Patience'
<1>1. Patient
  BY DEF Patient
<1>2. Patience
  BY <1>1 DEF TimedInv, PatienceInv
<1>3. Weight' = Weight
  BY DEF Weight, Pending, Spoken
<1>4. Load(Weight)' = Load(Weight)
  BY <1>3 DEF Load
<1>5. CASE UNCHANGED <<spc, waited, left, late>>
  BY <1>2, <1>3, <1>4, <1>5
     DEF Patience, BusyPatience, LoadPatience, WindowPatience, TickPatience
<1>6. CASE spc = "tick" /\ spc' = "recv"
  BY <1>2, <1>3, <1>4, <1>6
     DEF Patience, BusyPatience, LoadPatience, WindowPatience, TickPatience
<1> QED
  BY <1>5, <1>6

LEMMA PatienceStep ==
    ASSUME TimedInv, SpeechInv', FinalInv', BusyInv', [Next]_vars
    PROVE  PatienceInv'
<1>b. BaseInv /\ HeldInv
  BY BaseHeld DEF TimedInv, SpeechInv, ServedInv
<1> SUFFICES ASSUME Patient' PROVE Patience'
  BY DEF PatienceInv
<1>0. CASE UNCHANGED vars
  BY <1>0, PatienceRests DEF vars
<1>1. ASSUME NEW d \in Devices, Connect(d) \/ Vanish(d) \/ Unblock(d) \/ Notice(d) \/ GiveUp(d)
      PROVE  Patience'
  <2>1. UNCHANGED Server /\ \A e \in Devices : Rests(e) \/ DeviceMove(e)
    BY <1>1, <1>b, DeviceMoves DEF BaseInv
  <2>2. UNCHANGED <<cur, spc, waited, left, late, run, complete, cmdAge, known, early>>
    BY <2>1 DEF Server, session, policy
  <2>3. cur \in Devices /\ dev'[cur].pc = "drain"
    BY <2>2, <1>b, TimedTypes DEF Patient
  <2>4. CASE dev'[cur].polls = 0
    <3>1. (SpeechInv /\ FinalInv /\ BusyInv /\ Patient /\ dev[cur].polls = 0 => Patience)'
      BY PatienceBegins, PTL
    <3> QED
      BY <2>2, <2>4, <3>1
  <2>5. CASE Rests(cur)
    BY <2>2, <2>5, PatienceRests DEF Rests
  <2> QED
    BY <2>1, <2>3, <2>4, <2>5, DrainMoves DEF TimedInv
<1>2. CASE Tick
  BY <1>2, PatienceTick
<1>3. CASE Accept
  <2>1. /\ backlog # <<>> /\ cur' = Head(backlog) /\ dev' = dev
        /\ early' = IF dev[cur'].pc \in {"stream", "blocked"} THEN early \cup {cur'} ELSE early
    BY <1>3 DEF Accept, Network
  <2>2. Len(backlog) >= 1 /\ Len(backlog) \in Nat /\ Head(backlog) = backlog[1]
    BY <1>b, <2>1, TailOf DEF BaseInv, Types
  <2>3. 1 \in 1 .. Len(backlog)
    BY <2>2
  <2>4. cur' \notin early
    BY <2>1, <2>2, <2>3 DEF TimedInv, SpeechInv, ServedInv, QueueInv
  <2>5. dev'[cur'].pc # "drain"
    BY <2>1, <2>4 DEF Patient
  <2> QED
    BY <2>5 DEF Patient
<1>4. ASSUME spc # "accept", dev' = dev, UNCHANGED <<cur, early>>
      PROVE  Patient
  BY <1>4 DEF Patient
<1>5. ASSUME NEW item \in {"loud", "noise"}, RecvSounds(item) PROVE Patience'
  <2>1. spc # "accept" /\ dev' = dev /\ UNCHANGED <<cur, early>>
    BY <1>5 DEF RecvSounds, Recv, Network
  <2> QED
    BY <1>4, <1>5, <2>1, PatienceSounds
<1>6. CASE RecvQuiet
  <2>1. spc # "accept" /\ dev' = dev /\ UNCHANGED <<cur, early>>
    BY <1>6 DEF RecvQuiet, Recv, Network
  <2> QED
    BY <1>4, <1>6, <2>1, PatienceQuiet
<1>7. CASE RecvFinal
  <2>1. spc # "accept" /\ dev' = dev /\ UNCHANGED <<cur, early>>
    BY <1>7 DEF RecvFinal, Recv, Network
  <2> QED
    BY <1>4, <1>7, <2>1, PatienceFinal
<1>8. CASE RecvClosed
  BY <1>8 DEF RecvClosed, Patient
<1>9. ASSUME NEW command \in BOOLEAN, Recognised(command) PROVE Patience'
  <2>1. spc # "accept" /\ dev' = dev /\ UNCHANGED <<cur, early>>
    BY <1>9 DEF Recognised, Network
  <2> QED
    BY <1>4, <1>9, <2>1, PatienceRecognised
<1>10. CASE RecvTimedOut
  <2>1. /\ spc = "recv" /\ spc' = "tick"
        /\ UNCHANGED <<dev, sock, cur, run, complete, cmdAge, known, early>>
    BY <1>10 DEF RecvTimedOut, Network, session, policy
  <2>2. Patient
    BY <1>4, <2>1
  <2>3. Weight' = Weight
    BY <2>1 DEF Weight, Pending, Spoken
  <2>4. Weight \in Nat
    BY <2>2, PatientNumbers DEF TimedInv, Numbers
  <2>5. Weight' <= Weight
    BY <2>3, <2>4
  <2> QED
    BY <2>1, <2>2, <2>5, PatienceRead
<1>11. CASE SessionTick
  <2>1. /\ spc = "tick" /\ spc' = "recv"
        /\ UNCHANGED <<dev, sock, cur, run, complete, cmdAge, known, early>>
    BY <1>11 DEF SessionTick, Network, session, policy, Patient
  <2> QED
    BY <2>1, PatienceRests
<1> QED
  BY <1>0, <1>1, <1>2, <1>3, <1>5, <1>6, <1>7, <1>8, <1>9, <1>10, <1>11
     DEF Next, DeviceActs, ServerActs

LEMMA InitTimed == Init => TimedInv
<1> SUFFICES ASSUME Init PROVE TimedInv
  OBVIOUS
<1>1. SpeechInv
  BY InitSpeech
<1>2. spc = "accept" /\ cur = None /\ complete = FALSE
  BY DEF Init
<1>3. ASSUME NEW d \in Devices
      PROVE  sock[d] = <<>> /\ dev[d].pc = "idle" /\ dev[d].polls = 0
  BY DEF Init, Fresh
<1>4. None \notin Devices
  BY Constants
<1>5. FinalInv
  BY <1>2, <1>3, <1>4 DEF FinalInv
<1> QED
  BY <1>1, <1>2, <1>5 DEF TimedInv, BusyInv, WindowInv, PatienceInv, Patient

LEMMA TimedStep == TimedInv /\ [Next]_vars => TimedInv'
<1> SUFFICES ASSUME TimedInv, [Next]_vars PROVE TimedInv'
  OBVIOUS
<1>1. SpeechInv' /\ FinalInv'
  BY SpeechStep, FinalStep DEF TimedInv
<1>2. ServedInv /\ BaseInv /\ BaseInv'
  BY <1>1 DEF TimedInv, SpeechInv, ServedInv
<1>3. BusyInv' /\ WindowInv'
  BY <1>2, BusyStep, WindowStep DEF TimedInv
<1>4. PatienceInv'
  BY <1>1, <1>3, PatienceStep
<1> QED
  BY <1>1, <1>3, <1>4 DEF TimedInv

(* A device that waits for the cut after a command has not waited longer   *)
(* than CutDelay.                                                          *)
LEMMA WaitsLess ==
    ASSUME TimedInv, Patient, cur \in known
    PROVE  dev[cur].polls < CutDelay
<1>1. Numbers /\ Patience /\ BusyInv
  BY PatientNumbers DEF TimedInv, PatienceInv
<1> DEFINE p == dev[cur].polls
           l == Load(Weight)
<1>2. /\ p \in Nat /\ l \in Nat /\ waited \in Nat /\ left \in Nat /\ late \in Nat /\ cmdAge \in Nat
      /\ waited <= RecvTimeout
  BY <1>1 DEF Numbers
<1>3. spc \in {"recv", "busy", "tick"}
  BY DEF Patient, TimedInv, SpeechInv, ServedInv, BaseInv, Types
<1>4. CASE spc = "tick"
  BY <1>1, <1>4 DEF Patience, TickPatience
<1>5. CASE spc = "busy"
  <2>1. p + l + waited + left <= Lag + late /\ late <= waited + Recog
    BY <1>1, <1>5 DEF Patience, BusyPatience, BusyInv
  <2> HIDE DEF p, l
  <2>2. p < Lag + Longer + RecvTimeout
    BY <1>2, <2>1, PatienceConstants
  <2> QED
    BY <2>2, PatienceConstants DEF p
<1>6. CASE spc = "recv"
  <2>1. p + DebounceMs <= Lag + Longer + cmdAge /\ cmdAge < DebounceMs + waited
    BY <1>1, <1>6 DEF Patience, WindowPatience, TimedInv, WindowInv
  <2> HIDE DEF p, l
  <2>2. p < Lag + Longer + RecvTimeout
    BY <1>2, <2>1, PatienceConstants
  <2> QED
    BY <2>2, PatienceConstants DEF p
<1> QED
  BY <1>3, <1>4, <1>5, <1>6

LEMMA CutStep == TimedInv /\ CommandIsCut /\ [Next]_vars => CommandIsCut'
<1> SUFFICES ASSUME TimedInv, CommandIsCut, [Next]_vars,
                    drain' >= CutDelay, NEW d \in early' \cap known'
             PROVE  dev'[d].result # "SESSION_TIMEOUT"
  BY DEF CommandIsCut, CutDelay, Lag
<1>b. /\ BaseInv /\ HeldInv /\ QueueInv /\ drain' = drain
      /\ \A e \in Devices : Moves(e)
  BY BaseHeld, Moving DEF TimedInv, SpeechInv, ServedInv
<1>1. CASE d \in early \cap known
  <2>1. d \in Devices /\ dev[d].result # "SESSION_TIMEOUT"
    BY <1>1, <1>b DEF CommandIsCut, BaseInv, Types
  <2>2. ~GivesUp(d)
    <3> SUFFICES ASSUME GivesUp(d) PROVE FALSE
      OBVIOUS
    <3>1. dev[d].pc = "drain" /\ dev[d].polls >= drain /\ d \notin closed
      BY DEF GivesUp
    <3>2. d = cur /\ spc # "accept"
      BY <1>1, <1>b, <3>1 DEF QueueInv
    <3>3. dev[d].polls < CutDelay
      BY <1>1, <3>1, <3>2, WaitsLess DEF Patient
    <3>4. dev[d].polls \in Nat /\ drain \in Nat /\ CutDelay \in Nat
      BY <1>b, <2>1, Constants, PatienceConstants DEF BaseInv, Types, DeviceRecord
    <3> QED
      BY <1>b, <3>1, <3>3, <3>4
  <2>3. Moves(d)
    BY <1>b, <2>1
  <2> QED
    BY <2>1, <2>2, <2>3
       DEF Moves, DeviceMove, TickMove, Rests, Joins, Leaves, Flushes, Captures, Polls, Popped
<1>2. CASE d \notin early \cap known
  <2>1. ASSUME NEW e \in Devices, Connect(e) \/ Vanish(e) \/ Unblock(e) \/ Notice(e) \/ GiveUp(e)
        PROVE  FALSE
    <3>1. UNCHANGED Server
      BY <2>1, <1>b, DeviceMoves DEF BaseInv
    <3> QED
      BY <1>2, <3>1 DEF Server
  <2>2. ~Tick /\ ~UNCHANGED vars
    BY <1>2 DEF Tick, vars
  <2>3. ServerActs
    BY <2>1, <2>2 DEF Next, DeviceActs
  <2>4. dev' = dev /\ dev[d].pc # "done"
    BY <1>2, <2>3 DEF ServerActs, Accept, RecvSounds, RecvQuiet, RecvFinal, RecvClosed, Recognised,
                      RecvTimedOut, SessionTick, Recv, Network, Active
  <2>5. d \in Devices
    <3>1. BaseInv'
      BY <1>b, BaseStep
    <3> QED
      BY <3>1 DEF BaseInv, Types
  <2> QED
    BY <1>b, <2>4, <2>5 DEF BaseInv, DevicesInv, DeviceInv
<1> QED
  BY <1>1, <1>2

(* stream_client.c:74-82, app_main.c:122: for every size of the buffers,   *)
(* every window and every length of a recognition and of a timeout, if the *)
(* drain budget covers CutDelay, a device that the server accepted before  *)
(* its audio ended, and of which it recognised a command, does not give up *)
(* before the cut.                                                         *)
THEOREM CommandsAreCut == Spec => []CommandIsCut
<1>1. Init => CommandIsCut
  BY DEF Init, CommandIsCut
<1> QED
  BY <1>1, InitTimed, TimedStep, CutStep, PTL DEF Spec
=============================================================================
