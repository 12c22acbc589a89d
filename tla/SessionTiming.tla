---------------------------- MODULE SessionTiming ----------------------------
(***************************************************************************)
(* Devices and the server in time.  The server (server/src/main.c) accepts *)
(* one connection at a time; the others wait in the listen backlog, while  *)
(* their devices already stream into the kernel's buffers and block when   *)
(* these are full: the device's sockets have no send timeout.  A device    *)
(* (stream_client.c, mic_i2s.c) streams until silence or its cap, sends    *)
(* the final chunk and waits for the cut for a number of polls.            *)
(*                                                                         *)
(* Time is counted in frames; whatever takes no time happens before the    *)
(* next tick.  The cut timer is its abstract policy, CutPolicy, which      *)
(* ServerConn is shown to implement.                                       *)
(*                                                                         *)
(* A frame is two things to the two sides.  The device takes it for speech *)
(* or not (a mean of 300 or more).  The server hears it as "loud" (a mean  *)
(* above 500), as "noise" (not loud, but with samples above the            *)
(* recogniser's threshold) or as "quiet".  Any combination can happen: a   *)
(* mean between the two thresholds, loud samples in a frame of silence,    *)
(* and a frame that recv() cut in the middle of a sample, which the server *)
(* misreads (see SamplesIntact of HttpIngest) and may hear as anything.    *)
(* Such a cut spoils its own chunk only, so what the server will hear is   *)
(* chosen with the frame.                                                  *)
(*                                                                         *)
(* Resets that overtake an answer are the subject of StreamClient and left *)
(* out: "CLOSED" stands for every way in which a device notices the        *)
(* server's close.                                                         *)
(***************************************************************************)
EXTENDS Integers, Sequences, FiniteSets, Functions

CONSTANTS
    Devices,
    None,
    Sounds,             \* the frames each device may capture
    Backlog,            \* the argument of listen()
    Window,             \* frames the buffers of a connection hold
    HangFrames,         \* mic_source_t.hang_frames
    MaxFrames,          \* mic_source_t.max_frames
    Drains,             \* the drain budgets to consider, as time
    SegHang,            \* hang_samples of the recogniser, in frames
    Recogs,             \* how long a recognition may take
    RecvTimeout,        \* SO_RCVTIMEO of the server
    DebounceMs, MaxSessionMs, SilenceMs

Maximum(S) == CHOOSE x \in S : \A y \in S : x >= y

Recog == Maximum(Recogs)

(* The device's energy test of a frame, and what the server hears. *)
FrameKinds == [speech : BOOLEAN, heard : {"loud", "noise", "quiet"}]

ASSUME TimingAssumption ==
    /\ IsFiniteSet(Devices) /\ None \notin Devices
    /\ Sounds \in [Devices -> SUBSET FrameKinds]
    /\ {Backlog, Window, HangFrames, MaxFrames, SegHang, RecvTimeout} \subseteq Nat \ {0}
    /\ Drains \subseteq Nat /\ Recogs \subseteq Nat
    /\ \E longest \in Recogs : \A r \in Recogs : longest >= r
    /\ {DebounceMs, MaxSessionMs, SilenceMs} \subseteq Nat \ {0}

VARIABLES
    drain,      \* the drain budget
    dev,        \* the devices
    sock,       \* what each connection's buffers hold for the server
    closed,     \* connections the server has closed
    backlog,    \* connections waiting for accept()
    cur,        \* the connection being served
    spc,        \* where the server is
    waited,     \* time spent in recv() since the clock was read
    left,       \* time the recognition still takes
    late,       \* how old the reading of the clock will be then
    run,        \* the recogniser's in_speech and silence_run
    complete,   \* the final chunk was read
    phase, reason, sessionAge, speechAge, cmdAge,   \* as in CutPolicy
    early,      \* history: accepted before the device had finished
    known       \* history: a command was recognised while the device was there

policy == <<phase, reason, sessionAge, speechAge, cmdAge>>
session == <<run, complete, left, late>>
vars == <<drain, dev, sock, closed, backlog, cur, spc, waited, left, late, run,
          complete, phase, reason, sessionAge, speechAge, cmdAge, early, known>>

Policy == INSTANCE CutPolicy WITH Slack <- RecvTimeout + Recog

Deaf == [in_speech |-> FALSE, silence_run |-> 0]

Fresh == [pc |-> "idle", speech_seen |-> FALSE, silence_run |-> 0, total_frames |-> 0,
          polls |-> 0, held |-> "none", result |-> "NONE", clean |-> TRUE, agreed |-> TRUE]

Init ==
    /\ drain \in Drains
    /\ dev = [d \in Devices |-> Fresh]
    /\ sock = [d \in Devices |-> <<>>]
    /\ closed = {}
    /\ backlog = <<>>
    /\ cur = None
    /\ spc = "accept"
    /\ waited = 0
    /\ left = 0
    /\ late = 0
    /\ run = Deaf
    /\ complete = FALSE
    /\ Policy!Init
    /\ early = {}
    /\ known = {}

-----------------------------------------------------------------------------
(* The devices *)

Active(d) == dev[d].pc \in {"stream", "blocked", "drain"}

Server == <<closed, cur, spc, waited, session, policy, early, known>>

(* connect() succeeds when the kernel queues the connection, which does    *)
(* not mean that the server has accepted it.                               *)
Connect(d) ==
    /\ dev[d].pc = "idle"
    /\ IF Len(backlog) < Backlog
       THEN /\ dev' = [dev EXCEPT ![d].pc = "stream"]
            /\ backlog' = Append(backlog, d)
       ELSE /\ dev' = [dev EXCEPT ![d].pc = "done", ![d].result = "CONNECT_FAILED"]
            /\ UNCHANGED backlog
    /\ UNCHANGED <<drain, sock, Server>>

Room(d) == Len(sock[d]) < Window

(* mic_src_read takes a frame and applies the device's energy test. *)
Heard(dv, frame) ==
    [dv EXCEPT !.speech_seen = @ \/ frame.speech,
               !.silence_run = IF frame.speech THEN 0 ELSE @ + 1,
               !.total_frames = @ + 1]

(* mic_src_read returns 0: the hard cap, or trailing silence after speech. *)
Stops(dv) ==
    \/ dv.total_frames >= MaxFrames
    \/ dv.speech_seen /\ dv.silence_run >= HangFrames

(* What is to be sent: the frame, as the server will hear it, or instead   *)
(* of the frame at which the stream stops the final chunk.                 *)
Item(d, frame) == IF Stops(Heard(dev[d], frame)) THEN "final" ELSE frame.heard

(* tr_send: the item is taken, or the device blocks with it. *)
Trying(dv, item, taken) ==
    [dv EXCEPT !.pc = IF ~taken THEN "blocked" ELSE IF item = "final" THEN "drain" ELSE "stream",
               !.held = IF taken THEN "none" ELSE item]

UpTo(limit, x) == IF x < limit THEN x ELSE limit

(* The histories of a device that goes on with `item`: no frame is heard   *)
(* as noise, and all those of its present silence are heard as quiet.      *)
Noted(dv, frame, item) ==
    [dv EXCEPT !.clean = @ /\ item # "noise",
               !.agreed = frame.speech \/ (@ /\ item \in {"quiet", "final"})]

(* A tick: a streaming device captures and sends a frame, a draining one   *)
(* polls, a blocked one waits.                                             *)
DeviceTick(d, frame) ==
    CASE dev[d].pc = "stream" ->
            Trying(Noted(Heard(dev[d], frame), frame, Item(d, frame)), Item(d, frame), Room(d))
      [] dev[d].pc = "drain" -> [dev[d] EXCEPT !.polls = @ + 1]
      [] OTHER -> dev[d]

SockTick(d, frame) ==
    IF dev[d].pc = "stream" /\ Room(d) THEN Append(sock[d], Item(d, frame)) ELSE sock[d]

(* The buffers have room again: send() returns. *)
Unblock(d) ==
    /\ dev[d].pc = "blocked"
    /\ d \notin closed
    /\ Room(d)
    /\ dev' = [dev EXCEPT ![d] = Trying(@, @.held, TRUE)]
    /\ sock' = [sock EXCEPT ![d] = Append(@, dev[d].held)]
    /\ UNCHANGED <<drain, backlog, Server>>

(* poll_close, or a send that fails: the server has closed. *)
Notice(d) ==
    /\ Active(d)
    /\ d \in closed
    /\ dev' = [dev EXCEPT ![d].pc = "done", ![d].result = "CLOSED"]
    /\ UNCHANGED <<drain, sock, backlog, Server>>

(* Mutant: the polls come out of the budget of the stream. *)
GiveUp_SharedBudget(d) ==
    /\ dev[d].pc = "drain"
    /\ d \notin closed
    /\ dev[d].polls + dev[d].total_frames >= drain
    /\ dev' = [dev EXCEPT ![d].pc = "done", ![d].result = "SESSION_TIMEOUT"]
    /\ sock' = [sock EXCEPT ![d] = Append(@, "FIN")]
    /\ UNCHANGED <<drain, backlog, Server>>

(* The polls are used up: the client returns and the hook closes the socket. *)
GiveUp(d) ==
    /\ dev[d].pc = "drain"
    /\ d \notin closed
    /\ dev[d].polls >= drain
    /\ dev' = [dev EXCEPT ![d].pc = "done", ![d].result = "SESSION_TIMEOUT"]
    /\ sock' = [sock EXCEPT ![d] = Append(@, "FIN")]
    /\ UNCHANGED <<drain, backlog, Server>>

(* The device loses its power or its network: nobody tells the server. *)
Vanish(d) ==
    /\ Active(d)
    /\ dev' = [dev EXCEPT ![d].pc = "done", ![d].result = "GONE"]
    /\ UNCHANGED <<drain, sock, backlog, Server>>

DeviceActs == \E d \in Devices : Unblock(d) \/ Notice(d) \/ GiveUp(d)

-----------------------------------------------------------------------------
(* The server *)

Network == <<drain, dev>>

(* Mutant: the stamp of the last speech is that of the session before. *)
Accept_StaleStamp ==
    /\ spc = "accept"
    /\ backlog # <<>>
    /\ cur' = Head(backlog)
    /\ backlog' = Tail(backlog)
    /\ spc' = "recv"
    /\ waited' = 0
    /\ run' = Deaf
    /\ complete' = FALSE
    /\ phase' = "LISTENING"
    /\ reason' = "NONE"
    /\ sessionAge' = 0
    /\ cmdAge' = 0
    /\ early' = IF dev[cur'].pc \in {"stream", "blocked"} THEN early \cup {cur'} ELSE early
    /\ UNCHANGED <<Network, sock, closed, left, late, known, speechAge>>

(* accept() and session_init. *)
Accept ==
    /\ spc = "accept"
    /\ backlog # <<>>
    /\ cur' = Head(backlog)
    /\ backlog' = Tail(backlog)
    /\ spc' = "recv"
    /\ waited' = 0
    /\ run' = Deaf
    /\ complete' = FALSE
    /\ phase' = "LISTENING"
    /\ reason' = "NONE"
    /\ sessionAge' = 0
    /\ speechAge' = 0
    /\ cmdAge' = 0
    /\ early' = IF dev[cur'].pc \in {"stream", "blocked"} THEN early \cup {cur'} ELSE early
    /\ UNCHANGED <<Network, sock, closed, left, late, known>>

(* recv() returns an item. *)
Recv(item) ==
    /\ spc = "recv"
    /\ sock[cur] # <<>>
    /\ Head(sock[cur]) = item
    /\ sock' = [sock EXCEPT ![cur] = Tail(@)]
    /\ UNCHANGED <<Network, closed, backlog, cur, waited, early, known>>

(* Mutant: one frame of silence more. *)
Ends_Late == run.in_speech /\ run.silence_run >= SegHang

(* The utterance is over: the silence has lasted long enough. *)
Ends == run.in_speech /\ run.silence_run + 1 >= SegHang

(* A frame in which the server finds samples above the recogniser's        *)
(* threshold.  If it finds its mean above the session's, it is reported as *)
(* speech with the reading of the clock from before recv().                *)
RecvSounds(item) ==
    /\ Recv(item)
    /\ run' = [in_speech |-> TRUE, silence_run |-> 0]
    /\ spc' = "tick"
    /\ IF item = "loud"
       THEN Policy!Speech /\ speechAge' = UpTo(speechAge, waited)
       ELSE UNCHANGED policy
    /\ UNCHANGED <<complete, left, late>>

(* A frame in which it finds none, which may end an utterance; that is     *)
(* then recognised.                                                        *)
RecvQuiet ==
    /\ Recv("quiet")
    /\ IF Ends
       THEN /\ run' = Deaf
            /\ spc' = "busy"
            /\ left' \in Recogs
            /\ late' = waited + left'
       ELSE /\ run' = IF run.in_speech THEN [run EXCEPT !.silence_run = @ + 1] ELSE run
            /\ spc' = "tick"
            /\ UNCHANGED <<left, late>>
    /\ UNCHANGED <<complete, policy>>

RecvFinal ==
    /\ Recv("final")
    /\ complete' = TRUE
    /\ spc' = "tick"
    /\ UNCHANGED <<run, left, late, policy>>

(* recv() returns 0: the device has closed. *)
RecvClosed ==
    /\ Recv("FIN")
    /\ spc' = "accept"
    /\ UNCHANGED <<session, policy>>

(* The recogniser returns: a transcript with an intent is a command, with  *)
(* the stamp of the frame that ended it.                                   *)
Recognised(command) ==
    /\ spc = "busy"
    /\ left = 0
    /\ spc' = "tick"
    /\ IF command
       THEN Policy!Command /\ speechAge' = UpTo(speechAge, late)
            /\ known' = IF Active(cur) THEN known \cup {cur} ELSE known
       ELSE UNCHANGED <<policy, known>>
    /\ UNCHANGED <<Network, sock, closed, backlog, cur, waited, session, early>>

(* Mutant: a recv() that timed out is tried again. *)
RecvTimedOut_Retried ==
    /\ spc = "recv"
    /\ sock[cur] = <<>>
    /\ waited >= RecvTimeout
    /\ UNCHANGED vars

RecvTimedOut ==
    /\ spc = "recv"
    /\ sock[cur] = <<>>
    /\ waited >= RecvTimeout
    /\ spc' = "tick"
    /\ UNCHANGED <<Network, sock, closed, backlog, cur, waited, session, policy, early, known>>

(* session_tick: a cut is answered and closes the connection. *)
SessionTick ==
    /\ spc = "tick"
    /\ IF Policy!Verdict # "NONE"
       THEN /\ Policy!Cut
            /\ closed' = closed \cup {cur}
            /\ spc' = "accept"
            /\ UNCHANGED waited
       ELSE spc' = "recv" /\ waited' = 0 /\ UNCHANGED <<closed, policy>>
    /\ UNCHANGED <<Network, sock, backlog, cur, session, early, known>>

ServerActs ==
    \/ Accept
    \/ \E item \in {"loud", "noise"} : RecvSounds(item)
    \/ RecvQuiet
    \/ RecvFinal
    \/ RecvClosed
    \/ \E command \in BOOLEAN : Recognised(command)
    \/ RecvTimedOut
    \/ SessionTick

-----------------------------------------------------------------------------
Older(age) == UpTo(Policy!AgeCap, age + 1)

(* The server is in accept(), in recv() or in the recogniser. *)
ServerWaits ==
    \/ spc = "accept" /\ backlog = <<>>
    \/ spc = "recv" /\ sock[cur] = <<>> /\ waited < RecvTimeout
    \/ spc = "busy" /\ left > 0

(* The device has no result of a call to act on. *)
DeviceWaits(d) ==
    /\ Active(d) => d \notin closed
    /\ dev[d].pc = "blocked" => ~Room(d)
    /\ dev[d].pc = "drain" => dev[d].polls < drain

(* Time passes when nobody has anything to do at once. *)
Tick ==
    /\ ServerWaits
    /\ \A d \in Devices : DeviceWaits(d)
    /\ \E frame \in {f \in [Devices -> UNION Range(Sounds)] :
                       \A d \in Devices : f[d] \in Sounds[d]} :
          /\ dev' = [d \in Devices |-> DeviceTick(d, frame[d])]
          /\ sock' = [d \in Devices |-> SockTick(d, frame[d])]
    /\ waited' = IF spc = "recv" THEN waited + 1 ELSE waited
    /\ left' = IF spc = "busy" THEN left - 1 ELSE left
    /\ IF spc = "accept" THEN UNCHANGED <<sessionAge, speechAge, cmdAge>>
       ELSE /\ sessionAge' = Older(sessionAge)
            /\ speechAge' = Older(speechAge)
            /\ cmdAge' = Older(cmdAge)
    /\ UNCHANGED <<drain, closed, backlog, cur, spc, late, run, complete, phase, reason,
                   early, known>>

Next ==
    \/ \E d \in Devices : Connect(d) \/ Vanish(d)
    \/ DeviceActs
    \/ ServerActs
    \/ Tick

Spec == Init /\ [][Next]_vars

(* Time passes, and the server and the devices that are there go on. *)
FairSpec == Spec /\ WF_vars(DeviceActs) /\ WF_vars(ServerActs) /\ WF_vars(Tick)

-----------------------------------------------------------------------------
(* The variables hold values of the program's types. *)
TypeOK ==
    /\ drain \in Drains
    /\ \A d \in Devices :
          /\ dev[d].pc \in {"idle", "stream", "blocked", "drain", "done"}
          /\ dev[d].total_frames \in 0 .. MaxFrames
          /\ dev[d].polls \in 0 .. drain
          /\ Len(sock[d]) <= Window + 1
    /\ closed \subseteq Devices
    /\ backlog \in Seq(Devices) /\ Len(backlog) <= Backlog
    /\ cur \in Devices \cup {None}
    /\ spc \in {"accept", "recv", "busy", "tick"}
    /\ waited \in 0 .. RecvTimeout
    /\ left \in 0 .. Recog

(* The recognitions still ahead when the final chunk enters the buffers,   *)
(* but for the last: the utterances that fit in front of it.               *)
Lag == Recog * ((Window - 1) \div (SegHang + 1))

(* The longest from the end of the audio to the cut after a command: these *)
(* recognitions, then the window or a recognition that outlasts it,        *)
(* noticed at the next timeout.                                            *)
CutDelay == Lag + Maximum({Recog, DebounceMs}) + RecvTimeout

(* stream_client.c:74-82, app_main.c:122: if the drain budget covers that  *)
(* delay, a session in which a command was recognised is ended by the      *)
(* server and not by the device's patience.                                *)
CommandIsCut ==
    drain >= CutDelay =>
        \A d \in early \cap known : dev[d].result # "SESSION_TIMEOUT"

(* mic_i2s.c:156-170, stt_stub.c:45-55: the recogniser has no flush, so an *)
(* utterance is recognised only if the server hears its end.  The silence  *)
(* that ends an utterance is shorter than the one after which the device   *)
(* stops, of which the last frame is not sent.  So if the server heard the *)
(* frames of that silence as quiet, no utterance is open when it has read  *)
(* the final chunk.  One may be open when it did not (noise below the      *)
(* device's threshold, a sample torn by recv()) and when the device        *)
(* stopped at its cap instead.  (With the type invariant.)                 *)
SilenceEndsUtterance ==
    /\ TypeOK
    /\ (/\ HangFrames > SegHang
        /\ complete
        /\ dev[cur].silence_run >= HangFrames
        /\ dev[cur].agreed)
       => ~run.in_speech

(* session.c:48-53, main.c:84-96: a recognition keeps the server from      *)
(* reading, and the timers are evaluated before it reads on.  If the       *)
(* silence limit leaves room for that, a session is not cut for silence    *)
(* while speech waits to be read.                                          *)
NotCutWhileTalking ==
    [][(/\ SilenceMs > SegHang + Recog + RecvTimeout
        /\ phase # "CUT" /\ phase' = "CUT" /\ reason' = "SILENCE"
        /\ dev[cur].clean)
       => \A i \in DOMAIN sock[cur] : sock[cur][i] # "loud"]_vars

(* main.c:157, 180-198, net_socket.c:45-61: every session ends, also of a  *)
(* device that waits in the backlog and is blocked in a send without a     *)
(* timeout, behind devices that vanish or never stop talking; and the      *)
(* server comes back to accept().                                          *)
EverySessionEnds ==
    /\ \A d \in Devices : Active(d) ~> ~Active(d)
    /\ []<>(spc = "accept")

=============================================================================
