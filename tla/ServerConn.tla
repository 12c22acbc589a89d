----------------------------- MODULE ServerConn -----------------------------
(***************************************************************************)
(* One connection of the server: handle_conn (server/src/main.c) running   *)
(* the session pipeline (session.c) and the cut timer (Debounce).          *)
(*                                                                         *)
(* The loop reads the clock, waits in recv for at most RecvTimeout, feeds  *)
(* what came to the parser, and evaluates the timers with a fresh reading. *)
(* Everything fed is stamped with the reading taken before recv; feeding   *)
(* may be slow, since the recogniser runs inside it, so one turn of the    *)
(* loop may spend up to BusyMax outside recv.                              *)
(*                                                                         *)
(* A received buffer is the sequence of what its payload spans amount to:  *)
(* "quiet" (no speech, or a transcript without an intent), "speech",       *)
(* "command" (a transcript that matches an intent), "final" (the           *)
(* terminating chunk) or "bad" (a protocol error).                         *)
(***************************************************************************)
EXTENDS Debounce, SequencesExt

CONSTANTS
    RecvTimeout,    \* SO_RCVTIMEO
    BusyMax,        \* longest time one turn of the loop spends outside recv
    Buffers,        \* what one recv may return
    MaxCommands     \* bound on the commands of one session

ASSUME ConnAssumption ==
    /\ RecvTimeout \in Nat \ {0}
    /\ BusyMax \in Nat
    /\ MaxCommands \in Nat
    /\ Buffers \subseteq Seq({"quiet", "speech", "command", "final", "bad"})
    /\ \A limit \in {DebounceMs, MaxSessionMs, SilenceMs} :
          limit + RecvTimeout + BusyMax < ClockMod     \* 15 s against 49.7 days

VARIABLES
    clk,            \* monotonic_ms()
    spc,            \* where handle_conn is
    now_ms,         \* conn_ctx_t.now_ms
    deb,            \* session_t.deb
    commands,       \* session_t.commands
    pending,        \* what is left of the buffer being fed
    complete,       \* http_ingest_t.complete
    answered,       \* send_cut_response was called
    waited, busy,   \* time spent in recv and outside it since the last evaluation
    sessionAge, speechAge, cmdAge   \* history: as in DebounceTimer

ages == <<sessionAge, speechAge, cmdAge>>

vars == <<clk, spc, now_ms, deb, commands, pending, complete, answered, waited, busy,
          sessionAge, speechAge, cmdAge>>

Gap == waited + busy

MaxGap == RecvTimeout + BusyMax

AgeCap == DebounceMs + MaxSessionMs + SilenceMs + MaxGap

Older(age) == IF age < AgeCap THEN age + 1 ELSE age

(* session_init and http_ingest_init, with the connection accepted. *)
Init ==
    /\ clk \in Stamp
    /\ spc = "sample"
    /\ now_ms = clk
    /\ deb = debounce_init(clk)
    /\ commands = 0
    /\ pending = <<>>
    /\ complete = FALSE
    /\ answered = FALSE
    /\ waited = 0
    /\ busy = 0
    /\ sessionAge = 0
    /\ speechAge = 0
    /\ cmdAge = 0

(* A millisecond passes, in recv or outside it. *)
Tick ==
    /\ spc # "closed"
    /\ \/ spc = "recv" /\ waited < RecvTimeout /\ waited' = waited + 1 /\ UNCHANGED busy
       \/ spc # "recv" /\ busy < BusyMax /\ busy' = busy + 1 /\ UNCHANGED waited
    /\ clk' = (clk + 1) % ClockMod
    /\ sessionAge' = Older(sessionAge)
    /\ speechAge' = Older(speechAge)
    /\ cmdAge' = Older(cmdAge)
    /\ UNCHANGED <<spc, now_ms, deb, commands, pending, complete, answered>>

(* cctx.now_ms = monotonic_ms() *)
Sample ==
    /\ spc = "sample"
    /\ now_ms' = clk
    /\ spc' = "recv"
    /\ UNCHANGED <<clk, deb, commands, pending, complete, answered, waited, busy, ages>>

CommandsIn(buf) == Cardinality({i \in 1 .. Len(buf) : buf[i] = "command"})

(* recv returns data; a parser that is done ignores it. *)
RecvData(buf) ==
    /\ spc = "recv"
    /\ commands + CommandsIn(buf) <= MaxCommands
    /\ pending' = IF complete THEN <<>> ELSE buf
    /\ spc' = "feed"
    /\ UNCHANGED <<clk, now_ms, deb, commands, complete, answered, waited, busy, ages>>

(* Mutant: after a timeout the loop goes straight back to recv. *)
RecvNothing_Continues ==
    /\ spc = "recv"
    /\ spc' = "sample"
    /\ waited' = 0
    /\ busy' = 0
    /\ UNCHANGED <<clk, now_ms, deb, commands, pending, complete, answered, ages>>

(* recv times out (EAGAIN), or is interrupted before that (EINTR). *)
RecvNothing ==
    /\ spc = "recv"
    /\ spc' = "tick"
    /\ UNCHANGED <<clk, now_ms, deb, commands, pending, complete, answered, waited,
                   busy, ages>>

(* The client closed, or a socket error. *)
RecvEnds ==
    /\ spc = "recv"
    /\ spc' = "closed"
    /\ UNCHANGED <<clk, now_ms, deb, commands, pending, complete, answered, waited,
                   busy, ages>>

(* True time since now_ms was read: what a stamp of now_ms is worth. *)
Late == elapsed(clk, now_ms)

(* session_on_pcm on a span whose mean energy is above the threshold. *)
FeedSpeech ==
    /\ Head(pending) = "speech"
    /\ deb' = debounce_note_speech(deb, now_ms)
    /\ speechAge' = Late
    /\ pending' = Tail(pending)
    /\ UNCHANGED <<spc, commands, complete, cmdAge>>

(* Mutant: the session counts a command twice when it repeats. *)
FeedCommand_Twice ==
    /\ Head(pending) = "command"
    /\ deb' = debounce_note_command(deb, now_ms)
    /\ commands' = IF deb.state = "WAITING" THEN commands + 2 ELSE commands + 1
    /\ speechAge' = Late
    /\ cmdAge' = Late
    /\ pending' = Tail(pending)
    /\ UNCHANGED <<spc, complete>>

(* session_on_pcm drains a transcript that matches an intent. *)
FeedCommand ==
    /\ Head(pending) = "command"
    /\ deb' = debounce_note_command(deb, now_ms)
    /\ commands' = commands + 1
    /\ speechAge' = Late
    /\ cmdAge' = Late
    /\ pending' = Tail(pending)
    /\ UNCHANGED <<spc, complete>>

FeedQuiet ==
    /\ Head(pending) = "quiet"
    /\ pending' = Tail(pending)
    /\ UNCHANGED <<spc, deb, commands, complete, speechAge, cmdAge>>

(* The terminating chunk: whatever follows it in the buffer is ignored. *)
FeedFinal ==
    /\ Head(pending) = "final"
    /\ complete' = TRUE
    /\ pending' = <<>>
    /\ UNCHANGED <<spc, deb, commands, speechAge, cmdAge>>

(* http_ingest_feed reports an error: the connection is closed. *)
FeedBad ==
    /\ Head(pending) = "bad"
    /\ pending' = <<>>
    /\ spc' = "closed"
    /\ UNCHANGED <<deb, commands, complete, speechAge, cmdAge>>

Feed ==
    /\ spc = "feed"
    /\ pending # <<>>
    /\ FeedSpeech \/ FeedCommand \/ FeedQuiet \/ FeedFinal \/ FeedBad
    /\ UNCHANGED <<clk, now_ms, answered, waited, busy, sessionAge>>

Fed ==
    /\ spc = "feed"
    /\ pending = <<>>
    /\ spc' = "tick"
    /\ UNCHANGED <<clk, now_ms, deb, commands, pending, complete, answered, waited,
                   busy, ages>>

(* Mutants: the loop goes on after the answer; the timers are evaluated    *)
(* with the reading taken before recv.                                     *)
session_tick_GoesOn(next) ==
    /\ deb' = debounce_should_cut(deb, clk)
    /\ waited' = 0
    /\ busy' = 0
    /\ IF deb'.state = "CUT" THEN spc' = next /\ answered' = TRUE
       ELSE spc' = next /\ UNCHANGED answered
    /\ UNCHANGED <<clk, now_ms, commands, pending, complete, ages>>

session_tick_Stale(next) ==
    /\ deb' = debounce_should_cut(deb, now_ms)
    /\ waited' = 0
    /\ busy' = 0
    /\ IF deb'.state = "CUT" THEN spc' = "closed" /\ answered' = TRUE
       ELSE spc' = next /\ UNCHANGED answered
    /\ UNCHANGED <<clk, now_ms, commands, pending, complete, ages>>

(* session_tick with a fresh reading; a cut is answered and ends the loop. *)
session_tick(next) ==
    /\ deb' = debounce_should_cut(deb, clk)
    /\ waited' = 0
    /\ busy' = 0
    /\ IF deb'.state = "CUT" THEN spc' = "closed" /\ answered' = TRUE
       ELSE spc' = next /\ UNCHANGED answered
    /\ UNCHANGED <<clk, now_ms, commands, pending, complete, ages>>

TickEveryTurn == spc = "tick" /\ session_tick(IF complete THEN "tick2" ELSE "sample")

(* The second evaluation, once the client has finished sending. *)
TickComplete == spc = "tick2" /\ session_tick("sample")

Closed == spc = "closed" /\ UNCHANGED vars

Loop ==
    \/ Sample
    \/ \E buf \in Buffers : RecvData(buf)
    \/ RecvNothing
    \/ Feed
    \/ Fed
    \/ TickEveryTurn
    \/ TickComplete

Next == Tick \/ Loop \/ RecvEnds \/ Closed

Spec == Init /\ [][Next]_vars

(* Time passes and the server's thread runs; the client owes nothing. *)
FairSpec == Spec /\ WF_vars(Tick) /\ WF_vars(Loop)

-----------------------------------------------------------------------------
(* The variables hold values of the program's types. *)
TypeOK ==
    /\ clk \in Stamp /\ now_ms \in Stamp
    /\ spc \in {"sample", "recv", "feed", "tick", "tick2", "closed"}
    /\ deb \in debounce_t
    /\ commands \in 0 .. MaxCommands
    /\ complete \in BOOLEAN /\ answered \in BOOLEAN
    /\ waited \in 0 .. RecvTimeout /\ busy \in 0 .. BusyMax
    /\ {sessionAge, speechAge, cmdAge} \subseteq 0 .. AgeCap

(* session.c:62-67, debounce.c:22-31: the count in the answer (session_t's *)
(* own) and the timer's count of commands agree at every moment.           *)
CountsAgree == commands = deb.commands

(* main.c:96-107: a connection is answered exactly when the timer has cut  *)
(* it, and then it is closed at once: no turn of the loop feeds or         *)
(* evaluates a session that is cut.  (With the type invariant.)            *)
AnsweredIffCut ==
    /\ TypeOK
    /\ answered <=> deb.state = "CUT"
    /\ answered => spc = "closed"

(* The timer as handle_conn drives it. *)
Timer == INSTANCE DebounceTimer WITH d <- deb, gap <- Gap

(* main.c:84-107 keeps the timer's calling contract: it evaluates at least *)
(* every RecvTimeout + BusyMax, and stamps what it reports with a reading  *)
(* no older than the last evaluation.  So what is proved of DebounceTimer  *)
(* holds of a connection.                                                  *)
RefinesTimer == Timer!Spec

(* main.c:84-107: with a session cap, a connection ends whatever the       *)
(* client does: nothing, data for ever, or neither closing nor finishing.  *)
EventuallyClosed == MaxSessionMs # 0 => <>(spc = "closed")

=============================================================================
