---------------------------- MODULE DebounceTimer ----------------------------
(***************************************************************************)
(* One session's debounce_t (server/src/debounce.c) under the clock and    *)
(* the calls the server makes.  The clock starts anywhere and wraps.  The  *)
(* caller evaluates the timers at least every MaxGap milliseconds and      *)
(* reports speech and commands with the time it read at some moment since  *)
(* the last evaluation, which may be late (server/src/main.c:85-96).       *)
(*                                                                         *)
(* sessionAge, speechAge and cmdAge are history variables: the true time   *)
(* since the session began and since the last reported speech and command. *)
(* The program does not have them; they say what its stamps should mean.   *)
(***************************************************************************)
EXTENDS Debounce

CONSTANTS
    MaxGap,         \* longest time between two evaluations of the timers
    MaxCommands     \* bound on the commands of one session

(* The clock must not lap a stamp between two evaluations: with the default *)
(* configuration, 15000 ms + MaxGap against 2^32 ms.                        *)
ASSUME TimerAssumption ==
    /\ MaxGap \in Nat \ {0}
    /\ MaxCommands \in Nat
    /\ MaxSessionMs + MaxGap < ClockMod
    /\ DebounceMs + MaxGap < ClockMod
    /\ SilenceMs + MaxGap < ClockMod

VARIABLES
    clk,            \* monotonic_ms()
    d,              \* debounce_t
    gap,            \* time since the timers were last evaluated
    sessionAge, speechAge, cmdAge

(* Ages past every limit are not told apart. *)
AgeCap == DebounceMs + MaxSessionMs + SilenceMs + MaxGap

Older(age) == IF age < AgeCap THEN age + 1 ELSE age

ages == <<sessionAge, speechAge, cmdAge>>

vars == <<clk, d, gap, sessionAge, speechAge, cmdAge>>

Init ==
    /\ clk \in Stamp
    /\ d = debounce_init(clk)
    /\ gap = 0
    /\ sessionAge = 0
    /\ speechAge = 0
    /\ cmdAge = 0

Running == d.state # "CUT"

(* A millisecond passes.  The ages are followed until the cut. *)
Tick ==
    /\ clk' = (clk + 1) % ClockMod
    /\ UNCHANGED d
    /\ \/ /\ Running
          /\ gap < MaxGap
          /\ gap' = gap + 1
          /\ sessionAge' = Older(sessionAge)
          /\ speechAge' = Older(speechAge)
          /\ cmdAge' = Older(cmdAge)
       \/ /\ ~Running
          /\ UNCHANGED <<gap, ages>>

(* The time read `late` milliseconds ago. *)
ReadAgo(late) == (clk - late) % ClockMod

(* How late a report may be: since the last evaluation, and the clock is   *)
(* monotonic, so never older than the previous report.                     *)
Lateness == {late \in 0 .. MaxGap : late <= gap /\ late <= speechAge}

NoteSpeech(late) ==
    /\ d' = debounce_note_speech(d, ReadAgo(late))
    /\ speechAge' = IF Running THEN late ELSE speechAge
    /\ UNCHANGED <<clk, gap, sessionAge, cmdAge>>

NoteCommand(late) ==
    /\ d.commands < MaxCommands
    /\ d' = debounce_note_command(d, ReadAgo(late))
    /\ speechAge' = IF Running THEN late ELSE speechAge
    /\ cmdAge' = IF Running THEN late ELSE cmdAge
    /\ UNCHANGED <<clk, gap, sessionAge>>

ShouldCut ==
    /\ d' = debounce_should_cut(d, clk)
    /\ gap' = 0
    /\ UNCHANGED <<clk, ages>>

Next ==
    \/ Tick
    \/ \E late \in Lateness : NoteSpeech(late) \/ NoteCommand(late)
    \/ ShouldCut

Spec == Init /\ [][Next]_vars

(* Time passes and the caller's loop keeps reaching session_tick. *)
FairSpec == Spec /\ WF_vars(Tick) /\ WF_vars(ShouldCut)

-----------------------------------------------------------------------------
(* The variables hold values of the program's types. *)
TypeOK ==
    /\ clk \in Stamp
    /\ d \in debounce_t
    /\ gap \in 0 .. MaxGap
    /\ sessionAge \in 0 .. AgeCap
    /\ speechAge \in 0 .. AgeCap
    /\ cmdAge \in 0 .. AgeCap

Enabled(limit) == limit # 0

(* The timer that runs on `age`: not overdue past the last evaluation. *)
Within(limit, age) == Enabled(limit) => age < limit + gap

(* debounce.c:33-37: the unsigned difference of two stamps is the true     *)
(* elapsed time for every timer that is enabled, wherever the clock wraps, *)
(* until the session is cut.                                               *)
StampsTrue ==
    Running =>
        /\ Enabled(MaxSessionMs) => elapsed(clk, d.start_ms) = sessionAge
        /\ Enabled(SilenceMs) => elapsed(clk, d.last_speech_ms) = speechAge
        /\ (Enabled(DebounceMs) /\ d.state = "WAITING")
                => elapsed(clk, d.last_cmd_ms) = cmdAge

(* debounce.c:45-62: while the session is not cut no enabled limit is      *)
(* overdue by more than the time since the last evaluation (the session    *)
(* cap, the silence limit, and once a command was seen the window).        *)
Punctual ==
    Running =>
        /\ Within(MaxSessionMs, sessionAge)
        /\ Within(SilenceMs, speechAge)
        /\ d.state = "WAITING" => Within(DebounceMs, cmdAge)

(* debounce.c:39-65: a cut names a limit that is really due in true time,  *)
(* the window opens and cuts only after a command, and no cut blames a     *)
(* lower-ranked limit while the session cap is due.                        *)
CutJustified ==
    /\ (d.state = "CUT") <=> (d.reason # "NONE")
    /\ d.state = "WAITING" => d.commands > 0
    /\ d.reason = "MAX_SESSION" => Enabled(MaxSessionMs) /\ sessionAge >= MaxSessionMs
    /\ d.reason = "DEBOUNCE" =>
          /\ Enabled(DebounceMs)
          /\ cmdAge >= DebounceMs
          /\ d.commands > 0
          /\ Enabled(MaxSessionMs) => sessionAge < MaxSessionMs
    /\ d.reason = "SILENCE" =>
          /\ Enabled(SilenceMs)
          /\ speechAge >= SilenceMs
          /\ Enabled(MaxSessionMs) => sessionAge < MaxSessionMs

(* debounce.c:16, 24, 41: once cut, no later report or evaluation changes  *)
(* the verdict, the stamps or the command count sent in the response.      *)
CutLatches == [][d.state = "CUT" => d' = d]_vars

(* The session cap ends every session: a caller that keeps evaluating cuts. *)
EventuallyCut == Enabled(MaxSessionMs) => <>(d.state = "CUT")

(* The policy of debounce.h in true time. *)
Policy == INSTANCE CutPolicy WITH
    phase <- d.state, reason <- d.reason, Slack <- MaxGap

(* debounce.c implements CutPolicy: wrapping stamps, late reports and      *)
(* evaluations at discrete moments give every session a verdict that the   *)
(* policy allows in true elapsed time.                                     *)
RefinesPolicy == Policy!Spec

=============================================================================
