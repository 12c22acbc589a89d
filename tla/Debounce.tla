------------------------------ MODULE Debounce ------------------------------
(***************************************************************************)
(* server/src/debounce.c: the connection-cut timer, as operators over the  *)
(* debounce_t record.  Times are uint32_t milliseconds of a monotonic      *)
(* clock that wraps around; ClockMod is 2^32 in the program and small in   *)
(* the checked instances.  A limit of 0 disables its timer.                *)
(***************************************************************************)
EXTENDS Integers

CONSTANTS
    ClockMod,       \* number of values of the millisecond clock
    DebounceMs,     \* debounce_cfg_t.debounce_ms
    MaxSessionMs,   \* debounce_cfg_t.max_session_ms
    SilenceMs       \* debounce_cfg_t.silence_ms

ASSUME DebounceAssumption ==
    /\ ClockMod \in Nat \ {0}
    /\ DebounceMs \in Nat
    /\ MaxSessionMs \in Nat
    /\ SilenceMs \in Nat

(* uint32_t *)
Stamp == 0 .. (ClockMod - 1)

DebounceStates == {"LISTENING", "WAITING", "CUT"}

CutReasons == {"NONE", "DEBOUNCE", "MAX_SESSION", "SILENCE"}

debounce_t ==
    [state : DebounceStates, reason : CutReasons, start_ms : Stamp,
     last_speech_ms : Stamp, last_cmd_ms : Stamp, commands : Nat]

debounce_init(now) ==
    [state |-> "LISTENING", reason |-> "NONE", start_ms |-> now,
     last_speech_ms |-> now, last_cmd_ms |-> now, commands |-> 0]

debounce_note_speech(d, now) ==
    IF d.state = "CUT" THEN d ELSE [d EXCEPT !.last_speech_ms = now]

(* Mutants: the stamp stored as a deadline; the speech stamp left alone. *)
debounce_note_command_Deadline(d, now) ==
    [d EXCEPT !.last_cmd_ms = now + DebounceMs, !.state = "WAITING"]

debounce_note_command_NotSpeech(d, now) ==
    IF d.state = "CUT"
    THEN d
    ELSE [d EXCEPT !.last_cmd_ms = now, !.commands = @ + 1, !.state = "WAITING"]

debounce_note_command(d, now) ==
    IF d.state = "CUT"
    THEN d
    ELSE [d EXCEPT !.last_speech_ms = now, !.last_cmd_ms = now,
                   !.commands = @ + 1, !.state = "WAITING"]

(* Mutant: elapsed time without the wrap. *)
elapsed_NoWrap(now, since) == IF now >= since THEN now - since ELSE 0

(* Unsigned subtraction: correct across a wrap of the clock. *)
elapsed(now, since) == (now - since) % ClockMod

(* Mutants: a limit checked with >, and with ==. *)
Expired_Strict(limit, now, since) == limit # 0 /\ elapsed(now, since) > limit

Expired_Exact(limit, now, since) == limit # 0 /\ elapsed(now, since) = limit

Expired(limit, now, since) == limit # 0 /\ elapsed(now, since) >= limit

(* Mutant: the debounce window checked before the session cap. *)
CutVerdict_WindowFirst(d, now) ==
    IF d.state = "WAITING" /\ Expired(DebounceMs, now, d.last_cmd_ms)
    THEN "DEBOUNCE"
    ELSE IF Expired(MaxSessionMs, now, d.start_ms) THEN "MAX_SESSION"
    ELSE IF Expired(SilenceMs, now, d.last_speech_ms) THEN "SILENCE"
    ELSE "NONE"

(* The reason for which debounce_should_cut cuts at `now`, "NONE" when it does not. *)
CutVerdict(d, now) ==
    IF Expired(MaxSessionMs, now, d.start_ms) THEN "MAX_SESSION"
    ELSE IF d.state = "WAITING" /\ Expired(DebounceMs, now, d.last_cmd_ms)
    THEN "DEBOUNCE"
    ELSE IF Expired(SilenceMs, now, d.last_speech_ms) THEN "SILENCE"
    ELSE "NONE"

(* The record after the call; the call returns 1 iff its state is then CUT. *)
debounce_should_cut(d, now) ==
    IF d.state = "CUT" \/ CutVerdict(d, now) = "NONE"
    THEN d
    ELSE [d EXCEPT !.reason = CutVerdict(d, now), !.state = "CUT"]

=============================================================================
