------------------------------ MODULE CutPolicy ------------------------------
(***************************************************************************)
(* What server/include/server/debounce.h promises of one session, in true  *)
(* elapsed time: no clock that wraps, no stored timestamps.  A session is  *)
(* cut only for a limit that is really due, the session cap before the     *)
(* debounce window before the silence limit, and it is cut before any      *)
(* limit is overdue by more than Slack.                                    *)
(***************************************************************************)
EXTENDS Integers

CONSTANTS DebounceMs, MaxSessionMs, SilenceMs,
          Slack         \* how late a cut may be, and how old a report may be

VARIABLES phase, reason,
          sessionAge,   \* time since the session began
          speechAge,    \* time since the last reported speech
          cmdAge        \* time since the last reported command

vars == <<phase, reason, sessionAge, speechAge, cmdAge>>

(* Ages past every limit are not told apart. *)
AgeCap == DebounceMs + MaxSessionMs + SilenceMs + Slack

Older(age) == IF age < AgeCap THEN age + 1 ELSE age

Due(limit, age) == limit # 0 /\ age >= limit

Overdue(limit, age) == limit # 0 /\ age >= limit + Slack

Verdict ==
    IF Due(MaxSessionMs, sessionAge) THEN "MAX_SESSION"
    ELSE IF phase = "WAITING" /\ Due(DebounceMs, cmdAge) THEN "DEBOUNCE"
    ELSE IF Due(SilenceMs, speechAge) THEN "SILENCE"
    ELSE "NONE"

Init ==
    /\ phase = "LISTENING"
    /\ reason = "NONE"
    /\ sessionAge = 0
    /\ speechAge = 0
    /\ cmdAge = 0

(* A millisecond passes; it may not while a limit is overdue. *)
Pass ==
    /\ phase # "CUT"
    /\ ~Overdue(MaxSessionMs, sessionAge)
    /\ ~(phase = "WAITING" /\ Overdue(DebounceMs, cmdAge))
    /\ ~Overdue(SilenceMs, speechAge)
    /\ sessionAge' = Older(sessionAge)
    /\ speechAge' = Older(speechAge)
    /\ cmdAge' = Older(cmdAge)
    /\ UNCHANGED <<phase, reason>>

Speech ==
    /\ phase # "CUT"
    /\ speechAge' \in 0 .. Slack
    /\ speechAge' <= speechAge
    /\ UNCHANGED <<phase, reason, sessionAge, cmdAge>>

Command ==
    /\ phase # "CUT"
    /\ phase' = "WAITING"
    /\ speechAge' \in 0 .. Slack
    /\ speechAge' <= speechAge
    /\ cmdAge' = speechAge'
    /\ UNCHANGED <<reason, sessionAge>>

Cut ==
    /\ phase # "CUT"
    /\ Verdict # "NONE"
    /\ phase' = "CUT"
    /\ reason' = Verdict
    /\ UNCHANGED <<sessionAge, speechAge, cmdAge>>

Next == Pass \/ Speech \/ Command \/ Cut

Spec == Init /\ [][Next]_vars

=============================================================================
