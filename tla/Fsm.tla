-------------------------------- MODULE Fsm --------------------------------
(***************************************************************************)
(* firmware/core/src/fsm.c: the device's state machine as a pure reducer   *)
(* over fsm_t.  fsm_dispatch returns the new record and the action its     *)
(* caller must perform.  The counters are uint32_t and wrap.               *)
(***************************************************************************)
EXTENDS Integers

CONSTANT CounterMod     \* number of values of a uint32_t counter

ASSUME FsmAssumption == CounterMod \in Nat \ {0}

Counter == 0 .. (CounterMod - 1)

(* counter++ *)
Inc(n) == (n + 1) % CounterMod

FsmStates == {"BOOT", "CONFIRM_KWS", "CONNECT", "STREAM", "SLEEP", "ERROR"}

FsmEvents ==
    {"NONE", "WOKE", "KWS_CONFIRMED", "KWS_REJECTED", "CONNECTED",
     "CONNECT_FAILED", "SERVER_CLOSED", "SESSION_TIMEOUT", "ERROR"}

FsmActions == {"NONE", "START_KWS", "START_CONNECT", "START_STREAM", "ENTER_SLEEP"}

WakeCauses == {"UNKNOWN", "POWER_ON", "SOUND_TRIGGER", "BUTTON", "TIMER"}

(* The states in which fsm_dispatch accepts FSM_EV_WOKE. *)
RestStates == {"BOOT", "SLEEP", "ERROR"}

fsm_t ==
    [state : FsmStates, last_wake_cause : WakeCauses, confirm_count : Counter,
     reject_count : Counter, session_count : Counter, error_count : Counter]

fsm_init ==
    [state |-> "BOOT", last_wake_cause |-> "UNKNOWN", confirm_count |-> 0,
     reject_count |-> 0, session_count |-> 0, error_count |-> 0]

Outcome(f, action) == [fsm |-> f, act |-> action]

(* Mutant: a timer wake confirms nothing and connects. *)
on_wake_TimerConnects(f, cause) ==
    LET woken == [f EXCEPT !.last_wake_cause = cause]
    IN  CASE cause \in {"SOUND_TRIGGER", "POWER_ON"} ->
                Outcome([woken EXCEPT !.state = "CONFIRM_KWS"], "START_KWS")
          [] cause \in {"BUTTON", "TIMER"} ->
                Outcome([woken EXCEPT !.state = "CONNECT"], "START_CONNECT")
          [] OTHER ->
                Outcome([woken EXCEPT !.state = "SLEEP"], "ENTER_SLEEP")

on_wake(f, cause) ==
    LET woken == [f EXCEPT !.last_wake_cause = cause]
    IN  CASE cause \in {"SOUND_TRIGGER", "POWER_ON"} ->
                Outcome([woken EXCEPT !.state = "CONFIRM_KWS"], "START_KWS")
          [] cause = "BUTTON" ->
                Outcome([woken EXCEPT !.state = "CONNECT"], "START_CONNECT")
          [] OTHER ->
                Outcome([woken EXCEPT !.state = "SLEEP"], "ENTER_SLEEP")

(* Mutant: an error in a stream is counted but the state stays STREAM. *)
Fail_KeepsState(f) ==
    Outcome([f EXCEPT !.error_count = Inc(@)], "ENTER_SLEEP")

(* Mutant: an error restarts the connection instead of ending the cycle. *)
Fail_Retries(f) ==
    Outcome([f EXCEPT !.error_count = Inc(@), !.state = "CONNECT"], "START_CONNECT")

(* A hard error, from any state. *)
Fail(f) ==
    Outcome([f EXCEPT !.error_count = Inc(@), !.state = "ERROR"], "ENTER_SLEEP")

fsm_dispatch(f, ev, cause) ==
    CASE ev = "ERROR" -> Fail(f)
      [] ev = "WOKE" /\ f.state \in RestStates -> on_wake(f, cause)
      [] ev = "KWS_CONFIRMED" /\ f.state = "CONFIRM_KWS" ->
            Outcome([f EXCEPT !.confirm_count = Inc(@), !.state = "CONNECT"],
                    "START_CONNECT")
      [] ev = "KWS_REJECTED" /\ f.state = "CONFIRM_KWS" ->
            Outcome([f EXCEPT !.reject_count = Inc(@), !.state = "SLEEP"],
                    "ENTER_SLEEP")
      [] ev = "CONNECTED" /\ f.state = "CONNECT" ->
            Outcome([f EXCEPT !.state = "STREAM"], "START_STREAM")
      [] ev = "CONNECT_FAILED" /\ f.state = "CONNECT" -> Fail(f)
      [] ev \in {"SERVER_CLOSED", "SESSION_TIMEOUT"} /\ f.state = "STREAM" ->
            Outcome([f EXCEPT !.session_count = Inc(@), !.state = "SLEEP"],
                    "ENTER_SLEEP")
      [] OTHER -> Outcome(f, "NONE")

=============================================================================
