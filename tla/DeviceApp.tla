------------------------------ MODULE DeviceApp ------------------------------
(***************************************************************************)
(* The device's main loop: app_run_cycle (firmware/core/src/app.c) driving *)
(* the FSM, the power controller (power.c, port/esp/power_esp.c) and the   *)
(* hooks of main/app_main.c with the resources they hold, the Wi-Fi link   *)
(* and the session's socket.  Deep sleep, a panic (ESP_ERROR_CHECK, abort) *)
(* and a power cycle all lose RAM and start app_main again.                *)
(*                                                                         *)
(* A wiring is the power mode and the power backend of the build: "esp" on *)
(* the device, or "mock" (tests/host/mock_power.c), which delivers         *)
(* scheduled wake causes and returns from deep sleep.                      *)
(***************************************************************************)
EXTENDS Fsm

CONSTANTS
    Wirings,        \* the power modes and backends to consider
    KwsEvents,      \* what the run_kws hook may return
    ConnectErrors   \* what the connect hook may return when it fails

ASSUME DeviceAssumption ==
    /\ Wirings \subseteq [mode : {"STAY_AWAKE", "DRYRUN", "REAL"},
                          backend : {"esp", "mock"}]
    /\ KwsEvents \subseteq {"KWS_CONFIRMED", "KWS_REJECTED", "ERROR"}
    /\ ConnectErrors \subseteq {"CONNECT_FAILED", "ERROR"}

VARIABLES
    wiring,     \* APP_POWER_MODE and the backend: fixed by the build
    pc,         \* where control is
    hwCause,    \* what esp_sleep_get_wakeup_cause() reports in this boot
    fsm,        \* app_t.fsm
    cycles,     \* app_t.cycles
    power,      \* power_ctrl_t counters
    wifi,       \* the Wi-Fi link is up
    sock,       \* app_ctx_t.sock.fd names an open socket
    confirmed,  \* history: the wake word was confirmed in this cycle
    dozes       \* history: cycles of this boot that ended on their wake cause

vars == <<wiring, pc, hwCause, fsm, cycles, power, wifi, sock, confirmed, dozes>>

(* "reset": about to run app_main.  "idle": between two cycles.  "kws",    *)
(* "wifi", "tcp", "stream": inside a hook.  "end": the cycle is decided.   *)
(* "asleep": esp_deep_sleep_start.  "done": the loop was left.             *)
Pcs == {"reset", "idle", "kws", "wifi", "tcp", "stream", "end", "asleep", "done"}

(* The `switch (act)` of app_run_cycle. *)
PcOf(act) ==
    CASE act = "START_KWS" -> "kws"
      [] act = "START_CONNECT" -> "wifi"
      [] act = "START_STREAM" -> "stream"
      [] OTHER -> "end"

Init ==
    /\ wiring \in Wirings
    /\ pc = "reset"
    /\ hwCause = "POWER_ON"
    /\ fsm = fsm_init
    /\ cycles = 0
    /\ power = [sleep_count |-> 0, false_wake_count |-> 0]
    /\ wifi = FALSE
    /\ sock = FALSE
    /\ confirmed = FALSE
    /\ dozes = 0

(* app_main up to its loop: power_init, ctx.sock.fd = -1, app_init. *)
Boot ==
    /\ pc = "reset"
    /\ pc' = "idle"
    /\ fsm' = fsm_init
    /\ cycles' = 0
    /\ power' = [sleep_count |-> 0, false_wake_count |-> 0]
    /\ sock' = FALSE
    /\ confirmed' = FALSE
    /\ dozes' = 0
    /\ UNCHANGED <<wiring, hwCause, wifi>>

(* power_wake_cause: the esp backend keeps reporting the cause of the boot. *)
power_wake_cause == IF wiring.backend = "esp" THEN {hwCause} ELSE WakeCauses

(* fsm_dispatch and the switch on the action it returns. *)
Dispatch(ev, cause) ==
    LET out == fsm_dispatch(fsm, ev, cause)
    IN  fsm' = out.fsm /\ pc' = PcOf(out.act)

(* app_run_cycle begins. *)
Wake(cause) ==
    /\ pc = "idle"
    /\ Dispatch("WOKE", cause)
    /\ confirmed' = FALSE
    /\ dozes' = IF cause \in {"TIMER", "UNKNOWN"} THEN Inc(dozes) ELSE dozes
    /\ UNCHANGED <<wiring, hwCause, cycles, power, wifi, sock>>

(* Mutant: the counter of false wakes also counts a hook that failed. *)
RunKws_CountsErrors(ev) ==
    /\ pc = "kws"
    /\ power' = IF ev # "KWS_CONFIRMED"
                THEN [power EXCEPT !.false_wake_count = Inc(@)]
                ELSE power
    /\ Dispatch(ev, "UNKNOWN")
    /\ confirmed' = (ev = "KWS_CONFIRMED")
    /\ UNCHANGED <<wiring, hwCause, cycles, wifi, sock, dozes>>

(* hook_run_kws: too large a window, a short read, silence and a failed    *)
(* inference all count as a rejection.                                     *)
RunKws(ev) ==
    /\ pc = "kws"
    /\ power' = IF ev = "KWS_REJECTED"
                THEN [power EXCEPT !.false_wake_count = Inc(@)]
                ELSE power
    /\ Dispatch(ev, "UNKNOWN")
    /\ confirmed' = (ev = "KWS_CONFIRMED")
    /\ UNCHANGED <<wiring, hwCause, cycles, wifi, sock, dozes>>

(* hook_connect, first half: ss_wifi_connect.  It stops Wi-Fi on failure. *)
WifiConnected ==
    /\ pc = "wifi"
    /\ wifi' = TRUE
    /\ pc' = "tcp"
    /\ UNCHANGED <<wiring, hwCause, fsm, cycles, power, sock, confirmed, dozes>>

WifiFailed(ev) ==
    /\ pc = "wifi"
    /\ Dispatch(ev, "UNKNOWN")
    /\ UNCHANGED <<wiring, hwCause, cycles, power, wifi, sock, confirmed, dozes>>

(* hook_connect, second half: ss_tcp_connect. *)
TcpConnected ==
    /\ pc = "tcp"
    /\ sock' = TRUE
    /\ Dispatch("CONNECTED", "UNKNOWN")
    /\ UNCHANGED <<wiring, hwCause, cycles, power, wifi, confirmed, dozes>>

(* Mutant: hook_connect without its ss_wifi_disconnect. *)
TcpFailed_KeepsWifi(ev) ==
    /\ pc = "tcp"
    /\ Dispatch(ev, "UNKNOWN")
    /\ UNCHANGED <<wiring, hwCause, cycles, power, wifi, sock, confirmed, dozes>>

TcpFailed(ev) ==
    /\ pc = "tcp"
    /\ wifi' = FALSE
    /\ Dispatch(ev, "UNKNOWN")
    /\ UNCHANGED <<wiring, hwCause, cycles, power, sock, confirmed, dozes>>

(* hook_stream: whatever stream_client_run returns, the socket is closed   *)
(* and Wi-Fi taken down.                                                   *)
StreamEnds(ev) ==
    /\ pc = "stream"
    /\ sock' = FALSE
    /\ wifi' = FALSE
    /\ Dispatch(ev, "UNKNOWN")
    /\ UNCHANGED <<wiring, hwCause, cycles, power, confirmed, dozes>>

(* power_enter_deep_sleep returns to the caller. *)
SleepReturns == wiring.mode = "STAY_AWAKE" \/ wiring.backend = "mock"

(* The end of app_run_cycle, power_enter_deep_sleep, and the test of the   *)
(* loop around it (app_main and app_run leave it in REAL mode).            *)
EndCycle ==
    /\ pc = "end"
    /\ cycles' = Inc(cycles)
    /\ power' = IF wiring.mode = "STAY_AWAKE"
                THEN power ELSE [power EXCEPT !.sleep_count = Inc(@)]
    /\ pc' = IF ~SleepReturns THEN "asleep"
             ELSE IF wiring.mode = "REAL" THEN "done" ELSE "idle"
    /\ UNCHANGED <<wiring, hwCause, fsm, wifi, sock, confirmed, dozes>>

(* A reset: RAM, the socket and the Wi-Fi link are gone. *)
Restart(cause) ==
    /\ pc' = "reset"
    /\ hwCause' = cause
    /\ wifi' = FALSE
    /\ sock' = FALSE
    /\ UNCHANGED <<wiring, fsm, cycles, power, confirmed, dozes>>

(* EXT1 wakes the chip: the sound trigger or the button. *)
ExtWake ==
    /\ pc = "asleep"
    /\ \E cause \in {"SOUND_TRIGGER", "BUTTON"} : Restart(cause)

(* A panic or a power cycle, at any moment; esp_wake_cause maps both to POWER_ON. *)
Reset == pc # "reset" /\ Restart("POWER_ON")

Step ==
    \/ Boot
    \/ \E cause \in power_wake_cause : Wake(cause)
    \/ \E ev \in KwsEvents : RunKws(ev)
    \/ WifiConnected
    \/ \E ev \in ConnectErrors : WifiFailed(ev)
    \/ TcpConnected
    \/ \E ev \in ConnectErrors : TcpFailed(ev)
    \/ \E ev \in {"SERVER_CLOSED", "SESSION_TIMEOUT", "ERROR"} : StreamEnds(ev)
    \/ EndCycle

Next == Step \/ ExtWake \/ Reset

Spec == Init /\ [][Next]_vars

(* Every hook returns: the microphone read, the Wi-Fi wait and the stream  *)
(* have timeouts or budgets.                                               *)
FairSpec == Spec /\ WF_vars(Step)

-----------------------------------------------------------------------------
(* The variables hold values of the program's types. *)
TypeOK ==
    /\ wiring \in Wirings
    /\ pc \in Pcs
    /\ hwCause \in WakeCauses
    /\ fsm \in fsm_t
    /\ cycles \in Counter
    /\ power \in [sleep_count : Counter, false_wake_count : Counter]
    /\ wifi \in BOOLEAN
    /\ sock \in BOOLEAN
    /\ confirmed \in BOOLEAN
    /\ dozes \in Counter

Running == pc \notin {"reset", "asleep", "done"}

(* app.c:18-53, fsm.c:33-87: control and the FSM agree.  In particular,    *)
(* between two cycles the FSM rests in a state that accepts the next wake. *)
FsmInStep ==
    /\ pc \in {"idle", "end"} => fsm.state \in RestStates
    /\ pc = "kws" => fsm.state = "CONFIRM_KWS"
    /\ pc \in {"wifi", "tcp"} => fsm.state = "CONNECT"
    /\ pc = "stream" => fsm.state = "STREAM"

(* Cycles whose outcome is counted: cycles, and the one that is at its end. *)
Decided == IF pc = "end" THEN Inc(cycles) ELSE cycles

(* app.c:26-50, fsm.c: every cycle of a boot is counted exactly once, as a *)
(* rejection, a session, an error or an ignored wake, modulo the counters' *)
(* width; and the power controller's false wakes are the rejections.       *)
Accounted ==
    Running =>
        /\ Decided = (fsm.reject_count + fsm.session_count + fsm.error_count + dozes)
                        % CounterMod
        /\ power.false_wake_count = fsm.reject_count

(* app_main.c:84-133: the radio is up only inside the hooks, a socket is   *)
(* open only while streaming, and neither survives into a wait or a sleep. *)
NoLeak ==
    /\ wifi <=> pc \in {"tcp", "stream"}
    /\ sock <=> pc = "stream"

(* fsm.c:13-31, 51-62: audio leaves the device only in a cycle in which    *)
(* the wake word was confirmed or the button woke it.                      *)
NoUnaskedStream ==
    pc \in {"wifi", "tcp", "stream"} => confirmed \/ fsm.last_wake_cause = "BUTTON"

(* app.c:23-52: every cycle ends: the device waits, sleeps or was reset. *)
CycleEnds == []<>(pc \in {"idle", "asleep", "done"})

=============================================================================
