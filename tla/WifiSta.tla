------------------------------- MODULE WifiSta -------------------------------
(***************************************************************************)
(* The Wi-Fi station of the device (firmware/port/esp/net_wifi.c) as the   *)
(* hooks of app_main.c use it.  The main task starts the driver and waits  *)
(* for two event bits; the driver posts events to a queue; the event task  *)
(* handles them with on_wifi_event, which sets the bits.  The three run    *)
(* interleaved.                                                            *)
(*                                                                         *)
(* The driver and the event group are external.  An event carries a        *)
(* history flag: it was posted in the present attempt.                     *)
(***************************************************************************)
EXTENDS Naturals, Sequences

VARIABLES
    wpc,            \* where the main task is
    s_initialised,
    s_events,       \* the event group: the bits that are set
    bits,           \* what xEventGroupWaitBits returned
    drv,            \* the driver
    queue,          \* events posted, not handled
    earned,         \* history: bits set by events of this attempt
    timedOut        \* history: the wait of this attempt has timed out

vars == <<wpc, s_initialised, s_events, bits, drv, queue, earned, timedOut>>

(* "out": no attempt is going on.  "clear", "start", "wait", "woken":      *)
(* inside ss_wifi_connect.  "up": it returned ESP_OK.                      *)
Places == {"out", "clear", "start", "wait", "woken", "up"}

DriverStates == {"absent", "stopped", "started", "connecting", "online"}

Init ==
    /\ wpc = "out"
    /\ s_initialised = FALSE
    /\ s_events = {}
    /\ bits = {}
    /\ drv = "absent"
    /\ queue = <<>>
    /\ earned = {}
    /\ timedOut = FALSE

-----------------------------------------------------------------------------
(* The driver *)

Event(id) == [id |-> id, current |-> TRUE]

(* Leaving a connection, or giving one up, posts a disconnect event. *)
Disconnected ==
    IF drv \in {"connecting", "online"}
    THEN queue' = Append(queue, Event("STA_DISCONNECTED"))
    ELSE UNCHANGED queue

DriverConnects ==
    /\ drv = "connecting"
    /\ drv' = "online"
    /\ queue' = Append(queue, Event("STA_GOT_IP"))
    /\ UNCHANGED <<wpc, s_initialised, s_events, bits, earned, timedOut>>

(* No such network, a wrong password, or the link is lost. *)
DriverFails ==
    /\ drv \in {"connecting", "online"}
    /\ drv' = "started"
    /\ Disconnected
    /\ UNCHANGED <<wpc, s_initialised, s_events, bits, earned, timedOut>>

-----------------------------------------------------------------------------
(* The event task *)

(* The bits on_wifi_event sets for an event. *)
BitsOf(id) ==
    CASE id = "STA_DISCONNECTED" -> {"FAIL"}
      [] id = "STA_GOT_IP" -> {"CONNECTED"}
      [] OTHER -> {}

(* on_wifi_event.  esp_wifi_connect on a driver that was stopped in the    *)
(* meantime fails, which is ignored.  Setting a bit ends a wait with the   *)
(* bits of that moment.                                                    *)
on_wifi_event ==
    /\ queue # <<>>
    /\ LET event == Head(queue)
           set == BitsOf(event.id)
       IN  /\ drv' = IF event.id = "STA_START" /\ drv = "started"
                     THEN "connecting" ELSE drv
           /\ s_events' = s_events \cup set
           /\ earned' = IF event.current THEN earned \cup set ELSE earned
           /\ IF wpc = "wait" /\ s_events' # {}
              THEN wpc' = "woken" /\ bits' = s_events'
              ELSE UNCHANGED <<wpc, bits>>
    /\ queue' = Tail(queue)
    /\ UNCHANGED <<s_initialised, timedOut>>

-----------------------------------------------------------------------------
(* The main task *)

(* ss_wifi_connect calls ss_wifi_init, which returns an error if the flash *)
(* cannot be read.  A new attempt begins.                                  *)
ConnectInit(flashOk) ==
    /\ wpc = "out"
    /\ IF s_initialised \/ flashOk
       THEN /\ wpc' = "clear"
            /\ s_initialised' = TRUE
            /\ drv' = IF s_initialised THEN drv ELSE "stopped"
       ELSE wpc' = "out" /\ UNCHANGED <<s_initialised, drv>>
    /\ queue' = [i \in DOMAIN queue |-> [queue[i] EXCEPT !.current = FALSE]]
    /\ earned' = {}
    /\ timedOut' = FALSE
    /\ UNCHANGED <<s_events, bits>>

(* Mutant: only the bit of the success is cleared. *)
ClearBits_KeepsFail ==
    /\ wpc = "clear"
    /\ s_events' = s_events \ {"CONNECTED"}
    /\ wpc' = "start"
    /\ UNCHANGED <<s_initialised, bits, drv, queue, earned, timedOut>>

ClearBits ==
    /\ wpc = "clear"
    /\ s_events' = {}
    /\ wpc' = "start"
    /\ UNCHANGED <<s_initialised, bits, drv, queue, earned, timedOut>>

esp_wifi_start ==
    /\ wpc = "start"
    /\ drv' = "started"
    /\ queue' = Append(queue, Event("STA_START"))
    /\ wpc' = "wait"
    /\ UNCHANGED <<s_initialised, s_events, bits, earned, timedOut>>

(* xEventGroupWaitBits: a bit is set already, or the 15 s are over.  The   *)
(* bits are not cleared.                                                   *)
WaitBits ==
    /\ wpc = "wait"
    /\ wpc' = "woken"
    /\ bits' = s_events
    /\ timedOut' = (s_events = {})
    /\ UNCHANGED <<s_initialised, s_events, drv, queue, earned>>

ReturnOk ==
    /\ wpc = "woken"
    /\ "CONNECTED" \in bits
    /\ wpc' = "up"
    /\ UNCHANGED <<s_initialised, s_events, bits, drv, queue, earned, timedOut>>

(* Mutant: the radio stays on after a failure. *)
ReturnFail_KeepsRadio ==
    /\ wpc = "woken"
    /\ "CONNECTED" \notin bits
    /\ wpc' = "out"
    /\ UNCHANGED <<s_initialised, s_events, bits, drv, queue, earned, timedOut>>

(* The failure path: esp_wifi_stop. *)
ReturnFail ==
    /\ wpc = "woken"
    /\ "CONNECTED" \notin bits
    /\ wpc' = "out"
    /\ drv' = "stopped"
    /\ Disconnected
    /\ UNCHANGED <<s_initialised, s_events, bits, earned, timedOut>>

(* The session is over, or there was none since the server could not be    *)
(* reached: hook_stream and hook_connect call ss_wifi_disconnect, which    *)
(* disconnects and stops.                                                  *)
ss_wifi_disconnect ==
    /\ wpc = "up"
    /\ wpc' = "out"
    /\ drv' = "stopped"
    /\ Disconnected
    /\ UNCHANGED <<s_initialised, s_events, bits, earned, timedOut>>

(* ESP_ERROR_CHECK aborts, a panic, deep sleep, a power cycle. *)
Reset ==
    /\ wpc' = "out"
    /\ s_initialised' = FALSE
    /\ s_events' = {}
    /\ bits' = {}
    /\ drv' = "absent"
    /\ queue' = <<>>
    /\ earned' = {}
    /\ timedOut' = FALSE

MainTask ==
    \/ ClearBits
    \/ esp_wifi_start
    \/ WaitBits
    \/ ReturnOk
    \/ ReturnFail
    \/ ss_wifi_disconnect

(* The caller's contract: an attempt begins when the event task has        *)
(* handled all there was.                                                  *)
Next ==
    \/ queue = <<>> /\ \E flashOk \in BOOLEAN : ConnectInit(flashOk)
    \/ MainTask
    \/ on_wifi_event
    \/ DriverConnects
    \/ DriverFails
    \/ Reset

Spec == Init /\ [][Next]_vars

-----------------------------------------------------------------------------
Bits == {"CONNECTED", "FAIL"}

(* The variables hold values of the program's types. *)
TypeOK ==
    /\ wpc \in Places
    /\ s_initialised \in BOOLEAN
    /\ s_events \subseteq Bits /\ bits \subseteq Bits /\ earned \subseteq Bits
    /\ drv \in DriverStates
    /\ queue \in Seq([id : {"STA_START", "STA_DISCONNECTED", "STA_GOT_IP"},
                      current : BOOLEAN])
    /\ timedOut \in BOOLEAN

(* net_wifi.c:79-92, app_main.c:179: an attempt is decided by its own      *)
(* events.  It succeeds only if it got an address itself, and fails only   *)
(* if it was disconnected itself or its own time was up, although every    *)
(* session before it has left a disconnect event behind.  (With the type   *)
(* invariant.)                                                             *)
OwnEventsDecide ==
    /\ TypeOK
    /\ wpc = "up" => "CONNECTED" \in earned
    /\ wpc = "woken" => bits \subseteq earned /\ (bits = {} => timedOut)

(* net_wifi.c:90, 95-101: between two attempts the radio is off, also when *)
(* the event that was to start it is handled after it was stopped.         *)
RadioOff ==
    wpc \in {"out", "clear", "start"} => drv \in {"absent", "stopped"}

=============================================================================
