----------------------------- MODULE DeviceWifi -----------------------------
(***************************************************************************)
(* The session runner of DeviceApp with the Wi-Fi station of WifiSta under *)
(* its hooks.  On the device, hook_connect is a sequence of steps of the   *)
(* station, taken while the event task and the driver run; both hooks end  *)
(* in ss_wifi_disconnect; a reset loses the station's state too.  The host *)
(* tests' hooks (the mock backend) have no radio.                          *)
(***************************************************************************)
EXTENDS DeviceApp, Sequences

VARIABLES wpc, s_initialised, s_events, bits, drv, queue, earned, timedOut

Sta == INSTANCE WifiSta

station == <<wpc, s_initialised, s_events, bits, drv, queue, earned, timedOut>>

allVars == <<vars, station>>

WifiInit == Init /\ Sta!Init

(* A step of the station, on the device. *)
OnDevice(A) == IF wiring.backend = "esp" THEN A ELSE UNCHANGED station

(* Mutant: app_main does not pause between two cycles. *)
Paused_Not == TRUE

(* app_main's vTaskDelay(2000) before the next cycle: the event task, of   *)
(* higher priority, has emptied its queue by then.                         *)
Paused == queue = <<>>

(* Steps of a cycle that leave the station alone. *)
Elsewhere ==
    /\ \/ Boot
       \/ Paused /\ \E cause \in power_wake_cause : Wake(cause)
       \/ \E ev \in KwsEvents : RunKws(ev)
       \/ TcpConnected
       \/ EndCycle
    /\ UNCHANGED station

(* hook_connect up to the return of ss_wifi_connect. *)
ConnectBegins ==
    /\ pc = "wifi"
    /\ wiring.backend = "esp"
    /\ \E flashOk \in BOOLEAN : Sta!ConnectInit(flashOk) /\ wpc' = "clear"
    /\ UNCHANGED vars

ConnectGoesOn ==
    /\ pc = "wifi"
    /\ Sta!ClearBits \/ Sta!esp_wifi_start \/ Sta!WaitBits
    /\ UNCHANGED vars

ConnectReturns ==
    \/ WifiConnected /\ OnDevice(Sta!ReturnOk)
    \/ /\ \E ev \in ConnectErrors : WifiFailed(ev)
       /\ OnDevice(Sta!ReturnFail \/ (Sta!ConnectInit(FALSE) /\ wpc' = "out"))

(* hook_connect without a server, and hook_stream. *)
HookDisconnects ==
    /\ \/ \E ev \in ConnectErrors : TcpFailed(ev)
       \/ \E ev \in {"SERVER_CLOSED", "SESSION_TIMEOUT", "ERROR"} : StreamEnds(ev)
    /\ OnDevice(Sta!ss_wifi_disconnect)

MainTask ==
    \/ Elsewhere
    \/ ConnectBegins
    \/ ConnectGoesOn
    \/ ConnectReturns
    \/ HookDisconnects

EventTask == Sta!on_wifi_event /\ UNCHANGED vars

Driver == (Sta!DriverConnects \/ Sta!DriverFails) /\ UNCHANGED vars

(* Deep sleep and its end, a panic, a power cycle. *)
Restarts == (ExtWake \/ Reset) /\ Sta!Reset

WifiNext == MainTask \/ EventTask \/ Driver \/ Restarts

WifiSpec == WifiInit /\ [][WifiNext]_allVars

(* Both tasks run and the wait for the bits times out; the driver owes     *)
(* nothing.                                                                *)
FairWifiSpec == WifiSpec /\ WF_allVars(MainTask) /\ WF_allVars(EventTask)

-----------------------------------------------------------------------------
(* net_wifi.c:79-92, app_main.c:179: an attempt is decided by its own      *)
(* events.  It succeeds only if it got an address itself, and fails only   *)
(* if it was disconnected itself or its own time was up, although every    *)
(* session before it has left a disconnect event behind.                   *)
OwnEventsDecide == Sta!OwnEventsDecide

(* net_wifi.c:90, 95-101, app_main.c:92, 131: outside the hooks the radio  *)
(* is off, also when the event that was to connect it is handled after it  *)
(* was stopped.                                                            *)
RadioOff == pc \notin {"wifi", "tcp", "stream"} => drv \in {"absent", "stopped"}

(* app_main.c:84-133, 160-180: the hooks and the pause keep the station's  *)
(* calling contract: one attempt at a time, begun when nothing is left of  *)
(* the last one.                                                           *)
KeepsStationContract == Sta!Spec

=============================================================================
