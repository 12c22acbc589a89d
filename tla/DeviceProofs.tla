---------------------------- MODULE DeviceProofs ----------------------------
(***************************************************************************)
(* Proofs about DeviceApp, for every counter width, every set of wirings   *)
(* and every choice of hook events the contract of core/app.h allows; then *)
(* about DeviceWifi, the same runner with the Wi-Fi station under its      *)
(* hooks and an event queue of any length.                                 *)
(***************************************************************************)
EXTENDS DeviceWifi, SequenceTheorems, TLAPS

(* Remainders modulo the width of a counter. *)
LEMMA Remainder ==
    ASSUME NEW q \in Int, NEW r \in Counter
    PROVE  (CounterMod * q + r) % CounterMod = r
BY FsmAssumption, SMT DEF Counter

LEMMA Division ==
    ASSUME NEW n \in Nat
    PROVE  \E q \in Int, r \in Counter : n = CounterMod * q + r
<1>1. /\ n \div CounterMod \in Int
      /\ n % CounterMod \in Counter
      /\ n = CounterMod * (n \div CounterMod) + (n % CounterMod)
  BY FsmAssumption, SMT DEF Counter
<1> QED
  BY <1>1

(* A remainder may be taken before adding. *)
LEMMA AddRemainder ==
    ASSUME NEW a \in Nat, NEW b \in Nat
    PROVE  ((a % CounterMod) + b) % CounterMod = (a + b) % CounterMod
<1> USE FsmAssumption
<1>1. PICK q \in Int, r \in Counter : a = CounterMod * q + r
  BY Division
<1>2. a % CounterMod = r
  BY <1>1, Remainder
<1>0. r + b \in Nat
  BY SMT DEF Counter
<1>3. PICK p \in Int, s \in Counter : r + b = CounterMod * p + s
  BY <1>0, Division
<1>4. (r + b) % CounterMod = s
  BY <1>3, Remainder
<1>5. q + p \in Int /\ a + b = CounterMod * (q + p) + s
  BY <1>1, <1>3, SMT DEF Counter
<1>6. (a + b) % CounterMod = s
  BY <1>5, Remainder
<1> QED
  BY <1>2, <1>4, <1>6

(* counter++ on one of several counters adds one to their total. *)
LEMMA CountOne ==
    ASSUME NEW a \in Nat, NEW rest \in Nat
    PROVE  (Inc(a) + rest) % CounterMod = Inc((a + rest) % CounterMod)
<1>1. (Inc(a) + rest) % CounterMod = ((a + 1) + rest) % CounterMod
  BY AddRemainder DEF Inc
<1>2. Inc((a + rest) % CounterMod) = ((a + rest) + 1) % CounterMod
  BY AddRemainder DEF Inc
<1>3. (a + 1) + rest = (a + rest) + 1
  BY SMT
<1> QED
  BY <1>1, <1>2, <1>3

LEMMA IncType == ASSUME NEW n \in Counter PROVE Inc(n) \in Counter
BY FsmAssumption, SMT DEF Inc, Counter

-----------------------------------------------------------------------------
(* The inductive invariant.  FsmInStep is what makes the others inductive:  *)
(* it says which branch of fsm_dispatch the next hook's event will take.    *)
IInv == TypeOK /\ FsmInStep /\ Accounted /\ NoLeak /\ NoUnaskedStream

(* The counted outcomes of a boot. *)
Total(f, z) == f.reject_count + f.session_count + f.error_count + z

(* The counters after one more outcome. *)
OneMore(f, g, z, y) == Total(g, y) % CounterMod = Inc(Total(f, z) % CounterMod)

LEMMA CountersNat ==
    ASSUME NEW f \in fsm_t, NEW z \in Counter
    PROVE  /\ f.reject_count \in Nat /\ f.session_count \in Nat
           /\ f.error_count \in Nat /\ z \in Nat
BY FsmAssumption, SMT DEF fsm_t, Counter

(* fsm.c:36-40, 69-73: a failure is counted once and ends in ERROR. *)
LEMMA FailOutcome ==
    ASSUME NEW f \in fsm_t, NEW z \in Counter
    PROVE  /\ Fail(f).fsm \in fsm_t /\ Fail(f).fsm.state = "ERROR"
           /\ Fail(f).fsm.reject_count = f.reject_count
           /\ Fail(f).act = "ENTER_SLEEP"
           /\ OneMore(f, Fail(f).fsm, z, z)
<1> DEFINE g == Fail(f).fsm
<1>1. g = [f EXCEPT !.error_count = Inc(@), !.state = "ERROR"]
      /\ Fail(f).act = "ENTER_SLEEP"
  BY DEF Fail, Outcome
<1>2. Inc(f.error_count) \in Counter
  BY IncType DEF fsm_t
<1>3. /\ g \in fsm_t /\ g.state = "ERROR" /\ g.reject_count = f.reject_count
      /\ g.session_count = f.session_count /\ g.error_count = Inc(f.error_count)
  BY <1>1, <1>2 DEF fsm_t, FsmStates
<1>4. OneMore(f, g, z, z)
  <2> DEFINE rest == f.reject_count + f.session_count + z
  <2>1. /\ rest \in Nat /\ f.error_count \in Nat
        /\ Total(f, z) = f.error_count + rest
        /\ Total(g, z) = Inc(f.error_count) + rest
    BY <1>2, <1>3, CountersNat, FsmAssumption, SMT DEF Total, Counter
  <2> HIDE DEF rest, g
  <2> QED
    BY <2>1, CountOne DEF OneMore
<1> QED
  BY <1>1, <1>3, <1>4

(* fsm.c:57-61: a rejection is counted once and ends in SLEEP. *)
LEMMA RejectOutcome ==
    ASSUME NEW f \in fsm_t, NEW z \in Counter, NEW g,
           g = [f EXCEPT !.reject_count = Inc(@), !.state = "SLEEP"]
    PROVE  /\ g \in fsm_t /\ g.state = "SLEEP"
           /\ g.reject_count = Inc(f.reject_count)
           /\ OneMore(f, g, z, z)
<1>2. Inc(f.reject_count) \in Counter
  BY IncType DEF fsm_t
<1>3. /\ g \in fsm_t /\ g.state = "SLEEP" /\ g.reject_count = Inc(f.reject_count)
      /\ g.session_count = f.session_count /\ g.error_count = f.error_count
  BY <1>2 DEF fsm_t, FsmStates
<1>4. OneMore(f, g, z, z)
  <2> DEFINE rest == f.session_count + f.error_count + z
  <2>1. /\ rest \in Nat /\ f.reject_count \in Nat
        /\ Total(f, z) = f.reject_count + rest
        /\ Total(g, z) = Inc(f.reject_count) + rest
    BY <1>2, <1>3, CountersNat, FsmAssumption, SMT DEF Total, Counter
  <2> HIDE DEF rest
  <2> QED
    BY <2>1, CountOne DEF OneMore
<1> QED
  BY <1>3, <1>4

(* fsm.c:77-81: a finished session is counted once and ends in SLEEP. *)
LEMMA SessionOutcome ==
    ASSUME NEW f \in fsm_t, NEW z \in Counter, NEW g,
           g = [f EXCEPT !.session_count = Inc(@), !.state = "SLEEP"]
    PROVE  /\ g \in fsm_t /\ g.state = "SLEEP"
           /\ g.reject_count = f.reject_count
           /\ OneMore(f, g, z, z)
<1>2. Inc(f.session_count) \in Counter
  BY IncType DEF fsm_t
<1>3. /\ g \in fsm_t /\ g.state = "SLEEP" /\ g.session_count = Inc(f.session_count)
      /\ g.reject_count = f.reject_count /\ g.error_count = f.error_count
  BY <1>2 DEF fsm_t, FsmStates
<1>4. OneMore(f, g, z, z)
  <2> DEFINE rest == f.reject_count + f.error_count + z
  <2>1. /\ rest \in Nat /\ f.session_count \in Nat
        /\ Total(f, z) = f.session_count + rest
        /\ Total(g, z) = Inc(f.session_count) + rest
    BY <1>2, <1>3, CountersNat, FsmAssumption, SMT DEF Total, Counter
  <2> HIDE DEF rest
  <2> QED
    BY <2>1, CountOne DEF OneMore
<1> QED
  BY <1>3, <1>4

(* fsm.c:13-31: what a wake does from a state of rest. *)
LEMMA WakeOutcome ==
    ASSUME NEW f \in fsm_t, f.state \in RestStates, NEW c \in WakeCauses,
           NEW z \in Counter, NEW g, NEW a,
           g = fsm_dispatch(f, "WOKE", c).fsm, a = fsm_dispatch(f, "WOKE", c).act
    PROVE  /\ g \in fsm_t /\ g.last_wake_cause = c
           /\ g.reject_count = f.reject_count
           /\ \/ /\ c \in {"SOUND_TRIGGER", "POWER_ON"}
                 /\ g.state = "CONFIRM_KWS" /\ a = "START_KWS"
              \/ c = "BUTTON" /\ g.state = "CONNECT" /\ a = "START_CONNECT"
              \/ c \in {"TIMER", "UNKNOWN"} /\ g.state = "SLEEP" /\ a = "ENTER_SLEEP"
           /\ Total(g, z) = Total(f, z)
           /\ OneMore(f, g, z, Inc(z))
<1>1. fsm_dispatch(f, "WOKE", c) = on_wake(f, c)
  BY DEF fsm_dispatch, RestStates
<1>2. /\ g \in fsm_t /\ g.last_wake_cause = c
      /\ \/ /\ c \in {"SOUND_TRIGGER", "POWER_ON"}
            /\ g.state = "CONFIRM_KWS" /\ a = "START_KWS"
         \/ c = "BUTTON" /\ g.state = "CONNECT" /\ a = "START_CONNECT"
         \/ c \in {"TIMER", "UNKNOWN"} /\ g.state = "SLEEP" /\ a = "ENTER_SLEEP"
      /\ g.reject_count = f.reject_count /\ g.session_count = f.session_count
      /\ g.error_count = f.error_count
  <2> DEFINE w == [f EXCEPT !.last_wake_cause = c]
  <2>1. /\ w \in fsm_t /\ w.last_wake_cause = c /\ w.reject_count = f.reject_count
        /\ w.session_count = f.session_count /\ w.error_count = f.error_count
    BY DEF fsm_t
  <2>2. CASE c \in {"SOUND_TRIGGER", "POWER_ON"}
    <3>1. g = [w EXCEPT !.state = "CONFIRM_KWS"] /\ a = "START_KWS"
      BY <1>1, <2>2 DEF on_wake, Outcome
    <3> HIDE DEF w
    <3> QED
      BY <2>1, <2>2, <3>1 DEF fsm_t, FsmStates
  <2>3. CASE c = "BUTTON"
    <3>1. g = [w EXCEPT !.state = "CONNECT"] /\ a = "START_CONNECT"
      BY <1>1, <2>3 DEF on_wake, Outcome
    <3> HIDE DEF w
    <3> QED
      BY <2>1, <2>3, <3>1 DEF fsm_t, FsmStates
  <2>4. CASE c \in {"TIMER", "UNKNOWN"}
    <3>1. g = [w EXCEPT !.state = "SLEEP"] /\ a = "ENTER_SLEEP"
      BY <1>1, <2>4 DEF on_wake, Outcome
    <3> HIDE DEF w
    <3> QED
      BY <2>1, <2>4, <3>1 DEF fsm_t, FsmStates
  <2> QED
    BY <2>2, <2>3, <2>4 DEF WakeCauses
<1>3. Total(g, z) = Total(f, z)
  BY <1>2 DEF Total
<1>4. OneMore(f, g, z, Inc(z))
  <2> DEFINE rest == f.reject_count + f.session_count + f.error_count
  <2>1. Inc(z) \in Counter
    BY IncType
  <2>2. /\ rest \in Nat /\ z \in Nat
        /\ Total(f, z) = z + rest
        /\ Total(g, Inc(z)) = Inc(z) + rest
    BY <1>2, <2>1, CountersNat, FsmAssumption, SMT DEF Total, Counter
  <2> HIDE DEF rest
  <2> QED
    BY <2>2, CountOne DEF OneMore
<1> QED
  BY <1>2, <1>3, <1>4

-----------------------------------------------------------------------------
LEMMA InitIInv == Init => IInv
<1> SUFFICES ASSUME Init PROVE IInv
  OBVIOUS
<1>1. 0 \in Counter
  BY FsmAssumption, SMT DEF Counter
<1>2. TypeOK
  BY <1>1 DEF Init, TypeOK, fsm_init, fsm_t, FsmStates, WakeCauses, Pcs
<1> QED
  BY <1>2 DEF IInv, Init, FsmInStep, Accounted, NoLeak, NoUnaskedStream, Running

LEMMA BootIInv == IInv /\ Boot => IInv'
<1> SUFFICES ASSUME IInv, Boot PROVE IInv'
  OBVIOUS
<1>1. 0 \in Counter /\ (0 + 0 + 0 + 0) % CounterMod = 0
  BY FsmAssumption, SMT DEF Counter
<1>2. TypeOK'
  BY <1>1 DEF IInv, Boot, TypeOK, fsm_init, fsm_t, FsmStates, WakeCauses, Pcs
<1>3. Accounted'
  BY <1>1 DEF Boot, Accounted, Decided, fsm_init
<1> QED
  BY <1>2, <1>3 DEF IInv, Boot, FsmInStep, NoLeak, NoUnaskedStream, fsm_init,
     RestStates

(* A cycle that is decided, and was not before, keeps the invariant. *)
LEMMA CycleDecided ==
    ASSUME IInv, pc \in {"idle", "kws", "wifi", "tcp", "stream"}, pc' = "end",
           fsm' \in fsm_t, fsm'.state \in RestStates,
           OneMore(fsm, fsm', dozes, dozes'), dozes' \in Counter,
           power' \in [sleep_count : Counter, false_wake_count : Counter],
           power'.false_wake_count = fsm'.reject_count,
           confirmed' \in BOOLEAN, wifi' = FALSE, sock' = FALSE,
           UNCHANGED <<wiring, hwCause, cycles>>
    PROVE  IInv'
<1>1. TypeOK'
  BY DEF IInv, TypeOK, Pcs
<1>2. Accounted'
  BY DEF IInv, Accounted, Running, Decided, OneMore, Total
<1> QED
  BY <1>1, <1>2 DEF IInv, FsmInStep, NoLeak, NoUnaskedStream

LEMMA WakeIInv ==
    ASSUME IInv, NEW c \in WakeCauses, Wake(c)
    PROVE  IInv'
<1>1. /\ fsm \in fsm_t /\ fsm.state \in RestStates /\ dozes \in Counter
      /\ pc = "idle" /\ wifi = FALSE /\ sock = FALSE
  BY DEF IInv, TypeOK, FsmInStep, NoLeak, Wake
<1> DEFINE g == fsm_dispatch(fsm, "WOKE", c).fsm
           a == fsm_dispatch(fsm, "WOKE", c).act
<1>2. fsm' = g /\ pc' = PcOf(a)
  BY DEF Wake, Dispatch
<1>3. /\ g \in fsm_t /\ g.last_wake_cause = c
      /\ g.reject_count = fsm.reject_count
      /\ \/ /\ c \in {"SOUND_TRIGGER", "POWER_ON"}
            /\ g.state = "CONFIRM_KWS" /\ a = "START_KWS"
         \/ c = "BUTTON" /\ g.state = "CONNECT" /\ a = "START_CONNECT"
         \/ c \in {"TIMER", "UNKNOWN"} /\ g.state = "SLEEP" /\ a = "ENTER_SLEEP"
      /\ Total(g, dozes) = Total(fsm, dozes)
      /\ OneMore(fsm, g, dozes, Inc(dozes))
  BY <1>1, WakeOutcome
<1> HIDE DEF g, a
<1>4. CASE c \in {"TIMER", "UNKNOWN"}
  <2>1. pc' = "end" /\ dozes' = Inc(dozes) /\ confirmed' = FALSE
        /\ UNCHANGED <<wiring, hwCause, cycles, power, wifi, sock>>
    BY <1>2, <1>3, <1>4 DEF Wake, PcOf
  <2>2. Inc(dozes) \in Counter
    BY <1>1, IncType
  <2>3. power'.false_wake_count = fsm'.reject_count
    BY <1>1, <1>2, <1>3, <2>1 DEF IInv, Accounted, Running
  <2>4. fsm'.state \in RestStates
    BY <1>2, <1>3, <1>4 DEF RestStates
  <2>5. power' \in [sleep_count : Counter, false_wake_count : Counter]
    BY <2>1 DEF IInv, TypeOK
  <2> QED
    BY <1>1, <1>2, <1>3, <2>1, <2>2, <2>3, <2>4, <2>5, CycleDecided
<1>5. CASE c \notin {"TIMER", "UNKNOWN"}
  <2>1. dozes' = dozes /\ confirmed' = FALSE
        /\ UNCHANGED <<wiring, hwCause, cycles, power, wifi, sock>>
    BY <1>5 DEF Wake
  <2>2. \/ pc' = "kws" /\ g.state = "CONFIRM_KWS"
        \/ pc' = "wifi" /\ g.state = "CONNECT" /\ c = "BUTTON"
    BY <1>2, <1>3, <1>5 DEF PcOf
  <2>3. TypeOK'
    BY <1>2, <1>3, <2>1, <2>2 DEF IInv, TypeOK, Pcs
  <2>4. Accounted'
    <3>1. /\ cycles = Total(fsm, dozes) % CounterMod
          /\ power.false_wake_count = fsm.reject_count
      BY <1>1 DEF IInv, Accounted, Running, Decided, Total
    <3>2. Decided' = cycles
      BY <2>1, <2>2 DEF Decided
    <3> QED
      BY <1>2, <1>3, <2>1, <3>1, <3>2 DEF Accounted, Total
  <2> QED
    BY <1>1, <1>2, <1>3, <2>1, <2>2, <2>3, <2>4
       DEF IInv, FsmInStep, NoLeak, NoUnaskedStream
<1> QED
  BY <1>4, <1>5

LEMMA RunKwsIInv ==
    ASSUME IInv, NEW ev \in KwsEvents, RunKws(ev)
    PROVE  IInv'
<1>1. /\ fsm \in fsm_t /\ fsm.state = "CONFIRM_KWS" /\ dozes \in Counter
      /\ pc = "kws" /\ wifi = FALSE /\ sock = FALSE
      /\ power \in [sleep_count : Counter, false_wake_count : Counter]
      /\ power.false_wake_count = fsm.reject_count
  BY DEF IInv, TypeOK, FsmInStep, NoLeak, Accounted, Running, RunKws
<1>2. /\ fsm' = fsm_dispatch(fsm, ev, "UNKNOWN").fsm
      /\ pc' = PcOf(fsm_dispatch(fsm, ev, "UNKNOWN").act)
      /\ UNCHANGED <<wiring, hwCause, cycles, wifi, sock, dozes>>
      /\ confirmed' = (ev = "KWS_CONFIRMED")
      /\ power' = IF ev = "KWS_REJECTED"
                  THEN [power EXCEPT !.false_wake_count = Inc(@)] ELSE power
  BY DEF RunKws, Dispatch
<1>3. CASE ev = "ERROR"
  <2>1. fsm_dispatch(fsm, ev, "UNKNOWN") = Fail(fsm)
    BY <1>3 DEF fsm_dispatch
  <2>2. pc' = "end" /\ fsm' = Fail(fsm).fsm
    BY <1>1, <1>2, <2>1, FailOutcome DEF PcOf
  <2>3. /\ fsm' \in fsm_t /\ fsm'.state \in RestStates
        /\ fsm'.reject_count = fsm.reject_count
        /\ OneMore(fsm, fsm', dozes, dozes)
    BY <1>1, <2>2, FailOutcome DEF RestStates
  <2> QED
    BY <1>1, <1>2, <1>3, <2>2, <2>3, CycleDecided
<1>4. CASE ev = "KWS_REJECTED"
  <2> DEFINE g == [fsm EXCEPT !.reject_count = Inc(@), !.state = "SLEEP"]
  <2>1. fsm_dispatch(fsm, ev, "UNKNOWN") = Outcome(g, "ENTER_SLEEP")
    BY <1>1, <1>4 DEF fsm_dispatch, RestStates
  <2>2. pc' = "end" /\ fsm' = g
    BY <1>2, <2>1 DEF PcOf, Outcome
  <2> HIDE DEF g
  <2>3. /\ fsm' \in fsm_t /\ fsm'.state \in RestStates
        /\ fsm'.reject_count = Inc(fsm.reject_count)
        /\ OneMore(fsm, fsm', dozes, dozes)
    BY <1>1, <2>2, RejectOutcome DEF RestStates, g
  <2>4. /\ power' \in [sleep_count : Counter, false_wake_count : Counter]
        /\ power'.false_wake_count = fsm'.reject_count
    <3>1. Inc(power.false_wake_count) \in Counter
      BY <1>1, IncType
    <3> QED
      BY <1>1, <1>2, <1>4, <2>3, <3>1
  <2> QED
    BY <1>1, <1>2, <2>2, <2>3, <2>4, CycleDecided
<1>5. CASE ev = "KWS_CONFIRMED"
  <2> DEFINE g == [fsm EXCEPT !.confirm_count = Inc(@), !.state = "CONNECT"]
  <2>1. fsm_dispatch(fsm, ev, "UNKNOWN") = Outcome(g, "START_CONNECT")
    BY <1>1, <1>5 DEF fsm_dispatch, RestStates
  <2>2. /\ pc' = "wifi" /\ fsm' = g /\ power' = power
        /\ confirmed' \in BOOLEAN /\ confirmed'
    <3>1. pc' = "wifi" /\ fsm' = g /\ power' = power
      BY <1>2, <1>5, <2>1 DEF PcOf, Outcome
    <3>2. confirmed' \in BOOLEAN /\ confirmed'
      BY <1>2, <1>5
    <3> QED
      BY <3>1, <3>2
  <2>3. Inc(fsm.confirm_count) \in Counter
    BY <1>1, IncType DEF fsm_t
  <2>4. /\ g \in fsm_t /\ g.state = "CONNECT"
        /\ g.reject_count = fsm.reject_count /\ g.session_count = fsm.session_count
        /\ g.error_count = fsm.error_count
    BY <1>1, <2>3 DEF fsm_t, FsmStates
  <2> HIDE DEF g
  <2>5. TypeOK'
    BY <1>1, <1>2, <2>2, <2>4 DEF IInv, TypeOK, Pcs
  <2>6. Accounted'
    BY <1>1, <1>2, <2>2, <2>4 DEF IInv, Accounted, Running, Decided
  <2> QED
    BY <1>1, <1>2, <2>2, <2>4, <2>5, <2>6
       DEF IInv, FsmInStep, NoLeak, NoUnaskedStream
<1> QED
  BY <1>3, <1>4, <1>5, DeviceAssumption

(* hook_connect fails, at the Wi-Fi link or at the socket. *)
LEMMA ConnectFailsIInv ==
    ASSUME IInv, NEW ev \in ConnectErrors, pc \in {"wifi", "tcp"},
           Dispatch(ev, "UNKNOWN"), wifi' = FALSE,
           UNCHANGED <<wiring, hwCause, cycles, power, sock, confirmed, dozes>>
    PROVE  IInv'
<1>1. /\ fsm \in fsm_t /\ fsm.state = "CONNECT" /\ dozes \in Counter
      /\ sock = FALSE /\ confirmed \in BOOLEAN
      /\ power \in [sleep_count : Counter, false_wake_count : Counter]
      /\ power.false_wake_count = fsm.reject_count
  BY DEF IInv, TypeOK, FsmInStep, NoLeak, Accounted, Running
<1>2. fsm_dispatch(fsm, ev, "UNKNOWN") = Fail(fsm)
  BY <1>1, DeviceAssumption DEF fsm_dispatch
<1>3. pc' = "end" /\ fsm' = Fail(fsm).fsm
  BY <1>1, <1>2, FailOutcome DEF Dispatch, PcOf
<1>4. /\ fsm' \in fsm_t /\ fsm'.state \in RestStates
      /\ fsm'.reject_count = fsm.reject_count
      /\ OneMore(fsm, fsm', dozes, dozes)
  BY <1>1, <1>3, FailOutcome DEF RestStates
<1> QED
  BY <1>1, <1>3, <1>4, CycleDecided

LEMMA WifiConnectedIInv == IInv /\ WifiConnected => IInv'
BY DEF IInv, WifiConnected, TypeOK, Pcs, FsmInStep, Accounted, Running, Decided,
   NoLeak, NoUnaskedStream

LEMMA TcpConnectedIInv == IInv /\ TcpConnected => IInv'
<1> SUFFICES ASSUME IInv, TcpConnected PROVE IInv'
  OBVIOUS
<1>1. fsm \in fsm_t /\ fsm.state = "CONNECT" /\ pc = "tcp"
  BY DEF IInv, TypeOK, FsmInStep, TcpConnected
<1> DEFINE g == [fsm EXCEPT !.state = "STREAM"]
<1>2. fsm_dispatch(fsm, "CONNECTED", "UNKNOWN") = Outcome(g, "START_STREAM")
  BY <1>1 DEF fsm_dispatch
<1>3. /\ fsm' = g /\ pc' = "stream" /\ sock' = TRUE
      /\ UNCHANGED <<wiring, hwCause, cycles, power, wifi, confirmed, dozes>>
  BY <1>2 DEF TcpConnected, Dispatch, Outcome, PcOf
<1>4. /\ g \in fsm_t /\ g.state = "STREAM" /\ g.last_wake_cause = fsm.last_wake_cause
      /\ g.reject_count = fsm.reject_count /\ g.session_count = fsm.session_count
      /\ g.error_count = fsm.error_count
  BY <1>1 DEF fsm_t, FsmStates
<1> HIDE DEF g
<1>5. TypeOK'
  BY <1>3, <1>4 DEF IInv, TypeOK, Pcs
<1>6. Accounted'
  BY <1>1, <1>3, <1>4 DEF IInv, Accounted, Running, Decided
<1> QED
  BY <1>1, <1>3, <1>4, <1>5, <1>6 DEF IInv, FsmInStep, NoLeak, NoUnaskedStream

LEMMA StreamEndsIInv ==
    ASSUME IInv, NEW ev \in {"SERVER_CLOSED", "SESSION_TIMEOUT", "ERROR"},
           StreamEnds(ev)
    PROVE  IInv'
<1>1. /\ fsm \in fsm_t /\ fsm.state = "STREAM" /\ dozes \in Counter
      /\ pc = "stream" /\ confirmed \in BOOLEAN
      /\ power \in [sleep_count : Counter, false_wake_count : Counter]
      /\ power.false_wake_count = fsm.reject_count
  BY DEF IInv, TypeOK, FsmInStep, Accounted, Running, StreamEnds
<1>2. /\ fsm' = fsm_dispatch(fsm, ev, "UNKNOWN").fsm
      /\ pc' = PcOf(fsm_dispatch(fsm, ev, "UNKNOWN").act)
      /\ wifi' = FALSE /\ sock' = FALSE
      /\ UNCHANGED <<wiring, hwCause, cycles, power, confirmed, dozes>>
  BY DEF StreamEnds, Dispatch
<1>3. /\ pc' = "end" /\ fsm' \in fsm_t /\ fsm'.state \in RestStates
      /\ fsm'.reject_count = fsm.reject_count
      /\ OneMore(fsm, fsm', dozes, dozes)
  <2>1. CASE ev = "ERROR"
    <3>1. fsm_dispatch(fsm, ev, "UNKNOWN") = Fail(fsm)
      BY <2>1 DEF fsm_dispatch
    <3> QED
      BY <1>1, <1>2, <3>1, FailOutcome DEF PcOf, RestStates
  <2>2. CASE ev # "ERROR"
    <3> DEFINE g == [fsm EXCEPT !.session_count = Inc(@), !.state = "SLEEP"]
    <3>1. fsm_dispatch(fsm, ev, "UNKNOWN") = Outcome(g, "ENTER_SLEEP")
      BY <1>1, <2>2 DEF fsm_dispatch, RestStates
    <3>2. fsm' = g /\ pc' = "end"
      BY <1>2, <3>1 DEF Outcome, PcOf
    <3> QED
      BY <1>1, <3>2, SessionOutcome DEF RestStates
  <2> QED
    BY <2>1, <2>2
<1> QED
  BY <1>1, <1>2, <1>3, CycleDecided

LEMMA EndCycleIInv == IInv /\ EndCycle => IInv'
<1> SUFFICES ASSUME IInv, EndCycle PROVE IInv'
  OBVIOUS
<1>1. /\ pc = "end" /\ cycles \in Counter /\ cycles' = Inc(cycles)
      /\ pc' \in {"idle", "asleep", "done"}
      /\ UNCHANGED <<wiring, hwCause, fsm, wifi, sock, confirmed, dozes>>
  BY DEF IInv, TypeOK, EndCycle
<1>2. Inc(cycles) \in Counter
  BY <1>1, IncType
<1>3. /\ power' \in [sleep_count : Counter, false_wake_count : Counter]
      /\ power'.false_wake_count = power.false_wake_count
  <2>1. Inc(power.sleep_count) \in Counter
    BY IncType DEF IInv, TypeOK
  <2> QED
    BY <2>1 DEF IInv, TypeOK, EndCycle
<1>4. TypeOK'
  BY <1>1, <1>2, <1>3 DEF IInv, TypeOK, Pcs
<1>5. Accounted'
  BY <1>1, <1>3 DEF IInv, Accounted, Running, Decided
<1> QED
  BY <1>1, <1>4, <1>5 DEF IInv, FsmInStep, NoLeak, NoUnaskedStream

LEMMA RestartIInv ==
    ASSUME IInv, NEW c \in WakeCauses, Restart(c)
    PROVE  IInv'
BY DEF IInv, Restart, TypeOK, Pcs, FsmInStep, Accounted, Running, NoLeak,
   NoUnaskedStream

LEMMA NextIInv == IInv /\ [Next]_vars => IInv'
<1> SUFFICES ASSUME IInv, [Next]_vars PROVE IInv'
  OBVIOUS
<1>1. CASE Boot
  BY <1>1, BootIInv
<1>2. ASSUME NEW c \in power_wake_cause, Wake(c) PROVE IInv'
  <2>1. c \in WakeCauses
    BY DEF power_wake_cause, IInv, TypeOK
  <2> QED
    BY <1>2, <2>1, WakeIInv
<1>3. ASSUME NEW ev \in KwsEvents, RunKws(ev) PROVE IInv'
  BY <1>3, RunKwsIInv
<1>4. CASE WifiConnected
  BY <1>4, WifiConnectedIInv
<1>5. ASSUME NEW ev \in ConnectErrors, WifiFailed(ev) PROVE IInv'
  <2>1. wifi' = FALSE /\ pc \in {"wifi", "tcp"}
    BY <1>5 DEF WifiFailed, IInv, NoLeak, TypeOK
  <2> QED
    BY <1>5, <2>1, ConnectFailsIInv DEF WifiFailed
<1>6. CASE TcpConnected
  BY <1>6, TcpConnectedIInv
<1>7. ASSUME NEW ev \in ConnectErrors, TcpFailed(ev) PROVE IInv'
  BY <1>7, ConnectFailsIInv DEF TcpFailed
<1>8. ASSUME NEW ev \in {"SERVER_CLOSED", "SESSION_TIMEOUT", "ERROR"},
             StreamEnds(ev)
      PROVE  IInv'
  BY <1>8, StreamEndsIInv
<1>9. CASE EndCycle
  BY <1>9, EndCycleIInv
<1>10. CASE ExtWake \/ Reset
  BY <1>10, RestartIInv DEF ExtWake, Reset, WakeCauses
<1>11. CASE UNCHANGED vars
  BY <1>11 DEF vars, IInv, TypeOK, FsmInStep, Accounted, Running, Decided, NoLeak,
     NoUnaskedStream
<1> QED
  BY <1>1, <1>2, <1>3, <1>4, <1>5, <1>6, <1>7, <1>8, <1>9, <1>10, <1>11
     DEF Next, Step

LEMMA SpecIInv == Spec => []IInv
BY InitIInv, NextIInv, PTL DEF Spec

(* Type correctness of the device's state. *)
THEOREM TypeCorrect == Spec => []TypeOK
<1>1. IInv => TypeOK
  BY DEF IInv
<1> QED
  BY <1>1, SpecIInv, PTL

(* app.c:18-54: with hooks that keep the contract of app.h the FSM is      *)
(* never left in a state that would ignore the next wake.                  *)
THEOREM FsmStaysInStep == Spec => []FsmInStep
<1>1. IInv => FsmInStep
  BY DEF IInv
<1> QED
  BY <1>1, SpecIInv, PTL

(* fsm.c, power.c: the counters account for every cycle, for every width   *)
(* and across their wrap.                                                  *)
THEOREM CyclesAccounted == Spec => []Accounted
<1>1. IInv => Accounted
  BY DEF IInv
<1> QED
  BY <1>1, SpecIInv, PTL

(* app_main.c:84-133: no path through the hooks leaks the socket or leaves *)
(* Wi-Fi up in a wait or a sleep.                                          *)
THEOREM ResourcesReleased == Spec => []NoLeak
<1>1. IInv => NoLeak
  BY DEF IInv
<1> QED
  BY <1>1, SpecIInv, PTL

(* fsm.c:13-62: nothing is streamed without a confirmed wake word or the   *)
(* button.                                                                 *)
THEOREM StreamsOnlyWhenAsked == Spec => []NoUnaskedStream
<1>1. IInv => NoUnaskedStream
  BY DEF IInv
<1> QED
  BY <1>1, SpecIInv, PTL

-----------------------------------------------------------------------------
(* DeviceWifi *)

(* An event posted in the present attempt. *)
OwnEvent ==
    [id : {"STA_START", "STA_DISCONNECTED", "STA_GOT_IP"}, current : {TRUE}]

(* The station's inductive invariant.  No event in the queue is of an      *)
(* earlier attempt, and from the clearing of the bits on every bit that is *)
(* set was set by an event of this attempt.                                *)
StaInv ==
    /\ Sta!OwnEventsDecide
    /\ Sta!RadioOff
    /\ queue \in Seq(OwnEvent)
    /\ wpc \in {"start", "wait", "woken", "up"} => s_events \subseteq earned

(* Where the main task is in the hooks and where it is in the station.     *)
(* The queue is empty from the pause before a cycle to its attempt.        *)
Coupled ==
    /\ wiring.backend = "esp" =>
         /\ pc \in {"tcp", "stream"} => wpc = "up"
         /\ pc = "wifi" => wpc # "up"
         /\ pc \notin {"wifi", "tcp", "stream"} => wpc = "out"
         /\ pc \in {"kws", "wifi"} /\ wpc = "out" => queue = <<>>
    /\ wiring.backend = "mock" => wpc = "out" /\ queue = <<>> /\ drv = "absent"

WInv == IInv /\ StaInv /\ Coupled

-----------------------------------------------------------------------------
(* The station under its calling contract *)

LEMMA StaInitInv == Sta!Init => StaInv
<1> SUFFICES ASSUME Sta!Init PROVE StaInv
  OBVIOUS
<1>1. /\ <<>> \in Seq(OwnEvent)
      /\ <<>> \in Seq([id : {"STA_START", "STA_DISCONNECTED", "STA_GOT_IP"},
                       current : BOOLEAN])
  BY EmptySeq
<1> QED
  BY <1>1 DEF Sta!Init, StaInv, Sta!OwnEventsDecide, Sta!TypeOK, Sta!RadioOff,
     Sta!Places, Sta!DriverStates, Sta!Bits

(* Own events are events. *)
LEMMA OwnEventsTyped ==
    Seq(OwnEvent) \subseteq
        Seq([id : {"STA_START", "STA_DISCONNECTED", "STA_GOT_IP"}, current : BOOLEAN])
<1>1. OwnEvent \subseteq
        [id : {"STA_START", "STA_DISCONNECTED", "STA_GOT_IP"}, current : BOOLEAN]
  BY DEF OwnEvent
<1> QED
  BY <1>1, SeqMonotonic

(* What is posted keeps the queue free of older events. *)
LEMMA PostedIsOwn ==
    ASSUME queue \in Seq(OwnEvent),
           NEW id \in {"STA_START", "STA_DISCONNECTED", "STA_GOT_IP"}
    PROVE  Append(queue, Sta!Event(id)) \in Seq(OwnEvent)
<1>1. Sta!Event(id) \in OwnEvent
  BY DEF Sta!Event, OwnEvent
<1> QED
  BY <1>1, AppendProperties

LEMMA DisconnectedIsOwn ==
    ASSUME queue \in Seq(OwnEvent), Sta!Disconnected
    PROVE  queue' \in Seq(OwnEvent)
BY PostedIsOwn DEF Sta!Disconnected

(* The invariant from its parts; a step that keeps the bits and the task's *)
(* place needs to say only what it does to the queue and the driver.       *)
LEMMA QuietStep ==
    ASSUME StaInv, queue' \in Seq(OwnEvent), drv' \in Sta!DriverStates,
           Sta!RadioOff',
           UNCHANGED <<wpc, s_initialised, s_events, bits, earned, timedOut>>
    PROVE  StaInv'
BY OwnEventsTyped DEF StaInv, Sta!OwnEventsDecide, Sta!TypeOK

(* The marking of an empty queue. *)
LEMMA EmptyMarked ==
    ASSUME queue = <<>>,
           queue' = [i \in DOMAIN queue |-> [queue[i] EXCEPT !.current = FALSE]]
    PROVE  queue' = <<>>
<1>1. DOMAIN queue = {}
  BY SMT
<1> QED
  BY <1>1, SMT

LEMMA ConnectInitInv ==
    ASSUME StaInv, queue = <<>>, NEW flashOk \in BOOLEAN, Sta!ConnectInit(flashOk)
    PROVE  StaInv'
<1>1. queue' = <<>>
  BY EmptyMarked DEF Sta!ConnectInit
<1>2. queue' \in Seq(OwnEvent)
  BY <1>1, EmptySeq
<1>3. Sta!TypeOK'
  BY <1>2, OwnEventsTyped
     DEF StaInv, Sta!OwnEventsDecide, Sta!TypeOK, Sta!ConnectInit, Sta!Places,
         Sta!DriverStates, Sta!Bits
<1>4. wpc' \in {"out", "clear"} /\ drv' \in {"absent", "stopped"}
  BY DEF StaInv, Sta!RadioOff, Sta!ConnectInit
<1> QED
  BY <1>2, <1>3, <1>4 DEF StaInv, Sta!OwnEventsDecide, Sta!RadioOff

LEMMA MainTaskInv ==
    ASSUME StaInv, Sta!MainTask
    PROVE  StaInv'
<1>0. queue' \in Seq(OwnEvent)
  BY PostedIsOwn, DisconnectedIsOwn
     DEF StaInv, Sta!MainTask, Sta!ClearBits, Sta!esp_wifi_start, Sta!WaitBits,
         Sta!ReturnOk, Sta!ReturnFail, Sta!ss_wifi_disconnect
<1>1. queue' \in Seq([id : {"STA_START", "STA_DISCONNECTED", "STA_GOT_IP"},
                      current : BOOLEAN])
  BY <1>0, OwnEventsTyped
<1>2. CASE Sta!ClearBits
  BY <1>0, <1>1, <1>2 DEF Sta!ClearBits, StaInv, Sta!OwnEventsDecide, Sta!TypeOK,
     Sta!RadioOff, Sta!Places
<1>3. CASE Sta!esp_wifi_start
  BY <1>0, <1>1, <1>3 DEF Sta!esp_wifi_start, StaInv, Sta!OwnEventsDecide,
     Sta!TypeOK, Sta!RadioOff, Sta!Places, Sta!DriverStates
<1>4. CASE Sta!WaitBits
  <2>1. timedOut' \in BOOLEAN /\ (bits' = {} => timedOut')
    BY <1>4 DEF Sta!WaitBits
  <2> QED
    BY <1>0, <1>1, <1>4, <2>1 DEF Sta!WaitBits, StaInv, Sta!OwnEventsDecide,
       Sta!TypeOK, Sta!RadioOff, Sta!Places
<1>5. CASE Sta!ReturnOk
  BY <1>0, <1>1, <1>5 DEF Sta!ReturnOk, StaInv, Sta!OwnEventsDecide, Sta!TypeOK,
     Sta!RadioOff, Sta!Places
<1>6. CASE Sta!ReturnFail \/ Sta!ss_wifi_disconnect
  BY <1>0, <1>1, <1>6 DEF Sta!ReturnFail, Sta!ss_wifi_disconnect, StaInv,
     Sta!OwnEventsDecide, Sta!TypeOK, Sta!RadioOff, Sta!Places, Sta!DriverStates
<1> QED
  BY <1>2, <1>3, <1>4, <1>5, <1>6 DEF Sta!MainTask

(* The event task handles an event of this attempt: the bit it sets is     *)
(* earned, and a wait it ends returns bits that are.                       *)
LEMMA EventInv ==
    ASSUME StaInv, Sta!on_wifi_event
    PROVE  StaInv'
<1> DEFINE event == Head(queue)
           set == Sta!BitsOf(event.id)
<1>1. event \in OwnEvent /\ Tail(queue) \in Seq(OwnEvent)
  BY HeadTailProperties DEF StaInv, Sta!on_wifi_event
<1>2. event.current = TRUE /\ set \subseteq Sta!Bits
  BY <1>1 DEF OwnEvent, Sta!BitsOf, Sta!Bits
<1>3. /\ drv' = IF event.id = "STA_START" /\ drv = "started"
                THEN "connecting" ELSE drv
      /\ s_events' = s_events \cup set
      /\ earned' = earned \cup set
      /\ IF wpc = "wait" /\ s_events' # {}
         THEN wpc' = "woken" /\ bits' = s_events'
         ELSE UNCHANGED <<wpc, bits>>
      /\ queue' = Tail(queue)
      /\ UNCHANGED <<s_initialised, timedOut>>
  BY <1>2 DEF Sta!on_wifi_event
<1> HIDE DEF event, set
<1>4. Sta!TypeOK'
  <2>1. queue' \in Seq([id : {"STA_START", "STA_DISCONNECTED", "STA_GOT_IP"},
                        current : BOOLEAN])
    BY <1>1, <1>3, OwnEventsTyped
  <2>2. drv' \in Sta!DriverStates /\ wpc' \in Sta!Places
    BY <1>3 DEF StaInv, Sta!OwnEventsDecide, Sta!TypeOK, Sta!DriverStates,
       Sta!Places
  <2>3. s_events' \subseteq Sta!Bits /\ bits' \subseteq Sta!Bits
        /\ earned' \subseteq Sta!Bits
    BY <1>2, <1>3 DEF StaInv, Sta!OwnEventsDecide, Sta!TypeOK
  <2> QED
    BY <1>3, <2>1, <2>2, <2>3 DEF StaInv, Sta!OwnEventsDecide, Sta!TypeOK
<1>5. wpc' \in {"start", "wait", "woken", "up"} => s_events' \subseteq earned'
  BY <1>3 DEF StaInv
<1>6. (wpc' = "up" => "CONNECTED" \in earned') /\ Sta!RadioOff'
  BY <1>3 DEF StaInv, Sta!OwnEventsDecide, Sta!RadioOff
<1>7. wpc' = "woken" => bits' \subseteq earned' /\ (bits' = {} => timedOut')
  BY <1>3, <1>5 DEF StaInv, Sta!OwnEventsDecide
<1> QED
  BY <1>1, <1>3, <1>4, <1>5, <1>6, <1>7 DEF StaInv, Sta!OwnEventsDecide

LEMMA DriverInv ==
    ASSUME StaInv, Sta!DriverConnects \/ Sta!DriverFails
    PROVE  StaInv'
<1>1. queue' \in Seq(OwnEvent)
  BY PostedIsOwn, DisconnectedIsOwn
     DEF StaInv, Sta!DriverConnects, Sta!DriverFails
<1>2. drv' \in Sta!DriverStates /\ Sta!RadioOff'
      /\ UNCHANGED <<wpc, s_initialised, s_events, bits, earned, timedOut>>
  BY DEF StaInv, Sta!DriverConnects, Sta!DriverFails, Sta!DriverStates,
     Sta!RadioOff
<1> QED
  BY <1>1, <1>2, QuietStep

LEMMA StaResetInv == Sta!Reset => StaInv'
<1> SUFFICES ASSUME Sta!Reset PROVE StaInv'
  OBVIOUS
<1>1. /\ <<>> \in Seq(OwnEvent)
      /\ <<>> \in Seq([id : {"STA_START", "STA_DISCONNECTED", "STA_GOT_IP"},
                       current : BOOLEAN])
  BY EmptySeq
<1> QED
  BY <1>1 DEF Sta!Reset, StaInv, Sta!OwnEventsDecide, Sta!TypeOK, Sta!RadioOff,
     Sta!Places, Sta!DriverStates, Sta!Bits

(* The station keeps its invariant as long as its caller keeps the         *)
(* contract.                                                               *)
LEMMA StaNextInv == StaInv /\ [Sta!Next]_(Sta!vars) => StaInv'
<1> SUFFICES ASSUME StaInv, [Sta!Next]_(Sta!vars) PROVE StaInv'
  OBVIOUS
<1>1. CASE queue = <<>> /\ \E flashOk \in BOOLEAN : Sta!ConnectInit(flashOk)
  BY <1>1, ConnectInitInv
<1>2. CASE Sta!MainTask
  BY <1>2, MainTaskInv
<1>3. CASE Sta!on_wifi_event
  BY <1>3, EventInv
<1>4. CASE Sta!DriverConnects \/ Sta!DriverFails
  BY <1>4, DriverInv
<1>5. CASE Sta!Reset
  BY <1>5, StaResetInv
<1>6. CASE UNCHANGED Sta!vars
  BY <1>6 DEF Sta!vars, StaInv, Sta!OwnEventsDecide, Sta!TypeOK, Sta!RadioOff
<1> QED
  BY <1>1, <1>2, <1>3, <1>4, <1>5, <1>6 DEF Sta!Next

-----------------------------------------------------------------------------
(* The hooks *)

LEMMA Backends ==
    ASSUME IInv
    PROVE  wiring.backend \in {"esp", "mock"}
BY DeviceAssumption DEF IInv, TypeOK

(* fsm.c:33-87: where a cycle goes after a hook.  A wake or the wake word  *)
(* may lead to a connection attempt but to no session; a failed connection *)
(* and the end of a session end the cycle.                                 *)
LEMMA NoSessionYet ==
    ASSUME IInv, IInv', NEW ev, NEW cause, Dispatch(ev, cause),
           pc \in {"idle", "kws"}, UNCHANGED wifi
    PROVE  pc' \in {"kws", "wifi", "end"}
<1>1. pc' \in {"kws", "wifi", "stream", "end"}
  BY DEF Dispatch, PcOf
<1>2. pc' # "stream"
  BY DEF IInv, NoLeak
<1> QED
  BY <1>1, <1>2

LEMMA ConnectFailureEnds ==
    ASSUME IInv, NEW ev \in ConnectErrors, pc \in {"wifi", "tcp"},
           Dispatch(ev, "UNKNOWN")
    PROVE  pc' = "end"
<1>1. fsm \in fsm_t /\ fsm.state = "CONNECT" /\ dozes \in Counter
  BY DEF IInv, TypeOK, FsmInStep
<1>2. fsm_dispatch(fsm, ev, "UNKNOWN") = Fail(fsm)
  BY <1>1, DeviceAssumption DEF fsm_dispatch
<1> QED
  BY <1>1, <1>2, FailOutcome DEF Dispatch, PcOf

LEMMA SessionEnds ==
    ASSUME IInv, NEW ev \in {"SERVER_CLOSED", "SESSION_TIMEOUT", "ERROR"},
           StreamEnds(ev)
    PROVE  pc' = "end"
<1>1. fsm \in fsm_t /\ fsm.state = "STREAM" /\ dozes \in Counter
  BY DEF IInv, TypeOK, FsmInStep, StreamEnds
<1>2. CASE ev = "ERROR"
  <2>1. fsm_dispatch(fsm, ev, "UNKNOWN") = Fail(fsm)
    BY <1>2 DEF fsm_dispatch
  <2> QED
    BY <1>1, <2>1, FailOutcome DEF StreamEnds, Dispatch, PcOf
<1>3. CASE ev # "ERROR"
  <2>1. fsm_dispatch(fsm, ev, "UNKNOWN").act = "ENTER_SLEEP"
    BY <1>1, <1>3 DEF fsm_dispatch, RestStates, Outcome
  <2> QED
    BY <2>1 DEF StreamEnds, Dispatch, PcOf
<1> QED
  BY <1>2, <1>3

(* Every step of the composition is a step of the session runner, or       *)
(* leaves it alone.                                                        *)
LEMMA RunnerStep == [WifiNext]_allVars => [Next]_vars
BY DEF WifiNext, allVars, MainTask, Elsewhere, ConnectBegins, ConnectGoesOn,
   ConnectReturns, HookDisconnects, EventTask, Driver, Restarts, Next, Step

(* Every step of the composition is a step of the station under its        *)
(* contract, or leaves it alone: the attempt a hook begins finds the queue *)
(* empty.                                                                  *)
LEMMA StationStep == WInv /\ [WifiNext]_allVars => [Sta!Next]_(Sta!vars)
<1> SUFFICES ASSUME WInv, [WifiNext]_allVars PROVE [Sta!Next]_(Sta!vars)
  OBVIOUS
<1>0. station = Sta!vars /\ station' = Sta!vars'
  BY DEF station, Sta!vars
<1>1. CASE Elsewhere \/ UNCHANGED allVars
  BY <1>0, <1>1 DEF Elsewhere, allVars
<1>2. CASE ConnectBegins
  <2>1. queue = <<>>
    BY <1>2 DEF ConnectBegins, WInv, Coupled, Sta!ConnectInit
  <2> QED
    BY <1>2, <2>1 DEF ConnectBegins, Sta!Next
<1>3. CASE ConnectGoesOn
  BY <1>3 DEF ConnectGoesOn, Sta!Next, Sta!MainTask
<1>4. CASE ConnectReturns
  <2>1. pc = "wifi"
    BY <1>4 DEF ConnectReturns, WifiConnected, WifiFailed
  <2>2. CASE wiring.backend = "esp"
    <3>1. \/ Sta!ReturnOk \/ Sta!ReturnFail
          \/ Sta!ConnectInit(FALSE)
      BY <1>4, <2>2 DEF ConnectReturns, OnDevice
    <3>2. Sta!ConnectInit(FALSE) => queue = <<>>
      BY <2>1, <2>2 DEF WInv, Coupled, Sta!ConnectInit
    <3> QED
      BY <3>1, <3>2 DEF Sta!Next, Sta!MainTask
  <2>3. CASE wiring.backend # "esp"
    BY <1>0, <1>4, <2>3 DEF ConnectReturns, OnDevice
  <2> QED
    BY <2>2, <2>3
<1>5. CASE HookDisconnects
  BY <1>0, <1>5 DEF HookDisconnects, OnDevice, Sta!Next, Sta!MainTask
<1>6. CASE EventTask \/ Driver \/ Restarts
  BY <1>6 DEF EventTask, Driver, Restarts, Sta!Next
<1> QED
  BY <1>1, <1>2, <1>3, <1>4, <1>5, <1>6 DEF WifiNext, MainTask

-----------------------------------------------------------------------------
(* Hooks and station stay coupled *)

(* A task that is not the main task leaves it where it is, except that it  *)
(* ends a wait; without a driver at work the queue only shrinks.           *)
LEMMA OtherTasksCoupled ==
    ASSUME WInv, EventTask \/ Driver
    PROVE  Coupled'
<1>1. UNCHANGED <<wiring, pc>>
  BY DEF EventTask, Driver, vars
<1>2. wpc' = wpc \/ (wpc = "wait" /\ wpc' = "woken")
  BY DEF EventTask, Driver, Sta!on_wifi_event, Sta!DriverConnects,
     Sta!DriverFails
<1>3. wpc = "out" => drv \notin {"connecting", "online"}
  BY DEF WInv, StaInv, Sta!RadioOff
<1>4. (wpc = "out" /\ queue = <<>>) => FALSE
  BY <1>3 DEF EventTask, Driver, Sta!on_wifi_event, Sta!DriverConnects,
     Sta!DriverFails
<1> QED
  BY <1>1, <1>2, <1>4 DEF WInv, Coupled

LEMMA ElsewhereCoupled ==
    ASSUME WInv, IInv', Elsewhere
    PROVE  Coupled'
<1>0. UNCHANGED <<wpc, queue, drv>>
  BY DEF Elsewhere, station
<1>1. CASE Boot \/ EndCycle
  <2>1. /\ pc \in {"reset", "end"} /\ pc' \in {"idle", "asleep", "done"}
        /\ UNCHANGED wiring
    BY <1>1 DEF Boot, EndCycle
  <2> QED
    BY <1>0, <2>1 DEF WInv, Coupled
<1>2. CASE Paused /\ \E cause \in power_wake_cause : Wake(cause)
  <2>1. pc = "idle" /\ pc' \in {"kws", "wifi", "end"} /\ UNCHANGED wiring
    BY <1>2, NoSessionYet DEF Wake, WInv
  <2> QED
    BY <1>0, <1>2, <2>1 DEF WInv, Coupled, Paused
<1>3. CASE \E ev \in KwsEvents : RunKws(ev)
  <2>1. pc = "kws" /\ pc' \in {"kws", "wifi", "end"} /\ UNCHANGED wiring
    BY <1>3, NoSessionYet DEF RunKws, WInv
  <2> QED
    BY <1>0, <2>1 DEF WInv, Coupled
<1>4. CASE TcpConnected
  <2>1. pc = "tcp" /\ pc' = "stream" /\ UNCHANGED wiring
    BY <1>4 DEF TcpConnected, IInv, NoLeak
  <2> QED
    BY <1>0, <2>1 DEF WInv, Coupled
<1> QED
  BY <1>1, <1>2, <1>3, <1>4 DEF Elsewhere

LEMMA ConnectCoupled ==
    ASSUME WInv, ConnectBegins \/ ConnectGoesOn
    PROVE  Coupled'
<1>1. pc = "wifi" /\ UNCHANGED <<wiring, pc>>
  BY DEF ConnectBegins, ConnectGoesOn, vars
<1>2. wpc' \in {"clear", "start", "wait", "woken"} /\ wiring.backend # "mock"
  BY DEF ConnectBegins, ConnectGoesOn, Sta!ClearBits, Sta!esp_wifi_start,
     Sta!WaitBits, WInv, Coupled
<1> QED
  BY <1>1, <1>2 DEF Coupled

LEMMA HooksCoupled ==
    ASSUME WInv, ConnectReturns \/ HookDisconnects
    PROVE  Coupled'
<1>0. wiring.backend \in {"esp", "mock"}
  BY Backends DEF WInv
<1>1. ASSUME NEW ev \in ConnectErrors, WifiFailed(ev) \/ TcpFailed(ev)
      PROVE  pc \in {"wifi", "tcp"} /\ pc' = "end" /\ UNCHANGED wiring
  BY <1>1, ConnectFailureEnds DEF WifiFailed, TcpFailed, WInv
<1>2. ASSUME NEW ev \in {"SERVER_CLOSED", "SESSION_TIMEOUT", "ERROR"},
             StreamEnds(ev)
      PROVE  pc' = "end" /\ UNCHANGED wiring
  BY <1>2, SessionEnds DEF StreamEnds, WInv
<1>3. CASE WifiConnected /\ OnDevice(Sta!ReturnOk)
  <2>1. pc = "wifi" /\ pc' = "tcp" /\ UNCHANGED wiring
    BY <1>3 DEF WifiConnected
  <2>2. CASE wiring.backend = "esp"
    BY <1>3, <2>1, <2>2 DEF OnDevice, Sta!ReturnOk, Coupled
  <2>3. CASE wiring.backend = "mock"
    BY <1>3, <2>1, <2>3 DEF OnDevice, station, WInv, Coupled
  <2> QED
    BY <1>0, <2>2, <2>3
<1>4. CASE ~(WifiConnected /\ OnDevice(Sta!ReturnOk))
  <2>1. pc' = "end" /\ UNCHANGED wiring
    BY <1>1, <1>2, <1>4 DEF ConnectReturns, HookDisconnects
  <2>2. OnDevice(Sta!ReturnFail \/ (Sta!ConnectInit(FALSE) /\ wpc' = "out"))
        \/ OnDevice(Sta!ss_wifi_disconnect)
    BY <1>4 DEF ConnectReturns, HookDisconnects
  <2>3. CASE wiring.backend = "esp"
    <3>1. wpc' = "out"
      BY <2>2, <2>3 DEF OnDevice, Sta!ReturnFail, Sta!ss_wifi_disconnect
    <3> QED
      BY <2>1, <2>3, <3>1 DEF Coupled
  <2>4. CASE wiring.backend = "mock"
    BY <2>1, <2>2, <2>4 DEF OnDevice, station, WInv, Coupled
  <2> QED
    BY <1>0, <2>3, <2>4
<1> QED
  BY <1>3, <1>4

LEMMA CoupledStep == WInv /\ IInv' /\ [WifiNext]_allVars => Coupled'
<1> SUFFICES ASSUME WInv, IInv', [WifiNext]_allVars PROVE Coupled'
  OBVIOUS
<1>1. CASE Elsewhere
  BY <1>1, ElsewhereCoupled
<1>2. CASE ConnectBegins \/ ConnectGoesOn
  BY <1>2, ConnectCoupled
<1>3. CASE ConnectReturns \/ HookDisconnects
  BY <1>3, HooksCoupled
<1>4. CASE EventTask \/ Driver
  BY <1>4, OtherTasksCoupled
<1>5. CASE Restarts
  <2>1. pc' = "reset" /\ wpc' = "out" /\ queue' = <<>> /\ drv' = "absent"
    BY <1>5 DEF Restarts, ExtWake, Reset, Restart, Sta!Reset
  <2> QED
    BY <2>1 DEF Coupled
<1>6. CASE UNCHANGED allVars
  BY <1>6 DEF allVars, vars, station, WInv, Coupled
<1> QED
  BY <1>1, <1>2, <1>3, <1>4, <1>5, <1>6 DEF WifiNext, MainTask

-----------------------------------------------------------------------------
LEMMA WInvInit == WifiInit => WInv
<1> SUFFICES ASSUME WifiInit PROVE WInv
  OBVIOUS
<1>1. IInv /\ StaInv
  BY InitIInv, StaInitInv DEF WifiInit
<1>2. Coupled
  BY DEF WifiInit, Init, Sta!Init, Coupled
<1> QED
  BY <1>1, <1>2 DEF WInv

LEMMA WInvNext == WInv /\ [WifiNext]_allVars => WInv'
<1> SUFFICES ASSUME WInv, [WifiNext]_allVars PROVE WInv'
  OBVIOUS
<1>1. IInv'
  BY RunnerStep, NextIInv DEF WInv
<1>2. StaInv'
  BY StationStep, StaNextInv DEF WInv
<1>3. Coupled'
  BY <1>1, CoupledStep
<1> QED
  BY <1>1, <1>2, <1>3 DEF WInv

LEMMA WifiSpecInv == WifiSpec => []WInv
BY WInvInit, WInvNext, PTL DEF WifiSpec

(* app_main.c:84-133: the runner with the station under its hooks is the   *)
(* runner of DeviceApp, so that what is proved of that one holds on the    *)
(* device too: the wake counts, the resources, the unasked streams.        *)
THEOREM ImplementsRunner == WifiSpec => Spec
<1>1. WifiInit => Init
  BY DEF WifiInit
<1> QED
  BY <1>1, RunnerStep, PTL DEF WifiSpec, Spec

(* app_main.c:84-133, 160-180: the hooks and the pause keep the station's  *)
(* calling contract in every behaviour: an attempt begins only when the    *)
(* last one is over and its events are handled.                            *)
THEOREM StationContractKept == WifiSpec => KeepsStationContract
<1>1. WifiInit => Sta!Init
  BY DEF WifiInit
<1> QED
  BY <1>1, StationStep, WifiSpecInv, PTL DEF WifiSpec, KeepsStationContract, Sta!Spec

(* net_wifi.c:79-92: no event of an earlier session decides an attempt,    *)
(* however many of them there were and however the tasks interleaved.      *)
THEOREM AttemptsDecideThemselves == WifiSpec => []OwnEventsDecide
<1>1. WInv => OwnEventsDecide
  BY DEF WInv, StaInv, OwnEventsDecide
<1> QED
  BY <1>1, WifiSpecInv, PTL

(* net_wifi.c:90, 95-101: outside the hooks the radio is off. *)
THEOREM RadioOffBetweenHooks == WifiSpec => []RadioOff
<1>1. ASSUME WInv PROVE RadioOff
  <2>1. wiring.backend \in {"esp", "mock"}
    BY <1>1, Backends DEF WInv
  <2> QED
    BY <1>1, <2>1 DEF WInv, StaInv, Coupled, Sta!RadioOff, RadioOff
<1> QED
  BY <1>1, WifiSpecInv, PTL

=============================================================================
