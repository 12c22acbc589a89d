--------------------------- MODULE DebounceProofs ---------------------------
(***************************************************************************)
(* Proofs about DebounceTimer, for every clock width, every setting of the *)
(* three limits (0 included) and every MaxGap the assumptions allow: the   *)
(* stamps mean true time, a cut is punctual and justified, the cut state   *)
(* latches, and debounce.c implements CutPolicy.                           *)
(***************************************************************************)
EXTENDS DebounceTimer, TLAPS

(* elapsed() of debounce.c:34-37 on two clock readings, without the remainder. *)
LEMMA ElapsedCases ==
    ASSUME NEW a \in Stamp, NEW b \in Stamp
    PROVE  elapsed(a, b) = IF a >= b THEN a - b ELSE a - b + ClockMod
BY DebounceAssumption, SMT DEF elapsed, Stamp

(* One millisecond of the wrapping clock of main.c:40-45. *)
LEMMA SuccCases ==
    ASSUME NEW a \in Stamp
    PROVE  (a + 1) % ClockMod = IF a + 1 = ClockMod THEN 0 ELSE a + 1
BY DebounceAssumption, SMT DEF Stamp

(* A reading taken k milliseconds ago is a clock value and is k old. *)
LEMMA AgoElapsed ==
    ASSUME NEW a \in Stamp, NEW k \in Nat, k < ClockMod
    PROVE  /\ (a - k) % ClockMod \in Stamp
           /\ elapsed(a, (a - k) % ClockMod) = k
<1> DEFINE s == (a - k) % ClockMod
<1>1. s = IF a >= k THEN a - k ELSE a - k + ClockMod
  BY DebounceAssumption, SMT DEF Stamp
<1>2. s \in Stamp
  BY <1>1, DebounceAssumption, SMT DEF Stamp
<1>3. elapsed(a, s) = IF a >= s THEN a - s ELSE a - s + ClockMod
  BY <1>2, ElapsedCases
<1> HIDE DEF s
<1>4. elapsed(a, s) = k
  BY <1>1, <1>2, <1>3, DebounceAssumption, SMT DEF Stamp
<1> QED
  BY <1>2, <1>4 DEF s

(* As the clock advances a stamp ages by one, unless the clock laps it. *)
LEMMA TickElapsed ==
    ASSUME NEW a \in Stamp, NEW b \in Stamp, elapsed(a, b) + 1 < ClockMod
    PROVE  elapsed((a + 1) % ClockMod, b) = elapsed(a, b) + 1
<1> DEFINE s == (a + 1) % ClockMod
<1>1. s = IF a + 1 = ClockMod THEN 0 ELSE a + 1
  BY SuccCases
<1>2. s \in Stamp
  BY <1>1, DebounceAssumption, SMT DEF Stamp
<1>3. /\ elapsed(a, b) = IF a >= b THEN a - b ELSE a - b + ClockMod
      /\ elapsed(s, b) = IF s >= b THEN s - b ELSE s - b + ClockMod
  BY <1>2, ElapsedCases
<1> HIDE DEF s
<1>4. elapsed(s, b) = elapsed(a, b) + 1
  BY <1>1, <1>3, DebounceAssumption, SMT DEF Stamp
<1> QED
  BY <1>4 DEF s

-----------------------------------------------------------------------------
(* The inductive invariant.  StampsTrue alone is not inductive: a stamp     *)
(* stays true only while the clock cannot lap it, which Punctual bounds;    *)
(* Punctual in turn rests on StampsTrue, since the code compares stamps.    *)
IInv == TypeOK /\ StampsTrue /\ Punctual /\ CutJustified

LEMMA InitIInv == Init => IInv
<1> SUFFICES ASSUME Init PROVE IInv
  OBVIOUS
<1> USE DebounceAssumption, TimerAssumption
<1>1. clk \in Stamp
  BY DEF Init
<1>2. elapsed(clk, clk) = 0
  BY <1>1, ElapsedCases, SMT DEF Stamp
<1>3. TypeOK
  BY <1>1, SMT DEF Init, TypeOK, debounce_init, debounce_t, DebounceStates,
     CutReasons, AgeCap
<1>4. StampsTrue
  BY <1>2, SMT DEF Init, StampsTrue, debounce_init
<1>5. Punctual
  BY SMT DEF Init, Punctual, debounce_init, Within, Enabled
<1>6. CutJustified
  BY SMT DEF Init, CutJustified, debounce_init
<1> QED
  BY <1>3, <1>4, <1>5, <1>6 DEF IInv

LEMMA TickIInv == IInv /\ Tick => IInv'
<1> SUFFICES ASSUME IInv, Tick PROVE IInv'
  OBVIOUS
<1> USE DebounceAssumption, TimerAssumption
<1>0. TypeOK /\ StampsTrue /\ Punctual /\ CutJustified
  BY DEF IInv
<1>1. clk' \in Stamp /\ clk' = (clk + 1) % ClockMod /\ d' = d
  BY <1>0, SuccCases, SMT DEF Tick, TypeOK, Stamp
<1>2. TypeOK'
  BY <1>0, <1>1, SMT DEF TypeOK, Tick, ages, Older, AgeCap
<1>3. CASE ~Running
  BY <1>0, <1>1, <1>2, <1>3, SMT
     DEF IInv, Tick, ages, Running, StampsTrue, Punctual, CutJustified
<1>4. CASE Running
  <2>1. /\ gap < MaxGap /\ gap' = gap + 1
        /\ sessionAge' = Older(sessionAge)
        /\ speechAge' = Older(speechAge)
        /\ cmdAge' = Older(cmdAge)
    BY <1>4 DEF Tick
  <2>2. ASSUME NEW limit \in Nat, NEW age \in 0 .. AgeCap, NEW st \in Stamp,
               limit + MaxGap < ClockMod, limit + MaxGap <= AgeCap,
               Enabled(limit), elapsed(clk, st) = age, Within(limit, age)
        PROVE  /\ elapsed(clk', st) = Older(age)
               /\ Within(limit, Older(age))'
    <3>1. age < limit + gap /\ gap \in Nat /\ age \in Nat
      BY <1>0, <2>2, SMT DEF Within, TypeOK, AgeCap
    <3>2. Older(age) = age + 1
      BY <2>1, <2>2, <3>1, SMT DEF Older, AgeCap
    <3>3. elapsed(clk', st) = age + 1
      BY <1>0, <1>1, <2>1, <2>2, <3>1, TickElapsed, SMT DEF TypeOK
    <3> QED
      BY <2>1, <3>1, <3>2, <3>3, SMT DEF Within
  <2>3. d \in debounce_t /\ d.start_ms \in Stamp /\ d.last_speech_ms \in Stamp
        /\ d.last_cmd_ms \in Stamp
    BY <1>0 DEF TypeOK, debounce_t
  <2>4. Enabled(MaxSessionMs) =>
          /\ elapsed(clk', d.start_ms) = sessionAge'
          /\ Within(MaxSessionMs, sessionAge)'
    BY <1>0, <1>4, <2>1, <2>2, <2>3, SMT
       DEF StampsTrue, Punctual, TypeOK, AgeCap, Within, Enabled
  <2>5. Enabled(SilenceMs) =>
          /\ elapsed(clk', d.last_speech_ms) = speechAge'
          /\ Within(SilenceMs, speechAge)'
    BY <1>0, <1>4, <2>1, <2>2, <2>3, SMT
       DEF StampsTrue, Punctual, TypeOK, AgeCap, Within, Enabled
  <2>6. (Enabled(DebounceMs) /\ d.state = "WAITING") =>
          /\ elapsed(clk', d.last_cmd_ms) = cmdAge'
          /\ Within(DebounceMs, cmdAge)'
    BY <1>0, <1>4, <2>1, <2>2, <2>3, SMT
       DEF StampsTrue, Punctual, TypeOK, AgeCap, Within, Enabled
  <2>7. StampsTrue'
    BY <1>1, <2>4, <2>5, <2>6 DEF StampsTrue, Running, Enabled
  <2>8. Punctual'
    BY <1>1, <2>4, <2>5, <2>6 DEF Punctual, Running, Within, Enabled
  <2>9. CutJustified'
    BY <1>0, <1>1, <1>4, SMT DEF CutJustified, Running, Enabled
  <2> QED
    BY <1>2, <2>7, <2>8, <2>9 DEF IInv
<1> QED
  BY <1>3, <1>4

(* The stamp of a late report is a clock value, as old as the report is late. *)
LEMMA LateStamp ==
    ASSUME TypeOK, NEW late \in Lateness
    PROVE  /\ late \in Nat /\ late <= gap /\ late <= speechAge
           /\ ReadAgo(late) \in Stamp
           /\ elapsed(clk, ReadAgo(late)) = late
<1>1. late \in Nat /\ late <= MaxGap /\ late <= gap /\ late <= speechAge
  BY TimerAssumption, SMT DEF Lateness
<1>2. late < ClockMod
  BY <1>1, TimerAssumption, DebounceAssumption, SMT
<1> QED
  BY <1>1, <1>2, AgoElapsed DEF TypeOK, ReadAgo

LEMMA NoteSpeechIInv ==
    ASSUME IInv, NEW late \in Lateness, NoteSpeech(late)
    PROVE  IInv'
<1> USE DebounceAssumption, TimerAssumption
<1>0. TypeOK /\ StampsTrue /\ Punctual /\ CutJustified
  BY DEF IInv
<1>1. /\ late \in Nat /\ late <= gap /\ late <= speechAge
      /\ ReadAgo(late) \in Stamp
      /\ elapsed(clk, ReadAgo(late)) = late
  BY <1>0, LateStamp
<1>2. CASE ~Running
  <2>1. UNCHANGED vars
    BY <1>2 DEF NoteSpeech, Running, debounce_note_speech, vars
  <2> QED
    BY <1>0, <2>1, SMT DEF IInv, vars, TypeOK, StampsTrue, Punctual, CutJustified,
       Running, Within
<1>3. CASE Running
  <2>1. /\ d' = [d EXCEPT !.last_speech_ms = ReadAgo(late)]
        /\ speechAge' = late
        /\ UNCHANGED <<clk, gap, sessionAge, cmdAge>>
    BY <1>3 DEF NoteSpeech, Running, debounce_note_speech
  <2>2. TypeOK'
    <3>1. d' \in debounce_t
      BY <1>0, <1>1, <2>1 DEF TypeOK, debounce_t
    <3>2. speechAge' \in 0 .. AgeCap
      BY <1>0, <1>1, <2>1, SMT DEF TypeOK, AgeCap
    <3> QED
      BY <1>0, <2>1, <3>1, <3>2 DEF TypeOK
  <2>3. /\ d'.last_speech_ms = ReadAgo(late)
        /\ d'.state = d.state /\ d'.reason = d.reason /\ d'.start_ms = d.start_ms
        /\ d'.last_cmd_ms = d.last_cmd_ms /\ d'.commands = d.commands
    BY <1>0, <2>1 DEF TypeOK, debounce_t
  <2>4. StampsTrue'
    BY <1>0, <1>1, <1>3, <2>1, <2>3 DEF StampsTrue, Running, Enabled
  <2>5. Punctual'
    BY <1>0, <1>1, <1>3, <2>1, <2>3, SMT
       DEF TypeOK, Punctual, Running, Within, Enabled
  <2>6. CutJustified'
    BY <1>0, <1>3, <2>1, <2>3, SMT DEF CutJustified, Running, Enabled
  <2> QED
    BY <2>2, <2>4, <2>5, <2>6 DEF IInv
<1> QED
  BY <1>2, <1>3

LEMMA NoteCommandIInv ==
    ASSUME IInv, NEW late \in Lateness, NoteCommand(late)
    PROVE  IInv'
<1> USE DebounceAssumption, TimerAssumption
<1>0. TypeOK /\ StampsTrue /\ Punctual /\ CutJustified
  BY DEF IInv
<1>1. /\ late \in Nat /\ late <= gap /\ late <= speechAge
      /\ ReadAgo(late) \in Stamp
      /\ elapsed(clk, ReadAgo(late)) = late
  BY <1>0, LateStamp
<1>2. CASE ~Running
  <2>1. UNCHANGED vars
    BY <1>2 DEF NoteCommand, Running, debounce_note_command, vars
  <2> QED
    BY <1>0, <2>1, SMT DEF IInv, vars, TypeOK, StampsTrue, Punctual, CutJustified,
       Running, Within
<1>3. CASE Running
  <2>1. /\ d' = [d EXCEPT !.last_speech_ms = ReadAgo(late),
                          !.last_cmd_ms = ReadAgo(late),
                          !.commands = @ + 1, !.state = "WAITING"]
        /\ speechAge' = late /\ cmdAge' = late
        /\ UNCHANGED <<clk, gap, sessionAge>>
    BY <1>3 DEF NoteCommand, Running, debounce_note_command
  <2>2. TypeOK'
    <3>1. d.commands + 1 \in Nat
      BY <1>0, SMT DEF TypeOK, debounce_t
    <3>2. d' \in debounce_t
      BY <1>0, <1>1, <2>1, <3>1 DEF TypeOK, debounce_t, DebounceStates
    <3>3. speechAge' \in 0 .. AgeCap /\ cmdAge' \in 0 .. AgeCap
      BY <1>0, <1>1, <2>1, SMT DEF TypeOK, AgeCap
    <3> QED
      BY <1>0, <2>1, <3>2, <3>3 DEF TypeOK
  <2>3. /\ d'.last_speech_ms = ReadAgo(late) /\ d'.last_cmd_ms = ReadAgo(late)
        /\ d'.state = "WAITING" /\ d'.reason = d.reason
        /\ d'.start_ms = d.start_ms /\ d'.commands = d.commands + 1
    BY <1>0, <2>1 DEF TypeOK, debounce_t
  <2>4. StampsTrue'
    BY <1>0, <1>1, <1>3, <2>1, <2>3 DEF StampsTrue, Running, Enabled
  <2>5. Punctual'
    BY <1>0, <1>1, <1>3, <2>1, <2>3, SMT
       DEF TypeOK, Punctual, Running, Within, Enabled
  <2>6. CutJustified'
    BY <1>0, <1>3, <2>1, <2>3, SMT
       DEF TypeOK, debounce_t, CutJustified, Running, Enabled
  <2> QED
    BY <2>2, <2>4, <2>5, <2>6 DEF IInv
<1> QED
  BY <1>2, <1>3

(* What CutVerdict reads off the stamps is the policy's verdict on the ages. *)
LEMMA VerdictTrue ==
    ASSUME IInv, Running
    PROVE  CutVerdict(d, clk) = Policy!Verdict
BY DEF IInv, StampsTrue, Enabled, CutVerdict, Expired, Policy!Verdict, Policy!Due

LEMMA ShouldCutIInv == IInv /\ ShouldCut => IInv'
<1> SUFFICES ASSUME IInv, ShouldCut PROVE IInv'
  OBVIOUS
<1> USE DebounceAssumption, TimerAssumption
<1>0. TypeOK /\ StampsTrue /\ Punctual /\ CutJustified
  BY DEF IInv
<1>1. d' = debounce_should_cut(d, clk) /\ gap' = 0
      /\ clk' = clk /\ sessionAge' = sessionAge
      /\ speechAge' = speechAge /\ cmdAge' = cmdAge
  BY DEF ShouldCut, ages
<1>2. CASE ~Running
  <2>1. d' = d
    BY <1>1, <1>2 DEF Running, debounce_should_cut
  <2> QED
    BY <1>0, <1>1, <1>2, <2>1, SMT
       DEF IInv, TypeOK, StampsTrue, Punctual, CutJustified, Running, Enabled
<1>3. CASE Running /\ CutVerdict(d, clk) = "NONE"
  <2>1. d' = d
    BY <1>1, <1>3 DEF Running, debounce_should_cut
  <2>2. Policy!Verdict = "NONE"
    BY <1>3, VerdictTrue
  <2>3. Punctual'
    BY <1>0, <1>1, <2>1, <2>2, SMT
       DEF Policy!Verdict, Policy!Due, Punctual, Within, Enabled, TypeOK, AgeCap
  <2> QED
    BY <1>0, <1>1, <2>1, <2>3, SMT
       DEF IInv, TypeOK, StampsTrue, CutJustified, Running, Enabled
<1>4. CASE Running /\ CutVerdict(d, clk) # "NONE"
  <2>1. d' = [d EXCEPT !.reason = CutVerdict(d, clk), !.state = "CUT"]
    BY <1>1, <1>4 DEF Running, debounce_should_cut
  <2>2. CutVerdict(d, clk) = Policy!Verdict
    BY <1>4, VerdictTrue
  <2>3. CutVerdict(d, clk) \in CutReasons
    BY DEF CutVerdict, CutReasons
  <2>4. /\ d' \in debounce_t /\ d'.state = "CUT" /\ d'.commands = d.commands
        /\ d'.reason = Policy!Verdict
    BY <1>0, <2>1, <2>2, <2>3 DEF TypeOK, debounce_t, DebounceStates
  <2>5. TypeOK'
    BY <1>0, <1>1, <2>4, SMT DEF TypeOK
  <2>6. CutJustified'
    BY <1>0, <1>1, <1>4, <2>2, <2>4, SMT
       DEF CutJustified, Policy!Verdict, Policy!Due, Enabled, TypeOK, AgeCap
  <2> QED
    BY <2>4, <2>5, <2>6 DEF IInv, StampsTrue, Punctual, Running
<1> QED
  BY <1>2, <1>3, <1>4

LEMMA NextIInv == IInv /\ [Next]_vars => IInv'
<1> SUFFICES ASSUME IInv, [Next]_vars PROVE IInv'
  OBVIOUS
<1>1. CASE Tick
  BY <1>1, TickIInv
<1>2. ASSUME NEW late \in Lateness, NoteSpeech(late) PROVE IInv'
  BY <1>2, NoteSpeechIInv
<1>3. ASSUME NEW late \in Lateness, NoteCommand(late) PROVE IInv'
  BY <1>3, NoteCommandIInv
<1>4. CASE ShouldCut
  BY <1>4, ShouldCutIInv
<1>5. CASE UNCHANGED vars
  BY <1>5, SMT DEF IInv, vars, TypeOK, StampsTrue, Punctual, CutJustified, Running,
     Within
<1> QED
  BY <1>1, <1>2, <1>3, <1>4, <1>5 DEF Next

(* The invariant holds in every reachable state of every instance. *)
LEMMA SpecIInv == Spec => []IInv
BY InitIInv, NextIInv, PTL DEF Spec

(* Type correctness of debounce_t and the clock. *)
THEOREM TypeCorrect == Spec => []TypeOK
<1>1. IInv => TypeOK
  BY DEF IInv
<1> QED
  BY <1>1, SpecIInv, PTL

(* debounce.c:33-37: elapsed() gives the true age of every enabled timer,  *)
(* for any clock width the limits and the evaluation gap fit in.           *)
THEOREM StampsAreTrue == Spec => []StampsTrue
<1>1. IInv => StampsTrue
  BY DEF IInv
<1> QED
  BY <1>1, SpecIInv, PTL

(* debounce.c:39-65: no enabled limit is passed by more than the time since *)
(* the last evaluation.                                                     *)
THEOREM CutIsPunctual == Spec => []Punctual
<1>1. IInv => Punctual
  BY DEF IInv
<1> QED
  BY <1>1, SpecIInv, PTL

(* debounce.c:39-65: the recorded reason is true when the cut is taken. *)
THEOREM CutIsJustified == Spec => []CutJustified
<1>1. IInv => CutJustified
  BY DEF IInv
<1> QED
  BY <1>1, SpecIInv, PTL

(* debounce.c:16, 24, 41: DEBOUNCE_CUT is terminal. *)
THEOREM CutIsFinal == Spec => CutLatches
<1>1. [Next]_vars => [d.state = "CUT" => d' = d]_vars
  BY DEF Next, Tick, NoteSpeech, NoteCommand, ShouldCut, vars, ages,
     debounce_note_speech, debounce_note_command, debounce_should_cut
<1> QED
  BY <1>1, PTL DEF Spec, CutLatches

(* One step of the timer is a step of the policy or leaves it unchanged.    *)
(* Pass is where the invariant is needed: the caller's gap, not a look at   *)
(* the ages, is what keeps time from passing while a limit is overdue.      *)
LEMMA StepRefines == IInv /\ [Next]_vars => [Policy!Next]_(Policy!vars)
<1> SUFFICES ASSUME IInv, [Next]_vars PROVE [Policy!Next]_(Policy!vars)
  OBVIOUS
<1> USE DebounceAssumption, TimerAssumption
<1>0. TypeOK /\ StampsTrue /\ Punctual /\ CutJustified
  BY DEF IInv
<1>1. CASE Tick /\ Running
  <2>1. /\ gap < MaxGap /\ d' = d
        /\ sessionAge' = Older(sessionAge)
        /\ speechAge' = Older(speechAge)
        /\ cmdAge' = Older(cmdAge)
    BY <1>1 DEF Tick
  <2>2. /\ ~Policy!Overdue(MaxSessionMs, sessionAge)
        /\ ~(d.state = "WAITING" /\ Policy!Overdue(DebounceMs, cmdAge))
        /\ ~Policy!Overdue(SilenceMs, speechAge)
    BY <1>0, <1>1, <2>1, SMT
       DEF Punctual, Within, Enabled, Policy!Overdue, TypeOK, AgeCap
  <2>3. Policy!Pass
    BY <1>1, <2>1, <2>2 DEF Policy!Pass, Running, Older, AgeCap, Policy!Older,
       Policy!AgeCap
  <2> QED
    BY <2>3 DEF Policy!Next
<1>2. CASE Tick /\ ~Running
  BY <1>2 DEF Tick, ages, Policy!vars
<1>3. ASSUME NEW late \in Lateness, NoteSpeech(late)
      PROVE  [Policy!Next]_(Policy!vars)
  <2>1. late \in 0 .. MaxGap /\ late <= speechAge
    BY DEF Lateness
  <2>2. CASE ~Running
    BY <1>3, <2>2 DEF NoteSpeech, Running, debounce_note_speech, Policy!vars
  <2>3. CASE Running
    <3>1. d'.state = d.state /\ d'.reason = d.reason
      BY <1>0, <1>3 DEF NoteSpeech, debounce_note_speech, TypeOK, debounce_t
    <3>2. Policy!Speech
      BY <1>3, <2>1, <2>3, <3>1 DEF NoteSpeech, Running, Policy!Speech
    <3> QED
      BY <3>2 DEF Policy!Next
  <2> QED
    BY <2>2, <2>3
<1>4. ASSUME NEW late \in Lateness, NoteCommand(late)
      PROVE  [Policy!Next]_(Policy!vars)
  <2>1. late \in 0 .. MaxGap /\ late <= speechAge
    BY DEF Lateness
  <2>2. CASE ~Running
    BY <1>4, <2>2 DEF NoteCommand, Running, debounce_note_command, Policy!vars
  <2>3. CASE Running
    <3>1. d'.state = "WAITING" /\ d'.reason = d.reason
      BY <1>0, <1>4, <2>3
         DEF NoteCommand, Running, debounce_note_command, TypeOK, debounce_t
    <3>2. Policy!Command
      BY <1>4, <2>1, <2>3, <3>1 DEF NoteCommand, Running, Policy!Command
    <3> QED
      BY <3>2 DEF Policy!Next
  <2> QED
    BY <2>2, <2>3
<1>5. CASE ShouldCut
  <2>1. CASE ~Running \/ CutVerdict(d, clk) = "NONE"
    BY <1>5, <2>1 DEF ShouldCut, ages, Running, debounce_should_cut, Policy!vars
  <2>2. CASE Running /\ CutVerdict(d, clk) # "NONE"
    <3>1. CutVerdict(d, clk) = Policy!Verdict
      BY <2>2, VerdictTrue
    <3>2. d'.state = "CUT" /\ d'.reason = CutVerdict(d, clk)
      BY <1>0, <1>5, <2>2
         DEF ShouldCut, Running, debounce_should_cut, TypeOK, debounce_t
    <3>3. Policy!Cut
      BY <1>5, <2>2, <3>1, <3>2 DEF ShouldCut, ages, Running, Policy!Cut
    <3> QED
      BY <3>3 DEF Policy!Next
  <2> QED
    BY <2>1, <2>2
<1>6. CASE UNCHANGED vars
  BY <1>6 DEF vars, Policy!vars
<1> QED
  BY <1>1, <1>2, <1>3, <1>4, <1>5, <1>6 DEF Next

(* debounce.c implements the policy of debounce.h in true time: every       *)
(* session it can produce is a session CutPolicy allows, with Slack =       *)
(* MaxGap, whatever the clock width and the limits.                         *)
THEOREM ImplementsPolicy == Spec => RefinesPolicy
<1>1. Init => Policy!Init
  BY DEF Init, Policy!Init, debounce_init
<1> QED
  BY <1>1, SpecIInv, StepRefines, PTL DEF Spec, RefinesPolicy, Policy!Spec

=============================================================================
