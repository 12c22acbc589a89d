---------------------------- MODULE ServerProofs ----------------------------
(***************************************************************************)
(* Proofs about ServerConn, for every clock width, every set of limits,    *)
(* every recv timeout, every time the recogniser may take and everything   *)
(* the client may send: handle_conn answers exactly the sessions that were *)
(* cut, with the count of commands that the timer knows, and keeps the     *)
(* timer's calling contract, so that what DebounceProofs shows of the      *)
(* timer is true of every connection.                                      *)
(***************************************************************************)
EXTENDS ServerConn, SequenceTheorems, FiniteSetTheorems, TLAPS

Spans == {"quiet", "speech", "command", "final", "bad"}

(* The unsigned difference of two clock values. *)
LEMMA ElapsedCases ==
    ASSUME NEW a \in Stamp, NEW b \in Stamp
    PROVE  /\ elapsed(a, b) = IF a >= b THEN a - b ELSE a - b + ClockMod
           /\ elapsed(a, b) \in Stamp
BY DebounceAssumption, SMT DEF elapsed, Stamp

(* One millisecond of the clock of main.c:40-45. *)
LEMMA SuccCases ==
    ASSUME NEW a \in Stamp
    PROVE  /\ (a + 1) % ClockMod = IF a + 1 = ClockMod THEN 0 ELSE a + 1
           /\ (a + 1) % ClockMod \in Stamp
BY DebounceAssumption, SMT DEF Stamp

(* Subtracting the age of a reading from the clock gives the reading back. *)
LEMMA ReadingBack ==
    ASSUME NEW a \in Stamp, NEW b \in Stamp
    PROVE  (a - elapsed(a, b)) % ClockMod = b
<1> DEFINE e == elapsed(a, b)
<1>1. e = IF a >= b THEN a - b ELSE a - b + ClockMod
  BY ElapsedCases
<1> HIDE DEF e
<1> DEFINE x == a - e
<1>2. x \in Int /\ (x = b \/ x = b - ClockMod)
  BY <1>1, DebounceAssumption, SMT DEF Stamp
<1> HIDE DEF x
<1>3. x % ClockMod = b
  BY <1>2, DebounceAssumption, SMT DEF Stamp
<1> QED
  BY <1>3 DEF e, x

(* A reading ages by at most a millisecond while a millisecond passes, and *)
(* by less only when the clock has lapped it.                              *)
LEMMA Ages ==
    ASSUME NEW a \in Stamp, NEW b \in Stamp
    PROVE  elapsed((a + 1) % ClockMod, b) <= elapsed(a, b) + 1
<1> DEFINE s == (a + 1) % ClockMod
<1>1. s \in Stamp /\ s = IF a + 1 = ClockMod THEN 0 ELSE a + 1
  BY SuccCases
<1> HIDE DEF s
<1>2. /\ elapsed(s, b) = IF s >= b THEN s - b ELSE s - b + ClockMod
      /\ elapsed(a, b) = IF a >= b THEN a - b ELSE a - b + ClockMod
  BY <1>1, ElapsedCases
<1>3. elapsed(s, b) <= elapsed(a, b) + 1
  BY <1>1, <1>2, DebounceAssumption, SMT DEF Stamp
<1> QED
  BY <1>3 DEF s

-----------------------------------------------------------------------------
(* The commands in a buffer are counted by a natural number; feeding a     *)
(* span uncounts it.                                                       *)
LEMMA CommandsInNat ==
    ASSUME NEW buf \in Seq(Spans)
    PROVE  /\ CommandsIn(buf) \in Nat
           /\ IsFiniteSet({i \in 1 .. Len(buf) : buf[i] = "command"})
<1> DEFINE S == {i \in 1 .. Len(buf) : buf[i] = "command"}
<1>1. IsFiniteSet(1 .. Len(buf))
  BY FS_Interval, LenProperties
<1>2. IsFiniteSet(S)
  BY <1>1, FS_Subset
<1> QED
  BY <1>2, FS_CardinalityType DEF CommandsIn

LEMMA CommandsInTail ==
    ASSUME NEW buf \in Seq(Spans), buf # <<>>
    PROVE  /\ Tail(buf) \in Seq(Spans)
           /\ CommandsIn(buf) = CommandsIn(Tail(buf))
                                + (IF Head(buf) = "command" THEN 1 ELSE 0)
<1> DEFINE S == {i \in 1 .. Len(buf) : buf[i] = "command"}
           rest == Tail(buf)
           T == {i \in 1 .. Len(rest) : rest[i] = "command"}
           R == S \ {1}
           f == [i \in T |-> i + 1]
<1>1. /\ rest \in Seq(Spans) /\ Len(rest) = Len(buf) - 1 /\ Head(buf) = buf[1]
      /\ \A i \in 1 .. Len(rest) : rest[i] = buf[i + 1]
  BY HeadTailProperties, SMT
<1>2. Len(buf) \in Nat /\ Len(buf) >= 1
  BY EmptySeq, SMT
<1>3. IsFiniteSet(T) /\ IsFiniteSet(S)
  BY <1>1, CommandsInNat
<1> HIDE DEF rest
<1>4. ExistsBijection(T, R)
  <2>1. f \in [T -> R]
    <3> SUFFICES ASSUME NEW i \in T PROVE i + 1 \in R
      OBVIOUS
    <3> QED
      BY <1>1, <1>2, SMT
  <2>2. \A a, b \in T : f[a] = f[b] => a = b
    BY SMT
  <2>3. \A r \in R : \E t \in T : f[t] = r
    <3> SUFFICES ASSUME NEW r \in R PROVE \E t \in T : f[t] = r
      OBVIOUS
    <3>1. r - 1 \in T /\ (r - 1) + 1 = r
      BY <1>1, <1>2, SMT
    <3> QED
      BY <3>1
  <2> HIDE DEF f, T, R
  <2>4. f \in Bijection(T, R)
    BY <2>1, <2>2, <2>3 DEF Bijection, Injection, Surjection, IsInjective
  <2> QED
    BY <2>4 DEF ExistsBijection
<1>5. Cardinality(R) = Cardinality(T)
  <2> HIDE DEF R, T
  <2> QED
    BY <1>3, <1>4, FS_Bijection
<1>6. Cardinality(R) = IF 1 \in S THEN Cardinality(S) - 1 ELSE Cardinality(S)
  <2> HIDE DEF S
  <2> QED
    BY <1>3, FS_RemoveElement
<1>7. 1 \in S <=> Head(buf) = "command"
  BY <1>1, <1>2, SMT
<1>8. Cardinality(S) = CommandsIn(buf) /\ Cardinality(T) = CommandsIn(rest)
  BY DEF CommandsIn
<1>9. CommandsIn(buf) \in Nat /\ CommandsIn(rest) \in Nat
  BY <1>1, CommandsInNat
<1> HIDE DEF S, T, R
<1>10. CommandsIn(buf) = CommandsIn(rest) + (IF Head(buf) = "command" THEN 1 ELSE 0)
  <2>1. CommandsIn(rest) = IF 1 \in S THEN CommandsIn(buf) - 1 ELSE CommandsIn(buf)
    BY <1>5, <1>6, <1>8
  <2>2. CASE 1 \in S
    <3>1. CommandsIn(rest) = CommandsIn(buf) - 1
      BY <2>1, <2>2
    <3>2. CommandsIn(buf) = CommandsIn(rest) + 1
      BY <1>9, <3>1, SMT
    <3> QED
      BY <1>7, <2>2, <3>2
  <2>3. CASE 1 \notin S
    <3>1. CommandsIn(buf) = CommandsIn(rest) + 0
      BY <1>9, <2>1, <2>3, SMT
    <3> QED
      BY <1>7, <2>3, <3>1
  <2> QED
    BY <2>2, <2>3
<1> QED
  BY <1>1, <1>10 DEF rest

LEMMA CommandsInEmpty == CommandsIn(<<>>) = 0
<1>1. {i \in 1 .. Len(<<>>) : <<>>[i] = "command"} = {}
  BY EmptySeq, SMT
<1> QED
  BY <1>1, FS_EmptySet DEF CommandsIn

-----------------------------------------------------------------------------
(* What is left of the buffer fits into the bound on commands. *)
PendingFits ==
    /\ pending \in Seq(Spans)
    /\ commands + CommandsIn(pending) <= MaxCommands

(* The reading that stamps what is fed is no older than the last           *)
(* evaluation and no older than the last report.                           *)
ReadingFresh ==
    spc \in {"recv", "feed"} => Late <= Gap /\ Late <= speechAge

IInv == AnsweredIffCut /\ CountsAgree /\ PendingFits /\ ReadingFresh

(* What the assumptions and the types come to. *)
LEMMA Numbers ==
    ASSUME TypeOK
    PROVE  /\ RecvTimeout \in Nat /\ BusyMax \in Nat /\ MaxCommands \in Nat
           /\ MaxGap \in Nat /\ AgeCap \in Nat /\ MaxGap <= AgeCap
           /\ waited \in Nat /\ busy \in Nat /\ Gap \in Nat /\ Gap <= MaxGap
           /\ commands \in Nat
           /\ sessionAge \in Nat /\ sessionAge <= AgeCap
           /\ speechAge \in Nat /\ speechAge <= AgeCap
           /\ cmdAge \in Nat /\ cmdAge <= AgeCap
           /\ Late \in Nat /\ Late \in Stamp
<1>1. RecvTimeout \in Nat /\ BusyMax \in Nat /\ MaxCommands \in Nat
  BY ConnAssumption
<1>2. MaxGap \in Nat /\ AgeCap \in Nat /\ MaxGap <= AgeCap
  BY <1>1, DebounceAssumption, SMT DEF MaxGap, AgeCap
<1>3. /\ waited \in 0 .. RecvTimeout /\ busy \in 0 .. BusyMax /\ commands \in 0 .. MaxCommands
      /\ sessionAge \in 0 .. AgeCap /\ speechAge \in 0 .. AgeCap /\ cmdAge \in 0 .. AgeCap
  BY DEF TypeOK
<1>4. Late \in Stamp
  BY ElapsedCases DEF TypeOK, Late
<1>5. Late \in Nat
  BY <1>4, DebounceAssumption, SMT DEF Stamp
<1> HIDE DEF Late
<1> QED
  BY <1>1, <1>2, <1>3, <1>4, <1>5, SMT DEF Gap, MaxGap

LEMMA InitIInv == Init => IInv
<1> SUFFICES ASSUME Init PROVE IInv
  OBVIOUS
<1>1. clk \in Stamp /\ 0 \in Nat
  BY DEF Init
<1>2. deb \in debounce_t /\ deb.state = "LISTENING" /\ deb.commands = 0
  BY <1>1 DEF Init, debounce_init, debounce_t, DebounceStates, CutReasons
<1>3. AgeCap \in Nat /\ RecvTimeout \in Nat /\ BusyMax \in Nat /\ MaxCommands \in Nat
  BY ConnAssumption, DebounceAssumption, SMT DEF AgeCap, MaxGap
<1>4. TypeOK
  <2>1. {sessionAge, speechAge, cmdAge} \subseteq 0 .. AgeCap
    BY <1>3, SMT DEF Init
  <2>2. waited \in 0 .. RecvTimeout /\ busy \in 0 .. BusyMax /\ commands \in 0 .. MaxCommands
    BY <1>3, SMT DEF Init
  <2> QED
    BY <1>1, <1>2, <2>1, <2>2 DEF Init, TypeOK
<1>5. PendingFits
  BY <1>3, CommandsInEmpty, EmptySeq, SMT DEF Init, PendingFits
<1> QED
  BY <1>2, <1>4, <1>5 DEF Init, IInv, AnsweredIffCut, CountsAgree, ReadingFresh

LEMMA TickIInv ==
    ASSUME IInv, Tick
    PROVE  IInv'
<1>0. TypeOK /\ AnsweredIffCut /\ CountsAgree /\ PendingFits /\ ReadingFresh
  BY DEF IInv, AnsweredIffCut
<1>n. /\ RecvTimeout \in Nat /\ BusyMax \in Nat
      /\ MaxGap \in Nat /\ AgeCap \in Nat /\ MaxGap <= AgeCap
      /\ waited \in Nat /\ busy \in Nat /\ Gap \in Nat /\ Gap <= MaxGap
      /\ sessionAge \in Nat /\ sessionAge <= AgeCap
      /\ speechAge \in Nat /\ speechAge <= AgeCap
      /\ cmdAge \in Nat /\ cmdAge <= AgeCap
      /\ Late \in Nat
  BY <1>0, Numbers
<1>1. /\ UNCHANGED <<spc, now_ms, deb, commands, pending, complete, answered>>
      /\ clk' = (clk + 1) % ClockMod
      /\ sessionAge' = Older(sessionAge) /\ speechAge' = Older(speechAge)
      /\ cmdAge' = Older(cmdAge)
  BY DEF Tick
<1>2. /\ waited' \in 0 .. RecvTimeout /\ busy' \in 0 .. BusyMax
      /\ Gap' = Gap + 1 /\ Gap' <= MaxGap
  <2>1. waited \in 0 .. RecvTimeout /\ busy \in 0 .. BusyMax
    BY <1>0 DEF TypeOK
  <2>2. \/ waited < RecvTimeout /\ waited' = waited + 1 /\ busy' = busy
        \/ busy < BusyMax /\ busy' = busy + 1 /\ waited' = waited
    BY DEF Tick
  <2> QED
    BY <1>n, <2>1, <2>2, SMT DEF Gap, MaxGap
<1>3. /\ sessionAge' \in 0 .. AgeCap /\ speechAge' \in 0 .. AgeCap /\ cmdAge' \in 0 .. AgeCap
      /\ speechAge' = IF speechAge < AgeCap THEN speechAge + 1 ELSE speechAge
  BY <1>n, <1>1, SMT DEF Older
<1>4. clk' \in Stamp
  BY <1>0, <1>1, SuccCases DEF TypeOK
<1>5. TypeOK'
  <2>1. {sessionAge', speechAge', cmdAge'} \subseteq 0 .. AgeCap
    BY <1>3
  <2>2. {sessionAge, speechAge, cmdAge}' = {sessionAge', speechAge', cmdAge'}
    OBVIOUS
  <2> QED
    BY <1>0, <1>1, <1>2, <1>4, <2>1, <2>2 DEF TypeOK
<1>6. ReadingFresh'
  <2> SUFFICES ASSUME spc \in {"recv", "feed"}
               PROVE  Late' <= Gap' /\ Late' <= speechAge'
    BY <1>1 DEF ReadingFresh
  <2>1. Late <= Gap /\ Late <= speechAge
    BY <1>0 DEF ReadingFresh
  <2>2. Late' <= Late + 1
    BY <1>0, <1>1, Ages DEF TypeOK, Late
  <2>3. Late' \in Nat
    <3>1. Late' \in Stamp
      BY <1>5, ElapsedCases DEF TypeOK, Late
    <3> QED
      BY <3>1, DebounceAssumption, SMT DEF Stamp
  <2> HIDE DEF Late, Gap
  <2> QED
    BY <1>n, <1>2, <1>3, <2>1, <2>2, <2>3, SMT
<1> QED
  BY <1>0, <1>1, <1>5, <1>6 DEF IInv, AnsweredIffCut, CountsAgree, PendingFits

(* What the functions of debounce.c leave alone. *)
LEMMA NoteSpeechType ==
    ASSUME NEW d \in debounce_t, NEW now \in Stamp
    PROVE  /\ debounce_note_speech(d, now) \in debounce_t
           /\ debounce_note_speech(d, now).state = d.state
           /\ debounce_note_speech(d, now).commands = d.commands
BY DEF debounce_note_speech, debounce_t

LEMMA NoteCommandType ==
    ASSUME NEW d \in debounce_t, NEW now \in Stamp, d.state # "CUT"
    PROVE  /\ debounce_note_command(d, now) \in debounce_t
           /\ debounce_note_command(d, now).state = "WAITING"
           /\ debounce_note_command(d, now).commands = d.commands + 1
<1>1. d.commands + 1 \in Nat /\ "WAITING" \in DebounceStates
  BY DEF debounce_t, DebounceStates
<1> QED
  BY <1>1 DEF debounce_note_command, debounce_t

LEMMA ShouldCutType ==
    ASSUME NEW d \in debounce_t, NEW now
    PROVE  /\ debounce_should_cut(d, now) \in debounce_t
           /\ debounce_should_cut(d, now).commands = d.commands
<1>1. CutVerdict(d, now) \in CutReasons /\ "CUT" \in DebounceStates
  BY DEF CutVerdict, CutReasons, DebounceStates
<1> QED
  BY <1>1 DEF debounce_should_cut, debounce_t

(* A session that is being fed is not cut. *)
LEMMA FeedRuns ==
    ASSUME IInv, spc # "closed"
    PROVE  deb.state # "CUT" /\ ~answered
BY DEF IInv, AnsweredIffCut

LEMMA FeedIInv ==
    ASSUME IInv, Feed
    PROVE  IInv'
<1>0. TypeOK /\ AnsweredIffCut /\ CountsAgree /\ PendingFits /\ ReadingFresh
  BY DEF IInv, AnsweredIffCut
<1>n. /\ MaxCommands \in Nat /\ commands \in Nat /\ AgeCap \in Nat
      /\ speechAge \in Nat /\ speechAge <= AgeCap /\ Late \in Nat
  BY <1>0, Numbers
<1>1. /\ spc = "feed" /\ pending # <<>>
      /\ UNCHANGED <<clk, now_ms, answered, waited, busy, sessionAge>>
  BY DEF Feed
<1>2. deb.state # "CUT" /\ ~answered
  BY <1>1, FeedRuns
<1>3. /\ Tail(pending) \in Seq(Spans)
      /\ CommandsIn(pending) = CommandsIn(Tail(pending))
                               + (IF Head(pending) = "command" THEN 1 ELSE 0)
  BY <1>0, <1>1, CommandsInTail DEF PendingFits
<1>4. CommandsIn(pending) \in Nat /\ CommandsIn(Tail(pending)) \in Nat
  BY <1>0, <1>3, CommandsInNat DEF PendingFits
<1>5. Late <= Gap /\ Late <= speechAge /\ Late' = Late /\ Gap' = Gap
  BY <1>0, <1>1 DEF ReadingFresh, Late, Gap
<1>6. Late \in 0 .. AgeCap
  BY <1>n, <1>5, SMT
<1>7. commands + CommandsIn(pending) <= MaxCommands
  BY <1>0 DEF PendingFits
<1>8. Late <= Late
  BY <1>n, SMT
<1> HIDE DEF Late, Gap
<1>9. CASE FeedSpeech
  <2>1. /\ deb' = debounce_note_speech(deb, now_ms) /\ speechAge' = Late
        /\ pending' = Tail(pending) /\ Head(pending) = "speech"
        /\ UNCHANGED <<spc, commands, complete, cmdAge>>
    BY <1>9 DEF FeedSpeech
  <2>2. deb' \in debounce_t /\ deb'.state = deb.state /\ deb'.commands = deb.commands
    BY <1>0, <2>1, NoteSpeechType DEF TypeOK
  <2>3. TypeOK'
    BY <1>0, <1>1, <1>6, <2>1, <2>2 DEF TypeOK
  <2>4. PendingFits'
    <3>1. commands + CommandsIn(Tail(pending)) <= MaxCommands
      BY <1>n, <1>3, <1>4, <1>7, SMT
    <3> QED
      BY <1>3, <2>1, <3>1 DEF PendingFits
  <2>5. ReadingFresh'
    BY <1>5, <1>8, <2>1 DEF ReadingFresh
  <2> QED
    BY <1>0, <1>1, <1>2, <2>1, <2>2, <2>3, <2>4, <2>5 DEF IInv, AnsweredIffCut, CountsAgree
<1>10. CASE FeedCommand
  <2>1. /\ deb' = debounce_note_command(deb, now_ms) /\ speechAge' = Late /\ cmdAge' = Late
        /\ pending' = Tail(pending) /\ Head(pending) = "command"
        /\ commands' = commands + 1
        /\ UNCHANGED <<spc, complete>>
    BY <1>10 DEF FeedCommand
  <2>2. deb' \in debounce_t /\ deb'.state # "CUT" /\ deb'.commands = deb.commands + 1
    BY <1>0, <1>2, <2>1, NoteCommandType DEF TypeOK
  <2>3. /\ commands + 1 + CommandsIn(Tail(pending)) <= MaxCommands
        /\ commands + 1 \in 0 .. MaxCommands
    <3>1. CommandsIn(pending) = CommandsIn(Tail(pending)) + 1
      BY <1>3, <2>1
    <3> QED
      BY <1>n, <1>4, <1>7, <3>1, SMT
  <2>4. TypeOK'
    BY <1>0, <1>1, <1>6, <2>1, <2>2, <2>3 DEF TypeOK
  <2>5. PendingFits'
    BY <1>3, <2>1, <2>3 DEF PendingFits
  <2>6. ReadingFresh'
    BY <1>5, <1>8, <2>1 DEF ReadingFresh
  <2> QED
    BY <1>0, <1>1, <1>2, <2>1, <2>2, <2>4, <2>5, <2>6 DEF IInv, AnsweredIffCut, CountsAgree
<1>11. CASE FeedQuiet
  <2>1. /\ pending' = Tail(pending)
        /\ UNCHANGED <<spc, deb, commands, complete, speechAge, cmdAge>>
    BY <1>11 DEF FeedQuiet
  <2>2. PendingFits'
    <3>1. commands + CommandsIn(Tail(pending)) <= MaxCommands
      BY <1>n, <1>3, <1>4, <1>7, SMT
    <3> QED
      BY <1>3, <2>1, <3>1 DEF PendingFits
  <2> QED
    BY <1>0, <1>1, <1>5, <2>1, <2>2 DEF IInv, TypeOK, AnsweredIffCut, CountsAgree, ReadingFresh
<1>12. CASE FeedFinal \/ FeedBad
  <2>1. /\ pending' = <<>> /\ complete' \in BOOLEAN /\ spc' \in {spc, "closed"}
        /\ UNCHANGED <<deb, commands, speechAge, cmdAge>>
    BY <1>0, <1>12 DEF FeedFinal, FeedBad, TypeOK
  <2>2. PendingFits'
    <3>1. commands + 0 <= MaxCommands
      BY <1>n, <1>4, <1>7, SMT
    <3> QED
      BY <2>1, <3>1, CommandsInEmpty, EmptySeq DEF PendingFits
  <2> QED
    BY <1>0, <1>1, <1>2, <1>5, <2>1, <2>2
       DEF IInv, TypeOK, AnsweredIffCut, CountsAgree, ReadingFresh
<1> QED
  BY <1>9, <1>10, <1>11, <1>12 DEF Feed

LEMMA session_tickIInv ==
    ASSUME IInv, spc \in {"tick", "tick2"}, NEW next \in {"sample", "tick2"},
           session_tick(next)
    PROVE  IInv'
<1>0. TypeOK /\ AnsweredIffCut /\ CountsAgree /\ PendingFits
  BY DEF IInv, AnsweredIffCut
<1>1. ~answered
  BY FeedRuns
<1>2. /\ deb' = debounce_should_cut(deb, clk) /\ waited' = 0 /\ busy' = 0
      /\ UNCHANGED <<clk, now_ms, commands, pending, complete, ages>>
      /\ \/ deb'.state = "CUT" /\ spc' = "closed" /\ answered' = TRUE
         \/ deb'.state # "CUT" /\ spc' = next /\ answered' = answered
  BY DEF session_tick
<1>3. deb' \in debounce_t /\ deb'.commands = deb.commands
  BY <1>0, <1>2, ShouldCutType DEF TypeOK
<1>4. 0 \in 0 .. RecvTimeout /\ 0 \in 0 .. BusyMax
  BY ConnAssumption, SMT
<1>5. TypeOK'
  BY <1>0, <1>2, <1>3, <1>4 DEF TypeOK, ages
<1>6. spc' \notin {"recv", "feed"} /\ PendingFits'
  BY <1>0, <1>2 DEF PendingFits
<1>7. CountsAgree'
  BY <1>0, <1>2, <1>3 DEF CountsAgree
<1>8. AnsweredIffCut'
  BY <1>1, <1>2, <1>5 DEF AnsweredIffCut
<1> QED
  BY <1>6, <1>7, <1>8 DEF IInv, ReadingFresh

(* A reading is fresh when it is taken. *)
LEMMA SampleIInv ==
    ASSUME IInv, Sample
    PROVE  IInv'
<1>0. TypeOK /\ AnsweredIffCut
  BY DEF IInv, AnsweredIffCut
<1>n. Gap \in Nat /\ speechAge \in Nat /\ clk \in Stamp
  BY <1>0, Numbers DEF TypeOK
<1>1. /\ now_ms' = clk /\ spc' = "recv" /\ spc = "sample"
      /\ UNCHANGED <<clk, deb, commands, pending, complete, answered, waited, busy, ages>>
  BY DEF Sample
<1>2. TypeOK'
  BY <1>0, <1>1 DEF TypeOK, ages
<1>3. Late' = 0
  <2>1. elapsed(clk, clk) = 0
    BY <1>n, ElapsedCases, DebounceAssumption, SMT DEF Stamp
  <2> QED
    BY <1>1, <2>1 DEF Late
<1>4. Late' <= Gap' /\ Late' <= speechAge'
  <2>1. Gap' = Gap /\ speechAge' = speechAge
    BY <1>1 DEF Gap, ages
  <2> HIDE DEF Gap, Late
  <2> QED
    BY <1>n, <1>3, <2>1, SMT
<1>5. ReadingFresh'
  BY <1>4 DEF ReadingFresh
<1> QED
  BY <1>1, <1>2, <1>5 DEF IInv, AnsweredIffCut, CountsAgree, PendingFits

LEMMA NextIInv == IInv /\ [Next]_vars => IInv'
<1> SUFFICES ASSUME IInv, [Next]_vars PROVE IInv'
  OBVIOUS
<1>0. TypeOK /\ AnsweredIffCut /\ CountsAgree /\ PendingFits /\ ReadingFresh
  BY DEF IInv, AnsweredIffCut
<1>1. CASE Tick
  BY <1>1, TickIInv
<1>2. CASE Sample
  BY <1>2, SampleIInv
<1>3. ASSUME NEW buf \in Buffers, RecvData(buf)
      PROVE  IInv'
  <2>1. /\ pending' = (IF complete THEN <<>> ELSE buf) /\ spc' = "feed" /\ spc = "recv"
        /\ commands + CommandsIn(buf) <= MaxCommands
        /\ UNCHANGED <<clk, now_ms, deb, commands, complete, answered, waited, busy, ages>>
    BY <1>3 DEF RecvData
  <2>2. buf \in Seq(Spans)
    BY ConnAssumption DEF Spans
  <2>3. PendingFits'
    <3>1. commands + 0 <= MaxCommands
      <4>1. commands \in Nat /\ MaxCommands \in Nat /\ CommandsIn(buf) \in Nat
        BY <1>0, <2>2, CommandsInNat, Numbers
      <4> QED
        BY <2>1, <4>1, SMT
    <3>2. commands + CommandsIn(<<>>) <= MaxCommands /\ <<>> \in Seq(Spans)
      BY <3>1, CommandsInEmpty, EmptySeq
    <3> QED
      BY <2>1, <2>2, <3>2 DEF PendingFits
  <2>4. ReadingFresh'
    BY <1>0, <2>1 DEF ReadingFresh, Late, Gap, ages
  <2> QED
    BY <1>0, <2>1, <2>3, <2>4 DEF IInv, TypeOK, AnsweredIffCut, CountsAgree, ages
<1>4. CASE RecvNothing \/ RecvEnds \/ Fed
  <2>1. /\ spc' \in {"tick", "closed"} /\ spc \in {"recv", "feed"}
        /\ UNCHANGED <<clk, now_ms, deb, commands, pending, complete, answered, waited,
                       busy, ages>>
    BY <1>4 DEF RecvNothing, RecvEnds, Fed
  <2> QED
    BY <1>0, <2>1 DEF IInv, TypeOK, AnsweredIffCut, CountsAgree, PendingFits, ReadingFresh, ages
<1>5. CASE Feed
  BY <1>5, FeedIInv
<1>6. CASE TickEveryTurn
  <2>1. CASE complete
    BY <1>6, <2>1, session_tickIInv DEF TickEveryTurn
  <2>2. CASE ~complete
    BY <1>6, <2>2, session_tickIInv DEF TickEveryTurn
  <2> QED
    BY <2>1, <2>2
<1>7. CASE TickComplete
  BY <1>7, session_tickIInv DEF TickComplete
<1>8. CASE UNCHANGED vars
  BY <1>0, <1>8 DEF vars, IInv, TypeOK, AnsweredIffCut, CountsAgree, PendingFits,
     ReadingFresh, Late, Gap
<1> QED
  BY <1>1, <1>2, <1>3, <1>4, <1>5, <1>6, <1>7, <1>8 DEF Next, Loop, Closed

LEMMA Inductive == Spec => []IInv
BY InitIInv, NextIInv, PTL DEF Spec

(* session.c:62-67, debounce.c:22-31: whatever is sent, and however the    *)
(* sends are cut into buffers, the count in the answer is the timer's.     *)
THEOREM AnswerCountsTrue == Spec => []CountsAgree
<1>1. IInv => CountsAgree
  BY DEF IInv
<1> QED
  BY <1>1, Inductive, PTL

(* main.c:96-107: for every timing, a connection is answered exactly when  *)
(* the timer has cut it, and is closed by then; the variables keep their   *)
(* types.                                                                  *)
THEOREM AnswersCuts == Spec => []AnsweredIffCut
<1>1. IInv => AnsweredIffCut
  BY DEF IInv
<1> QED
  BY <1>1, Inductive, PTL

-----------------------------------------------------------------------------
(* Refinement of DebounceTimer *)

(* A report made now with the reading in now_ms is a report of the timer,  *)
(* Late milliseconds late.                                                 *)
LEMMA LateReport ==
    ASSUME IInv, spc = "feed"
    PROVE  Late \in Timer!Lateness /\ Timer!ReadAgo(Late) = now_ms
<1>0. TypeOK /\ ReadingFresh
  BY DEF IInv, AnsweredIffCut
<1>1. /\ Late \in Nat /\ Late <= Gap /\ Late <= speechAge
      /\ Gap \in Nat /\ Gap <= MaxGap /\ MaxGap \in Nat
  BY <1>0, Numbers DEF ReadingFresh
<1>2. Late \in 0 .. MaxGap
  <2> HIDE DEF Late, Gap, MaxGap
  <2> QED
    BY <1>1, SMT
<1>3. Late \in Timer!Lateness
  BY <1>1, <1>2 DEF Timer!Lateness
<1>4. Timer!ReadAgo(Late) = now_ms
  BY <1>0, ReadingBack DEF TypeOK, Late, Timer!ReadAgo
<1> QED
  BY <1>3, <1>4

LEMMA FeedRefines ==
    ASSUME IInv, Feed
    PROVE  [Timer!Next]_(Timer!vars)
<1>1. spc = "feed" /\ UNCHANGED <<clk, now_ms, waited, busy, sessionAge>> /\ Gap' = Gap
  BY DEF Feed, Gap
<1>2. deb.state # "CUT"
  BY <1>1, FeedRuns
<1>3. Late \in Timer!Lateness /\ Timer!ReadAgo(Late) = now_ms
  BY <1>1, LateReport
<1>4. CASE FeedSpeech
  <2>1. Timer!NoteSpeech(Late)
    BY <1>1, <1>2, <1>3, <1>4
       DEF FeedSpeech, Timer!NoteSpeech, Timer!Running, debounce_note_speech,
           Timer!debounce_note_speech
  <2> QED
    BY <1>3, <2>1 DEF Timer!Next
<1>5. CASE FeedCommand
  <2>1. deb.commands < MaxCommands
    <3>1. /\ commands = deb.commands /\ commands + CommandsIn(pending) <= MaxCommands
          /\ commands \in Nat /\ MaxCommands \in Nat
      BY Numbers DEF IInv, CountsAgree, PendingFits, AnsweredIffCut
    <3>2. /\ CommandsIn(pending) = CommandsIn(Tail(pending)) + 1
          /\ CommandsIn(Tail(pending)) \in Nat
      BY <1>5, CommandsInTail, CommandsInNat DEF IInv, PendingFits, Feed, FeedCommand
    <3>3. commands < MaxCommands
      BY <3>1, <3>2, SMT
    <3> QED
      BY <3>1, <3>3
  <2>2. Timer!NoteCommand(Late)
    BY <1>1, <1>2, <1>3, <1>5, <2>1
       DEF FeedCommand, Timer!NoteCommand, Timer!Running, debounce_note_command,
           Timer!debounce_note_command
  <2> QED
    BY <1>3, <2>2 DEF Timer!Next
<1>6. CASE FeedQuiet \/ FeedFinal \/ FeedBad
  BY <1>1, <1>6 DEF FeedQuiet, FeedFinal, FeedBad, Timer!vars
<1> QED
  BY <1>4, <1>5, <1>6 DEF Feed

(* Every step of the loop is a step of the timer under its caller's        *)
(* contract, or none.                                                      *)
LEMMA StepRefines == IInv /\ [Next]_vars => [Timer!Next]_(Timer!vars)
<1> SUFFICES ASSUME IInv, [Next]_vars
             PROVE  [Timer!Next]_(Timer!vars)
  OBVIOUS
<1>1. CASE Tick
  <2>1. deb.state # "CUT"
    BY <1>1, FeedRuns DEF Tick
  <2>2. Gap < MaxGap /\ Gap' = Gap + 1
    <3>1. /\ RecvTimeout \in Nat /\ BusyMax \in Nat /\ waited \in 0 .. RecvTimeout
          /\ busy \in 0 .. BusyMax
      BY ConnAssumption DEF IInv, AnsweredIffCut, TypeOK
    <3>2. \/ waited < RecvTimeout /\ waited' = waited + 1 /\ busy' = busy
          \/ busy < BusyMax /\ busy' = busy + 1 /\ waited' = waited
      BY <1>1 DEF Tick
    <3> QED
      BY <3>1, <3>2, SMT DEF Gap, MaxGap
  <2>3. Timer!Tick
    BY <1>1, <2>1, <2>2
       DEF Tick, Timer!Tick, Timer!Running, Older, Timer!Older, AgeCap, Timer!AgeCap
  <2> QED
    BY <2>3 DEF Timer!Next
<1>2. CASE Feed
  BY <1>2, FeedRefines
<1>3. CASE TickEveryTurn \/ TickComplete
  <2>1. /\ deb' = debounce_should_cut(deb, clk) /\ Gap' = 0
        /\ UNCHANGED <<clk, ages>>
    BY <1>3 DEF TickEveryTurn, TickComplete, session_tick, Gap
  <2>2. debounce_should_cut(deb, clk) = Timer!debounce_should_cut(deb, clk)
    BY DEF debounce_should_cut, CutVerdict, Expired, elapsed, Timer!debounce_should_cut,
           Timer!CutVerdict, Timer!Expired, Timer!elapsed
  <2>3. Timer!ShouldCut
    BY <2>1, <2>2 DEF Timer!ShouldCut, Timer!ages, ages
  <2> QED
    BY <2>3 DEF Timer!Next
<1>4. CASE Sample \/ (\E buf \in Buffers : RecvData(buf)) \/ RecvNothing \/ RecvEnds \/ Fed
           \/ UNCHANGED vars
  <2>1. UNCHANGED <<clk, deb, waited, busy, sessionAge, speechAge, cmdAge>>
    BY <1>4 DEF Sample, RecvData, RecvNothing, RecvEnds, Fed, vars, ages
  <2> QED
    BY <2>1 DEF Timer!vars, Gap
<1> QED
  BY <1>1, <1>2, <1>3, <1>4 DEF Next, Loop, Closed

(* main.c:84-107: however long recv waits and the recogniser takes, and    *)
(* whatever the client sends, handle_conn keeps the timer's contract: it   *)
(* evaluates in time and never reports with a reading older than the last  *)
(* evaluation.                                                             *)
THEOREM KeepsTimerContract == Spec => RefinesTimer
<1>1. Init => Timer!Init
  BY DEF Init, Timer!Init, Gap, Stamp, Timer!Stamp, debounce_init, Timer!debounce_init
<1> QED
  BY <1>1, Inductive, StepRefines, PTL DEF Spec, RefinesTimer, Timer!Spec

-----------------------------------------------------------------------------
(* What follows for a connection from the proofs about the timer. *)
Timed == INSTANCE DebounceProofs WITH d <- deb, gap <- Gap


(* The timer's assumption is the connection's. *)
LEMMA TimedAssumption ==
    /\ MaxGap \in Nat \ {0}
    /\ MaxSessionMs + MaxGap < ClockMod
    /\ DebounceMs + MaxGap < ClockMod
    /\ SilenceMs + MaxGap < ClockMod
BY ConnAssumption, DebounceAssumption, SMT DEF MaxGap

(* Timer, of which ServerConn speaks, and Timed, with the theorems, are    *)
(* the same specification.                                                 *)
LEMMA SameTimer == Timer!Spec => Timed!Spec
<1>1. Timer!Init => Timed!Init
  BY DEF Timer!Init, Timed!Init, Timer!Stamp, Timed!Stamp, Timer!debounce_init,
         Timed!debounce_init
<1>2. [Timer!Next]_(Timer!vars) => [Timed!Next]_(Timed!vars)
  BY DEF Timer!Next, Timer!Tick, Timer!NoteSpeech, Timer!NoteCommand, Timer!ShouldCut,
         Timer!ReadAgo, Timer!Lateness, Timer!Running, Timer!vars, Timer!ages,
         Timer!Older, Timer!AgeCap, Timer!Stamp, Timer!debounce_init,
         Timer!debounce_note_speech, Timer!debounce_note_command,
         Timer!debounce_should_cut, Timer!CutVerdict, Timer!Expired, Timer!elapsed,
         Timed!Next, Timed!Tick, Timed!NoteSpeech, Timed!NoteCommand, Timed!ShouldCut,
         Timed!ReadAgo, Timed!Lateness, Timed!Running, Timed!vars, Timed!ages,
         Timed!Older, Timed!AgeCap, Timed!Stamp, Timed!debounce_init,
         Timed!debounce_note_speech, Timed!debounce_note_command,
         Timed!debounce_should_cut, Timed!CutVerdict, Timed!Expired, Timed!elapsed
<1> QED
  BY <1>1, <1>2, PTL DEF Timer!Spec, Timed!Spec

(* debounce.c:33-65 as main.c:84-107 drives it: for every connection,      *)
(* wherever the clock wraps and however long the recogniser takes, the     *)
(* stamps mean true time, no limit is overdue past one turn of the loop,   *)
(* and a cut names a limit that is due.                                    *)
THEOREM CutsOnTime ==
    Spec => [](Timer!StampsTrue /\ Timer!Punctual /\ Timer!CutJustified)
<1>1. Timed!Spec => [](Timed!StampsTrue /\ Timed!Punctual /\ Timed!CutJustified)
  <2> USE DebounceAssumption, ConnAssumption, TimedAssumption
  <2>1. Timed!Spec => []Timed!StampsTrue
    BY Timed!StampsAreTrue
  <2>2. Timed!Spec => []Timed!Punctual
    BY Timed!CutIsPunctual
  <2>3. Timed!Spec => []Timed!CutJustified
    BY Timed!CutIsJustified
  <2> HIDE DebounceAssumption, ConnAssumption, TimedAssumption
  <2> QED
    BY <2>1, <2>2, <2>3, PTL
<1>2. Timed!StampsTrue => Timer!StampsTrue
  BY DEF Timer!StampsTrue, Timer!Running, Timer!Enabled, Timer!elapsed,
         Timed!StampsTrue, Timed!Running, Timed!Enabled, Timed!elapsed
<1>3. Timed!Punctual => Timer!Punctual
  BY DEF Timer!Punctual, Timer!Running, Timer!Within, Timer!Enabled, Timed!Punctual,
         Timed!Running, Timed!Within, Timed!Enabled
<1>4. Timed!CutJustified => Timer!CutJustified
  BY DEF Timer!CutJustified, Timer!Enabled, Timed!CutJustified, Timed!Enabled
<1> QED
  BY <1>1, <1>2, <1>3, <1>4, SameTimer, KeepsTimerContract, PTL DEF RefinesTimer

(* debounce.h as a connection shows it: every connection is a session of   *)
(* CutPolicy, in true time, with one turn of the loop as slack.            *)
THEOREM FollowsPolicy == Spec => Timed!RefinesPolicy
<1>1. Timed!Spec => Timed!RefinesPolicy
  BY Timed!ImplementsPolicy, DebounceAssumption, ConnAssumption, TimedAssumption
<1> QED
  BY <1>1, SameTimer, KeepsTimerContract, PTL DEF RefinesTimer

=============================================================================
