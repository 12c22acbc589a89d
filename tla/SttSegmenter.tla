---------------------------- MODULE SttSegmenter ----------------------------
(***************************************************************************)
(* The recogniser backends (server/src/stt_stub.c, stt_whisper.c) under    *)
(* session_on_pcm (server/src/session.c): a payload span is fed sample by  *)
(* sample, utterances end after trailing silence, their transcripts wait   *)
(* in a small ring, and the ring is drained after every span.  One backend *)
(* serves one session after another and is reset in between.               *)
(*                                                                         *)
(* A sample is loud (above energy_thresh) or quiet.  A transcript is the   *)
(* number of its utterance in the session; `origin` is the session whose   *)
(* audio it was made from.  Recognition is external: text, no text, or a   *)
(* failure.                                                                *)
(***************************************************************************)
EXTENDS Integers, Sequences

CONSTANTS
    Backends,           \* the backends to consider: "stub", "whisper"
    SpanMax,            \* samples in the largest payload span
    HangSamples,        \* hang_samples
    MinSpeechSamples,   \* min_speech_samples
    MaxPending,         \* STT_STUB_MAX_PENDING, STT_WHISPER_MAX_PENDING
    ScriptCount,        \* script_count
    AccFirst,           \* first capacity of the sample buffer (4096)
    AccMax,             \* max_samples
    MaxSamples,         \* bound on the samples of one session
    MaxSessions         \* bound on the sessions

(* handle_conn receives at most 2048 bytes at a time, 1024 samples; both   *)
(* backends are created with a hang of 4800 samples.                       *)
ASSUME SegmenterAssumption ==
    /\ Backends \subseteq {"stub", "whisper"}
    /\ SpanMax \in Nat \ {0}
    /\ HangSamples \in Nat
    /\ SpanMax <= HangSamples
    /\ MinSpeechSamples \in Nat
    /\ MaxPending \in Nat /\ MaxPending >= 2
    /\ ScriptCount \in Nat
    /\ AccFirst \in Nat \ {0}
    /\ AccMax \in Nat /\ AccFirst <= AccMax
    /\ MaxSamples \in Nat
    /\ MaxSessions \in Nat \ {0}

VARIABLES
    backend,    \* the backend main() has chosen
    phase,      \* "idle": between two spans; "feed"; "drain"
    session,    \* the session being served
    left,       \* samples of the span that are still to be fed
    total,      \* samples of this session
    run,        \* in_speech, speech_run, silence_run
    acc,        \* the whisper backend's samples: acc_len, acc_cap
    ring,       \* pending, pend_head, pend_tail
    next_script,
    origin,     \* history: the session of the oldest sample in run or acc
    due,        \* history: the transcripts made in this session
    polled      \* history: the transcripts the session has received

vars == <<backend, phase, session, left, total, run, acc, ring, next_script, origin,
          due, polled>>

Idle == [in_speech |-> FALSE, speech_run |-> 0, silence_run |-> 0]

Slots == 0 .. MaxPending - 1

Nothing == [text |-> 0, origin |-> 0]

Init ==
    /\ backend \in Backends
    /\ phase = "idle"
    /\ session = 1
    /\ left = 0
    /\ total = 0
    /\ run = Idle
    /\ acc = [acc_len |-> 0, acc_cap |-> 0]
    /\ ring = [pending |-> [i \in Slots |-> Nothing], pend_head |-> 0, pend_tail |-> 0]
    /\ next_script = 0
    /\ origin = 1
    /\ due = <<>>
    /\ polled = <<>>

(* Mutant: the reset of the whisper backend forgets its samples. *)
SessionInit_KeepsAudio ==
    /\ phase = "idle"
    /\ session < MaxSessions
    /\ session' = session + 1
    /\ run' = Idle
    /\ ring' = [ring EXCEPT !.pend_head = 0, !.pend_tail = 0]
    /\ next_script' = 0
    /\ total' = 0
    /\ due' = <<>>
    /\ polled' = <<>>
    /\ UNCHANGED <<backend, phase, left, acc, origin>>

(* The next connection: session_init resets the backend. *)
SessionInit ==
    /\ backend \in Backends
    /\ phase = "idle"
    /\ session < MaxSessions
    /\ session' = session + 1
    /\ run' = Idle
    /\ acc' = [acc EXCEPT !.acc_len = 0]
    /\ ring' = [ring EXCEPT !.pend_head = 0, !.pend_tail = 0]
    /\ next_script' = 0
    /\ total' = 0
    /\ due' = <<>>
    /\ polled' = <<>>
    /\ UNCHANGED <<backend, phase, left, origin>>

(* session_on_pcm begins with a span of n samples. *)
OnPcm(n) ==
    /\ phase = "idle"
    /\ total + n <= MaxSamples
    /\ phase' = "feed"
    /\ left' = n
    /\ UNCHANGED <<backend, session, total, run, acc, ring, next_script, origin, due, polled>>

-----------------------------------------------------------------------------
(* Feeding one sample *)

NextSlot(i) == (i + 1) % MaxPending

Full == NextSlot(ring.pend_tail) = ring.pend_head

(* A full ring drops the transcript. *)
push_pending(entry) ==
    IF Full THEN ring
    ELSE [ring EXCEPT !.pending[ring.pend_tail] = entry, !.pend_tail = NextSlot(@)]

(* acc_push: the buffer doubles up to AccMax; realloc may fail. *)
Grown == LET cap == IF acc.acc_cap = 0 THEN AccFirst ELSE 2 * acc.acc_cap
         IN  IF cap > AccMax THEN AccMax ELSE cap

(* Mutant: a failed realloc is not noticed. *)
acc_push_Unchecked(realloc) ==
    IF acc.acc_len >= AccMax THEN acc
    ELSE IF acc.acc_len = acc.acc_cap
    THEN [acc_len |-> acc.acc_len + 1, acc_cap |-> IF realloc THEN Grown ELSE acc.acc_cap]
    ELSE [acc EXCEPT !.acc_len = @ + 1]

acc_push(realloc) ==
    IF acc.acc_len >= AccMax THEN acc
    ELSE IF acc.acc_len = acc.acc_cap
    THEN IF realloc THEN [acc_len |-> acc.acc_len + 1, acc_cap |-> Grown] ELSE acc
    ELSE [acc EXCEPT !.acc_len = @ + 1]

Pushed(realloc) == IF backend = "whisper" THEN acc_push(realloc) ELSE acc

(* The session of the oldest sample that counts, the present one included. *)
OriginNow ==
    IF run.speech_run = 0 /\ acc.acc_len = 0 THEN session ELSE origin

Heard(loud) ==
    IF loud THEN [in_speech |-> TRUE, speech_run |-> run.speech_run + 1, silence_run |-> 0]
    ELSE IF run.in_speech THEN [run EXCEPT !.silence_run = @ + 1]
    ELSE run

(* The silence after speech is long enough. *)
Ends(loud) == ~loud /\ run.in_speech /\ run.silence_run + 1 >= HangSamples

Consume ==
    /\ phase = "feed"
    /\ left > 0
    /\ left' = left - 1
    /\ total' = total + 1
    /\ UNCHANGED <<backend, phase, session, polled>>

(* A sample that ends no utterance. *)
FeedSample(loud, realloc) ==
    /\ Consume
    /\ ~Ends(loud)
    /\ run' = Heard(loud)
    /\ acc' = Pushed(realloc)
    /\ origin' = OriginNow
    /\ UNCHANGED <<ring, next_script, due>>

(* The utterance gives a transcript: it had speech enough, and the stub    *)
(* has a script left, or whisper_full returned text.                       *)
Transcribed(a, recognised) ==
    /\ run.speech_run >= MinSpeechSamples
    /\ IF backend = "stub" THEN next_script < ScriptCount ELSE a.acc_len > 0 /\ recognised

(* Mutant: end_utterance forgets the silence it has counted. *)
EndUtterance_KeepsRun(recognised, realloc) ==
    /\ Consume
    /\ Ends(FALSE)
    /\ LET a == Pushed(realloc)
           entry == [text |-> Len(due) + 1, origin |-> OriginNow]
       IN  /\ IF Transcribed(a, recognised)
              THEN ring' = push_pending(entry) /\ due' = Append(due, entry)
                   /\ next_script' = IF backend = "stub" THEN next_script + 1 ELSE next_script
              ELSE UNCHANGED <<ring, due, next_script>>
           /\ acc' = [a EXCEPT !.acc_len = 0]
    /\ UNCHANGED run
    /\ origin' = session

(* end_utterance: transcribe, queue the text, start afresh. *)
EndUtterance(recognised, realloc) ==
    /\ Consume
    /\ Ends(FALSE)
    /\ LET a == Pushed(realloc)
           entry == [text |-> Len(due) + 1, origin |-> OriginNow]
       IN  /\ IF Transcribed(a, recognised)
              THEN ring' = push_pending(entry) /\ due' = Append(due, entry)
                   /\ next_script' = IF backend = "stub" THEN next_script + 1 ELSE next_script
              ELSE UNCHANGED <<ring, due, next_script>>
           /\ acc' = [a EXCEPT !.acc_len = 0]
    /\ run' = Idle
    /\ origin' = session

-----------------------------------------------------------------------------
(* Draining *)

SpanFed ==
    /\ phase = "feed"
    /\ left = 0
    /\ phase' = "drain"
    /\ UNCHANGED <<backend, session, left, total, run, acc, ring, next_script, origin,
                  due, polled>>

(* poll returns 1; the session goes on to match an intent. *)
Poll ==
    /\ phase = "drain"
    /\ ring.pend_head # ring.pend_tail
    /\ polled' = Append(polled, ring.pending[ring.pend_head])
    /\ ring' = [ring EXCEPT !.pend_head = NextSlot(@)]
    /\ UNCHANGED <<backend, phase, session, left, total, run, acc, next_script, origin, due>>

(* poll returns 0: session_on_pcm returns. *)
Drained ==
    /\ phase = "drain"
    /\ ring.pend_head = ring.pend_tail
    /\ phase' = "idle"
    /\ UNCHANGED <<backend, session, left, total, run, acc, ring, next_script, origin,
                  due, polled>>

(* The peer sends nothing, or no further device connects. *)
Wait == phase = "idle" /\ UNCHANGED vars

Next ==
    \/ Wait
    \/ SessionInit
    \/ \E n \in 0 .. SpanMax : OnPcm(n)
    \/ \E loud, realloc \in BOOLEAN : FeedSample(loud, realloc)
    \/ \E recognised, realloc \in BOOLEAN : EndUtterance(recognised, realloc)
    \/ SpanFed
    \/ Poll
    \/ Drained

Spec == Init /\ [][Next]_vars

-----------------------------------------------------------------------------
Entries == [text : Nat, origin : Nat]

(* The variables hold values of the program's types. *)
TypeOK ==
    /\ backend \in Backends
    /\ phase \in {"idle", "feed", "drain"}
    /\ session \in 1 .. MaxSessions
    /\ left \in 0 .. SpanMax
    /\ total \in Nat
    /\ run \in [in_speech : BOOLEAN, speech_run : Nat, silence_run : Nat]
    /\ acc \in [acc_len : Nat, acc_cap : Nat]
    /\ ring \in [pending : [Slots -> Entries], pend_head : Slots, pend_tail : Slots]
    /\ next_script \in Nat
    /\ origin \in Nat
    /\ due \in Seq(Entries)
    /\ polled \in Seq(Entries)

(* What waits in the ring, oldest first. *)
Waiting ==
    [i \in 1 .. ((ring.pend_tail - ring.pend_head) % MaxPending) |->
        ring.pending[(ring.pend_head + i - 1) % MaxPending]]

(* stt_stub.c:5-28, 59-74, session.c:55-68: every transcript that was made *)
(* reaches the session once and in order: the ring never drops one, since  *)
(* a span is too short to end more utterances than the ring has room for.  *)
EachTranscriptOnce == polled \o Waiting = due

(* stt_stub.c:30-38, stt_whisper.c:117-122: a session hears nothing of the *)
(* one before it, neither a transcript that was waiting nor audio of an    *)
(* utterance that was cut off.                                             *)
NoCrossTalk ==
    \A i \in 1 .. Len(due) : due[i].origin = session

(* stt_whisper.c:97-115: every sample is stored inside the buffer, also    *)
(* when it could not grow.                                                 *)
AccInBounds == acc.acc_len <= acc.acc_cap /\ acc.acc_cap <= AccMax

=============================================================================
