\* Spans as long as the hang, the smallest ring that can hold a transcript, a
\* sample buffer that reaches its limit, and two sessions one after the other.
CONSTANTS
    Backends = {"stub", "whisper"}
    SpanMax = 3
    HangSamples = 3
    MinSpeechSamples = 2
    MaxPending = 2
    ScriptCount = 2
    AccFirst = 2
    AccMax = 5
    MaxSamples = 11
    MaxSessions = 2
SPECIFICATION Spec
INVARIANTS EachTranscriptOnce NoCrossTalk AccInBounds
