------------------------------ MODULE RingBuf ------------------------------
(***************************************************************************)
(* The byte ring buffer of firmware/core/src/ringbuf.c: storage, head,     *)
(* tail and count, and copies that wrap around the end of the storage.     *)
(***************************************************************************)
EXTENDS Integers, Sequences

CONSTANTS
    Byte,
    Caps,       \* the capacities to consider
    Inputs,     \* what may be written
    Lens        \* how much may be asked for

ASSUME RingAssumption ==
    /\ Caps \subseteq Nat
    /\ Inputs \subseteq Seq(Byte)
    /\ Lens \subseteq Nat

VARIABLES
    buf,        \* the storage
    cap,
    head, tail, count,
    ret,        \* what the last call returned
    out         \* what the last read or peek copied to its caller

vars == <<buf, cap, head, tail, count, ret, out>>

Min2(x, y) == IF x < y THEN x ELSE y

(* ringbuf_init; the storage holds anything. *)
Init ==
    /\ cap \in Caps
    /\ buf \in [0 .. cap - 1 -> Byte]
    /\ head = 0
    /\ tail = 0
    /\ count = 0
    /\ ret = 0
    /\ out = <<>>

ringbuf_free == cap - count

(* Mutant: the second copy takes the start of the data again. *)
rb_put_Restart(at, src, n) ==
    LET first == Min2(cap - at, n)
    IN  [i \in 0 .. cap - 1 |->
            IF i < n - first THEN src[i + 1]
            ELSE IF at <= i /\ i < at + first THEN src[i - at + 1]
            ELSE buf[i]]

(* rb_put's two copies of src[1 .. n], from position `at` on: up to the    *)
(* end of the storage, and the rest at its start.                          *)
rb_put(at, src, n) ==
    LET first == Min2(cap - at, n)
    IN  [i \in 0 .. cap - 1 |->
            IF i < n - first THEN src[first + i + 1]
            ELSE IF at <= i /\ i < at + first THEN src[i - at + 1]
            ELSE buf[i]]

(* The two copies of ringbuf_read and ringbuf_peek. *)
Copied(n) ==
    LET first == Min2(cap - head, n)
    IN  [i \in 1 .. n |-> IF i <= first THEN buf[head + i - 1] ELSE buf[i - first - 1]]

ringbuf_write(data) ==
    LET n == Min2(Len(data), ringbuf_free)
    IN  /\ ret' = n
        /\ IF n > 0
           THEN /\ buf' = rb_put(tail, data, n)
                /\ tail' = (tail + n) % cap
                /\ count' = count + n
           ELSE UNCHANGED <<buf, tail, count>>
        /\ UNCHANGED <<cap, head, out>>

(* The data fill the whole storage: only the last cap bytes are kept. *)
OverwriteAll(data) ==
    /\ cap > 0
    /\ Len(data) >= cap
    /\ ret' = count + (Len(data) - cap)
    /\ buf' = rb_put(0, SubSeq(data, Len(data) - cap + 1, Len(data)), cap)
    /\ head' = 0
    /\ tail' = 0
    /\ count' = cap
    /\ UNCHANGED <<cap, out>>

(* Mutant: the bytes are dropped, the head is not moved. *)
OverwriteSome_KeepsHead(data) ==
    /\ Len(data) > 0
    /\ Len(data) < cap
    /\ ret' = IF Len(data) > ringbuf_free THEN Len(data) - ringbuf_free ELSE 0
    /\ buf' = rb_put(tail, data, Len(data))
    /\ tail' = (tail + Len(data)) % cap
    /\ count' = count - ret' + Len(data)
    /\ UNCHANGED <<cap, head, out>>

(* rb_drop what does not fit, then rb_put. *)
OverwriteSome(data) ==
    /\ Len(data) > 0
    /\ Len(data) < cap
    /\ ret' = IF Len(data) > ringbuf_free THEN Len(data) - ringbuf_free ELSE 0
    /\ head' = (head + ret') % cap
    /\ buf' = rb_put(tail, data, Len(data))
    /\ tail' = (tail + Len(data)) % cap
    /\ count' = count - ret' + Len(data)
    /\ UNCHANGED <<cap, out>>

OverwriteNone(data) ==
    /\ cap = 0 \/ Len(data) = 0
    /\ ret' = 0
    /\ UNCHANGED <<buf, cap, head, tail, count, out>>

ringbuf_write_overwrite(data) ==
    OverwriteAll(data) \/ OverwriteSome(data) \/ OverwriteNone(data)

(* An early return copies nothing to the caller, as Copied(0) does. *)
ringbuf_read(len) ==
    LET n == Min2(len, count)
    IN  /\ ret' = n
        /\ out' = Copied(n)
        /\ head' = IF n > 0 THEN (head + n) % cap ELSE head
        /\ count' = count - n
        /\ UNCHANGED <<buf, cap, tail>>

ringbuf_peek(len) ==
    LET n == Min2(len, count)
    IN  /\ ret' = n
        /\ out' = Copied(n)
        /\ UNCHANGED <<buf, cap, head, tail, count>>

ringbuf_reset ==
    /\ head' = 0
    /\ tail' = 0
    /\ count' = 0
    /\ UNCHANGED <<buf, cap, ret, out>>

Next ==
    \/ \E data \in Inputs : ringbuf_write(data)
    \/ \E data \in Inputs : ringbuf_write_overwrite(data)
    \/ \E len \in Lens : ringbuf_read(len)
    \/ \E len \in Lens : ringbuf_peek(len)
    \/ ringbuf_reset

Spec == Init /\ [][Next]_vars

-----------------------------------------------------------------------------
(* The variables hold values of the program's types, the indices inside    *)
(* the storage.                                                            *)
TypeOK ==
    /\ cap \in Caps
    /\ buf \in [0 .. cap - 1 -> Byte]
    /\ head \in 0 .. cap /\ tail \in 0 .. cap /\ count \in 0 .. cap
    /\ cap > 0 => head < cap /\ tail < cap
    /\ ret \in Nat
    /\ out \in Seq(Byte)

(* ringbuf.c:27-45: head, tail and count, which are kept separately and    *)
(* moved by different functions, describe the same region.                 *)
Consistent == cap > 0 => tail = (head + count) % cap

(* The bytes stored, oldest first. *)
Content == [i \in 1 .. count |-> buf[(head + i - 1) % cap]]

Queue == INSTANCE Fifo WITH capacity <- cap, content <- Content

(* ringbuf.h:32-43: whatever the order of the calls, wherever the contents *)
(* wrap, the buffer is a first-in first-out queue: every byte comes out    *)
(* once and in order, or is counted as discarded.                          *)
RefinesFifo == Queue!Spec

=============================================================================
