-------------------------------- MODULE Fifo --------------------------------
(***************************************************************************)
(* What firmware/core/include/core/ringbuf.h promises: a first-in first-   *)
(* out queue of bytes with a capacity, whose writer either stops at the    *)
(* capacity or pushes out the oldest bytes.  Every call reports how many   *)
(* bytes it moved (`ret`); `out` is what it copied to its caller.          *)
(***************************************************************************)
EXTENDS Integers, Sequences

CONSTANTS Byte, Inputs, Lens

VARIABLES capacity, content, ret, out

vars == <<capacity, content, ret, out>>

AtMost(x, y) == IF x < y THEN x ELSE y

First(n, s) == SubSeq(s, 1, n)

Without(n, s) == SubSeq(s, n + 1, Len(s))

Init ==
    /\ capacity \in Nat
    /\ content = <<>>
    /\ ret = 0
    /\ out = <<>>

(* As many bytes as fit. *)
Write(data) ==
    /\ ret' = AtMost(Len(data), capacity - Len(content))
    /\ content' = content \o First(ret', data)
    /\ UNCHANGED <<capacity, out>>

(* All bytes; the oldest that do not fit are discarded and counted. *)
Overwrite(data) ==
    /\ capacity > 0
    /\ LET all == content \o data
           drop == IF Len(all) > capacity THEN Len(all) - capacity ELSE 0
       IN  ret' = drop /\ content' = Without(drop, all)
    /\ UNCHANGED <<capacity, out>>

(* A queue without capacity takes nothing and reports nothing. *)
OverwriteNothing ==
    /\ capacity = 0
    /\ ret' = 0
    /\ UNCHANGED <<capacity, content, out>>

Read(len) ==
    /\ ret' = AtMost(len, Len(content))
    /\ out' = First(ret', content)
    /\ content' = Without(ret', content)
    /\ UNCHANGED capacity

Peek(len) ==
    /\ ret' = AtMost(len, Len(content))
    /\ out' = First(ret', content)
    /\ UNCHANGED <<capacity, content>>

Reset ==
    /\ content' = <<>>
    /\ UNCHANGED <<capacity, ret, out>>

Next ==
    \/ \E data \in Inputs : Write(data) \/ Overwrite(data)
    \/ OverwriteNothing
    \/ \E len \in Lens : Read(len) \/ Peek(len)
    \/ Reset

Spec == Init /\ [][Next]_vars

=============================================================================
