--------------------------- MODULE RingBufProofs ---------------------------
(***************************************************************************)
(* Proofs about RingBuf, for every capacity, every byte set and everything *)
(* written to it or asked of it: the indices stay inside the storage, and  *)
(* head, tail and count, which different functions move, always describe   *)
(* the same region, and the buffer implements the queue of Fifo.           *)
(***************************************************************************)
EXTENDS RingBuf, SequenceTheorems, TLAPS

(* The indices of ringbuf.c are advanced by at most one turn. *)
LEMMA TurnCases ==
    ASSUME NEW c \in Nat, c > 0, NEW x \in Nat, x < 2 * c
    PROVE  x % c = IF x < c THEN x ELSE x - c
<1>1. CASE x < c
  BY <1>1, SMT
<1>2. CASE x >= c
  <2>1. x = 1 * c + (x - c)
    OBVIOUS
  <2>2. (x - c) \in 0 .. c - 1
    BY <1>2, SMT
  <2> QED
    BY <1>2, <2>1, <2>2, SMT
<1> QED
  BY <1>1, <1>2

(* Advancing an index twice is advancing it by the sum. *)
LEMMA TurnTwice ==
    ASSUME NEW c \in Nat, c > 0, NEW h \in Nat, h < c,
           NEW a \in Nat, a <= c, NEW b \in Nat, a + b <= c
    PROVE  /\ (h + a) % c \in 0 .. c - 1
           /\ (((h + a) % c) + b) % c = (h + (a + b)) % c
<1> DEFINE y == (h + a) % c
<1>1. y = IF h + a < c THEN h + a ELSE h + a - c
  BY TurnCases, h + a < 2 * c, SMT
<1>2. y \in Nat /\ y < c
  BY <1>1, SMT
<1>3. (y + b) % c = IF y + b < c THEN y + b ELSE y + b - c
  <2>1. y + b \in Nat /\ y + b < 2 * c
    BY <1>2, SMT
  <2> HIDE DEF y
  <2> QED
    BY <1>2, <2>1, TurnCases
<1>4. (h + (a + b)) % c = IF h + (a + b) < c THEN h + (a + b) ELSE h + (a + b) - c
  BY TurnCases, h + (a + b) \in Nat, h + (a + b) < 2 * c
<1> HIDE DEF y
<1>5. (y + b) % c = (h + (a + b)) % c
  BY <1>1, <1>2, <1>3, <1>4, SMT
<1> QED
  BY <1>2, <1>5, SMT DEF y

-----------------------------------------------------------------------------
(* Min2 is the smaller of the two. *)
LEMMA Min2Cases ==
    ASSUME NEW x \in Nat, NEW y \in Nat
    PROVE  /\ Min2(x, y) \in Nat /\ Min2(x, y) <= x /\ Min2(x, y) <= y
           /\ Min2(x, y) = x \/ Min2(x, y) = y
BY DEF Min2

(* A function on 1 .. n is a sequence of length n. *)
LEMMA FunctionIsSeq ==
    ASSUME NEW S, NEW n \in Nat, NEW f \in [1 .. n -> S]
    PROVE  f \in Seq(S) /\ Len(f) = n
BY SMT

(* What each type says, for the leaves below. *)
LEMMA TypeFacts ==
    ASSUME TypeOK
    PROVE  /\ cap \in Nat /\ head \in Nat /\ tail \in Nat /\ count \in Nat
           /\ count <= cap /\ head <= cap /\ tail <= cap
           /\ ringbuf_free \in Nat /\ ringbuf_free = cap - count
           /\ cap > 0 => head < cap /\ tail < cap
BY RingAssumption, SMT DEF TypeOK, ringbuf_free

(* rb_put (ringbuf.c:27-38) writes inside the storage, and bytes. *)
LEMMA rb_putType ==
    ASSUME TypeOK, cap > 0, NEW src \in Seq(Byte), NEW n \in Nat,
           n <= Len(src), n <= cap, NEW at \in Nat, at < cap
    PROVE  rb_put(at, src, n) \in [0 .. cap - 1 -> Byte]
<1> USE TypeFacts
<1> DEFINE first == Min2(cap - at, n)
<1>0. cap - at \in Nat
  BY SMT
<1>1. first \in Nat /\ first <= cap - at /\ first <= n
  BY <1>0, Min2Cases
<1>2. SUFFICES ASSUME NEW i \in 0 .. cap - 1
               PROVE  (IF i < n - first THEN src[first + i + 1]
                       ELSE IF at <= i /\ i < at + first THEN src[i - at + 1]
                       ELSE buf[i]) \in Byte
  BY <1>2 DEF rb_put
<1> HIDE DEF first
<1>3. CASE i < n - first
  <2>1. first + i + 1 \in 1 .. Len(src)
    BY <1>1, <1>3, SMT
  <2> QED
    BY <1>3, <2>1, SMT
<1>4. CASE ~(i < n - first) /\ at <= i /\ i < at + first
  <2>1. i - at + 1 \in 1 .. Len(src)
    BY <1>1, <1>4, SMT
  <2> QED
    BY <1>4, <2>1, SMT
<1>5. CASE ~(i < n - first) /\ ~(at <= i /\ i < at + first)
  BY <1>5 DEF TypeOK
<1> QED
  BY <1>3, <1>4, <1>5

(* The copies of ringbuf_read and ringbuf_peek read inside the storage. *)
LEMMA CopiedType ==
    ASSUME TypeOK, NEW n \in Nat, n <= count
    PROVE  Copied(n) \in [1 .. n -> Byte] /\ Copied(n) \in Seq(Byte)
<1> USE TypeFacts
<1> DEFINE first == Min2(cap - head, n)
<1>0. cap - head \in Nat
  BY SMT
<1>1. first \in Nat /\ first <= cap - head /\ first <= n /\ (first = cap - head \/ first = n)
  BY <1>0, Min2Cases
<1>2. Copied(n) \in [1 .. n -> Byte]
  <2>1. SUFFICES ASSUME NEW i \in 1 .. n
                 PROVE  (IF i <= first THEN buf[head + i - 1] ELSE buf[i - first - 1]) \in Byte
    BY <2>1 DEF Copied
  <2> HIDE DEF first
  <2>2. CASE i <= first
    <3>1. head + i - 1 \in 0 .. cap - 1
      BY <1>1, <2>2, SMT
    <3> QED
      BY <2>2, <3>1 DEF TypeOK
  <2>3. CASE ~(i <= first)
    <3>1. i - first - 1 \in 0 .. cap - 1
      BY <1>1, <2>3, SMT
    <3> QED
      BY <2>3, <3>1 DEF TypeOK
  <2> QED
    BY <2>2, <2>3
<1> QED
  BY <1>2, FunctionIsSeq

-----------------------------------------------------------------------------
(* The inductive invariant: ringbuf.c moves the indices modulo the         *)
(* capacity, so that the region they describe is kept only while they are  *)
(* inside the storage and no more is moved than there is room for.         *)
IInv == TypeOK /\ Consistent

LEMMA InitIInv == Init => IInv
<1> SUFFICES ASSUME Init PROVE IInv
  OBVIOUS
<1>1. cap \in Nat
  BY RingAssumption DEF Init
<1>2. TypeOK
  BY <1>1, SMT DEF Init, TypeOK
<1>3. cap > 0 => (head + count) % cap = 0
  <2>1. head + count = 0
    BY DEF Init
  <2> QED
    BY <1>1, <2>1, TurnCases, SMT
<1> QED
  BY <1>2, <1>3 DEF Init, IInv, Consistent

(* Bytes appended at the tail: ringbuf_write, and the end of an overwrite. *)
LEMMA WriteIInv ==
    ASSUME IInv, NEW data \in Inputs, ringbuf_write(data)
    PROVE  IInv'
<1> USE TypeFacts DEF IInv
<1> DEFINE n == Min2(Len(data), ringbuf_free)
<1>0. data \in Seq(Byte) /\ Len(data) \in Nat
  BY RingAssumption
<1>1. n \in Nat /\ n <= Len(data) /\ n <= cap - count
  BY <1>0, Min2Cases
<1>2. /\ ret' = n /\ cap' = cap /\ head' = head /\ out' = out
      /\ IF n > 0 THEN /\ buf' = rb_put(tail, data, n)
                       /\ tail' = (tail + n) % cap
                       /\ count' = count + n
         ELSE buf' = buf /\ tail' = tail /\ count' = count
  BY DEF ringbuf_write
<1> HIDE DEF n
<1>3. CASE n > 0
  <2>1. cap > 0 /\ n <= cap
    BY <1>1, <1>3, SMT
  <2>2. buf' \in [0 .. cap - 1 -> Byte]
    BY <1>0, <1>1, <1>2, <1>3, <2>1, rb_putType
  <2>3. /\ (head + count) % cap \in 0 .. cap - 1
        /\ (((head + count) % cap) + n) % cap = (head + (count + n)) % cap
    <3>1. /\ cap \in Nat /\ head \in Nat /\ count \in Nat
          /\ count <= cap /\ count + n <= cap /\ head < cap
      BY <1>1, <2>1, SMT
    <3> HIDE TypeFacts
    <3> QED
      BY <1>1, <2>1, <3>1, TurnTwice
  <2>4. tail' = (head + (count + n)) % cap
    BY <1>2, <1>3, <2>1, <2>3 DEF Consistent
  <2>5. (tail + n) % cap \in 0 .. cap - 1
    BY <1>1, <2>1, TurnTwice, tail + 0 = tail, SMT
  <2>6. TypeOK'
    BY <1>1, <1>2, <1>3, <2>1, <2>2, <2>5, SMT DEF TypeOK
  <2>7. Consistent'
    BY <1>2, <1>3, <2>4 DEF Consistent
  <2> QED
    BY <2>6, <2>7
<1>4. CASE ~(n > 0)
  BY <1>1, <1>2, <1>4 DEF TypeOK, Consistent
<1> QED
  BY <1>3, <1>4

(* ringbuf_write_overwrite with more than the storage holds. *)
LEMMA OverwriteAllIInv ==
    ASSUME IInv, NEW data \in Inputs, OverwriteAll(data)
    PROVE  IInv'
<1> USE TypeFacts DEF IInv
<1>0. data \in Seq(Byte) /\ Len(data) \in Nat
  BY RingAssumption
<1> DEFINE last == SubSeq(data, Len(data) - cap + 1, Len(data))
<1>1. cap > 0 /\ Len(data) >= cap /\ Len(data) - cap + 1 \in 1 .. Len(data) + 1
  BY <1>0, SMT DEF OverwriteAll
<1>2. last \in Seq(Byte) /\ Len(last) = cap
  BY <1>0, <1>1, SubSeqProperties
<1> HIDE DEF last
<1>3. rb_put(0, last, cap) \in [0 .. cap - 1 -> Byte]
  BY <1>1, <1>2, rb_putType
<1>4. (0 + cap) % cap = 0
  BY <1>1, TurnCases, SMT
<1>5. TypeOK'
  <2>1. /\ buf' = rb_put(0, last, cap) /\ cap' = cap /\ out' = out
        /\ head' = 0 /\ tail' = 0 /\ count' = cap
        /\ ret' = count + (Len(data) - cap)
    BY DEF OverwriteAll, last
  <2>2. count + (Len(data) - cap) \in Nat /\ 0 \in 0 .. cap /\ cap \in 0 .. cap
    BY <1>0, <1>1, SMT
  <2>3. cap \in Caps /\ out \in Seq(Byte)
    BY DEF TypeOK
  <2>4. buf' \in [0 .. cap' - 1 -> Byte]
    BY <1>3, <2>1
  <2>5. head' \in 0 .. cap' /\ tail' \in 0 .. cap' /\ count' \in 0 .. cap'
    BY <2>1, <2>2
  <2>6. head' < cap' /\ tail' < cap' /\ ret' \in Nat
    BY <1>1, <2>1, <2>2
  <2> QED
    BY <2>1, <2>3, <2>4, <2>5, <2>6 DEF TypeOK
<1>6. Consistent'
  BY <1>4 DEF OverwriteAll, Consistent
<1> QED
  BY <1>5, <1>6

(* The other overwrites: drop at the head, append at the tail. *)
LEMMA OverwriteSomeIInv ==
    ASSUME IInv, NEW data \in Inputs, OverwriteSome(data)
    PROVE  IInv'
<1> USE DEF IInv
<1>t. /\ cap \in Nat /\ head \in Nat /\ tail \in Nat /\ count \in Nat /\ count <= cap
      /\ ringbuf_free = cap - count
      /\ cap > 0 => head < cap /\ tail < cap
  BY TypeFacts
<1> DEFINE len == Len(data)
           drop == IF len > ringbuf_free THEN len - ringbuf_free ELSE 0
<1>0. data \in Seq(Byte) /\ len \in Nat
  BY RingAssumption
<1>1. /\ len > 0 /\ len < cap /\ ret' = drop /\ cap' = cap /\ out' = out
      /\ head' = (head + drop) % cap
      /\ buf' = rb_put(tail, data, len)
      /\ tail' = (tail + len) % cap
      /\ count' = count - drop + len
  BY DEF OverwriteSome
<1>2. cap > 0 /\ head < cap /\ tail < cap /\ len < cap /\ len > 0
  <2>1. len > 0 /\ len < cap
    BY <1>1
  <2> HIDE DEF len
  <2> QED
    BY <1>t, <1>0, <2>1, SMT
<1>3. buf' \in [0 .. cap - 1 -> Byte]
  <2>1. len <= cap
    BY <1>t, <1>0, <1>2, SMT
  <2>2. rb_put(tail, data, len) \in [0 .. cap - 1 -> Byte]
    BY <1>t, <1>0, <1>2, <2>1, rb_putType
  <2> QED
    BY <1>1, <2>2
<1> HIDE DEF len
<1>4. /\ drop \in Nat /\ drop <= count
      /\ \/ drop = 0 /\ count + len <= cap
         \/ drop = len + count - cap
  BY <1>t, <1>0, <1>2, SMT
<1> HIDE DEF drop
<1>5. /\ tail = IF head + count < cap THEN head + count ELSE head + count - cap
      /\ head' = IF head + drop < cap THEN head + drop ELSE head + drop - cap
      /\ tail' = IF tail + len < cap THEN tail + len ELSE tail + len - cap
  <2>1. /\ head + count \in Nat /\ head + count < 2 * cap
        /\ head + drop \in Nat /\ head + drop < 2 * cap
        /\ tail + len \in Nat /\ tail + len < 2 * cap
    BY <1>t, <1>0, <1>2, <1>4, SMT
  <2>2. tail = (head + count) % cap
    BY <1>2 DEF Consistent
  <2>3. (head + count) % cap = IF head + count < cap THEN head + count
                               ELSE head + count - cap
    BY <1>t, <1>2, <2>1, TurnCases
  <2>4. (head + drop) % cap = IF head + drop < cap THEN head + drop
                              ELSE head + drop - cap
    BY <1>t, <1>2, <1>4, <2>1, TurnCases
  <2>5. (tail + len) % cap = IF tail + len < cap THEN tail + len ELSE tail + len - cap
    BY <1>t, <1>0, <1>2, <2>1, TurnCases
  <2> QED
    BY <1>1, <2>2, <2>3, <2>4, <2>5
<1>6. /\ head' \in Nat /\ head' < cap /\ tail' \in Nat /\ tail' < cap
      /\ count' \in Nat /\ count' <= cap /\ count' = count - drop + len
  <2>1. count' = count - drop + len
    BY <1>1
  <2> QED
    BY <1>t, <1>0, <1>2, <1>4, <1>5, <2>1, SMT
<1>7. (head' + count') % cap = IF head' + count' < cap THEN head' + count'
                               ELSE head' + count' - cap
  <2>1. head' + count' \in Nat /\ head' + count' < 2 * cap
    BY <1>t, <1>2, <1>6, SMT
  <2> QED
    BY <1>t, <1>2, <1>6, <2>1, TurnCases
<1>8. TypeOK'
  BY <1>t, <1>1, <1>2, <1>3, <1>4, <1>6, SMT DEF TypeOK
<1>9. tail' = (head' + count') % cap
  BY <1>t, <1>0, <1>2, <1>4, <1>5, <1>6, <1>7, SMT
<1> QED
  BY <1>1, <1>8, <1>9 DEF Consistent

(* Bytes taken at the head. *)
LEMMA ReadIInv ==
    ASSUME IInv, NEW len \in Lens, ringbuf_read(len)
    PROVE  IInv'
<1> USE TypeFacts DEF IInv
<1> DEFINE n == Min2(len, count)
<1>0. len \in Nat
  BY RingAssumption
<1>1. n \in Nat /\ n <= count
  BY <1>0, Min2Cases
<1>2. /\ ret' = n /\ out' = Copied(n) /\ count' = count - n
      /\ head' = IF n > 0 THEN (head + n) % cap ELSE head
      /\ buf' = buf /\ cap' = cap /\ tail' = tail
  BY DEF ringbuf_read
<1>3. out' \in Seq(Byte)
  BY <1>1, <1>2, CopiedType
<1> HIDE DEF n
<1>4. CASE n > 0
  <2>1. cap > 0 /\ head < cap /\ n <= cap /\ count - n \in Nat /\ n + (count - n) = count
    BY <1>1, <1>4, SMT
  <2>2. /\ (head + n) % cap \in 0 .. cap - 1
        /\ (((head + n) % cap) + (count - n)) % cap = (head + count) % cap
    <3> DEFINE rest == count - n
    <3>1. /\ cap \in Nat /\ cap > 0 /\ head \in Nat /\ head < cap
          /\ n \in Nat /\ n <= cap /\ rest \in Nat /\ n + rest <= cap /\ n + rest = count
      BY <1>1, <2>1, SMT
    <3> HIDE TypeFacts DEF rest
    <3>2. /\ (head + n) % cap \in 0 .. cap - 1
          /\ (((head + n) % cap) + rest) % cap = (head + (n + rest)) % cap
      BY <3>1, TurnTwice
    <3>3. (((head + n) % cap) + rest) % cap = (head + count) % cap
      BY <3>1, <3>2
    <3> QED
      BY <3>2, <3>3 DEF rest
  <2>3. TypeOK'
    <3>1. head' \in 0 .. cap - 1 /\ count' \in 0 .. cap /\ ret' \in Nat
      BY <1>1, <1>2, <1>4, <2>1, <2>2, SMT
    <3>2. head' \in 0 .. cap /\ head' < cap
      BY <2>1, <3>1, SMT
    <3> QED
      BY <1>2, <1>3, <3>1, <3>2 DEF TypeOK
  <2>4. Consistent'
    BY <1>2, <1>4, <2>1, <2>2 DEF Consistent
  <2> QED
    BY <2>3, <2>4
<1>5. CASE ~(n > 0)
  <2>1. n = 0 /\ count' = count /\ head' = head
    BY <1>1, <1>2, <1>5, SMT
  <2> QED
    BY <1>1, <1>2, <1>3, <2>1 DEF TypeOK, Consistent
<1> QED
  BY <1>4, <1>5

LEMMA NextIInv == IInv /\ [Next]_vars => IInv'
<1> SUFFICES ASSUME IInv, [Next]_vars PROVE IInv'
  OBVIOUS
<1> USE DEF IInv
<1>1. ASSUME NEW data \in Inputs, ringbuf_write(data) PROVE IInv'
  BY <1>1, WriteIInv
<1>2. ASSUME NEW data \in Inputs, ringbuf_write_overwrite(data) PROVE IInv'
  <2>1. CASE OverwriteAll(data)
    BY <2>1, OverwriteAllIInv
  <2>2. CASE OverwriteSome(data)
    BY <2>2, OverwriteSomeIInv
  <2>3. CASE OverwriteNone(data)
    BY <2>3 DEF OverwriteNone, TypeOK, Consistent
  <2> QED
    BY <1>2, <2>1, <2>2, <2>3 DEF ringbuf_write_overwrite
<1>3. ASSUME NEW len \in Lens, ringbuf_read(len) PROVE IInv'
  BY <1>3, ReadIInv
<1>4. ASSUME NEW len \in Lens, ringbuf_peek(len) PROVE IInv'
  <2>1. Min2(len, count) \in Nat /\ Min2(len, count) <= count
    BY RingAssumption, TypeFacts, Min2Cases
  <2>2. out' \in Seq(Byte)
    BY <1>4, <2>1, CopiedType DEF ringbuf_peek
  <2> QED
    BY <1>4, <2>1, <2>2 DEF ringbuf_peek, TypeOK, Consistent
<1>5. CASE ringbuf_reset
  <2>1. cap > 0 => 0 % cap = 0
    BY TypeFacts, TurnCases, SMT
  <2> QED
    BY <1>5, <2>1, TypeFacts, SMT DEF ringbuf_reset, TypeOK, Consistent
<1>6. CASE UNCHANGED vars
  BY <1>6 DEF vars, TypeOK, Consistent
<1> QED
  BY <1>1, <1>2, <1>3, <1>4, <1>5, <1>6 DEF Next

LEMMA Inductive == Spec => []IInv
BY InitIInv, NextIInv, PTL DEF Spec

(* ringbuf.c:5-118: for every capacity, whatever is written, overwritten   *)
(* or asked for, the indices stay inside the storage and the count inside  *)
(* the capacity.                                                           *)
THEOREM TypeCorrect == Spec => []TypeOK
<1>1. IInv => TypeOK
  BY DEF IInv
<1> QED
  BY <1>1, Inductive, PTL

(* ringbuf.c:27-45: for every capacity, head, tail and count describe the  *)
(* same region after every sequence of calls.                              *)
THEOREM RegionsAgree == Spec => []Consistent
<1>1. IInv => Consistent
  BY DEF IInv
<1> QED
  BY <1>1, Inductive, PTL

-----------------------------------------------------------------------------
(* Refinement of Fifo *)

(* A region of n bytes from position h on, read around the end of the      *)
(* storage b, is a sequence.                                               *)
LEMMA RegionIsSeq ==
    ASSUME NEW S, NEW c \in Nat, NEW n \in Nat, n <= c, NEW h \in Nat, n > 0 => h < c,
           NEW b \in [0 .. c - 1 -> S], NEW s, s = [i \in 1 .. n |-> b[(h + i - 1) % c]]
    PROVE  /\ s \in Seq(S) /\ Len(s) = n
           /\ \A i \in 1 .. n : s[i] = b[(h + i - 1) % c]
<1>1. ASSUME NEW i \in 1 .. n
      PROVE  b[(h + i - 1) % c] \in S
  <2>1. c > 0 /\ h + i - 1 \in Nat /\ h + i - 1 < 2 * c
    BY SMT
  <2> DEFINE x == h + i - 1
  <2> HIDE DEF x
  <2>2. x % c = IF x < c THEN x ELSE x - c
    BY <2>1, TurnCases DEF x
  <2>3. x % c \in 0 .. c - 1
    BY <2>1, <2>2, SMT DEF x
  <2> QED
    BY <2>3 DEF x
<1>2. s \in [1 .. n -> S]
  BY <1>1
<1> QED
  BY <1>2, FunctionIsSeq

(* Two functions on the same positions that agree are the same sequence. *)
LEMMA SameSeq ==
    ASSUME NEW S, NEW s \in Seq(S), NEW t \in Seq(S), NEW n \in Nat,
           Len(s) = n, Len(t) = n, \A i \in 1 .. n : s[i] = t[i]
    PROVE  s = t
BY SeqEqual

(* Position h, advanced by k. *)
Place(h, k) == IF h + k < cap THEN h + k ELSE h + k - cap

(* With n bytes of src put behind a region of c bytes from position h on,  *)
(* byte j is one of the region's or one of src's.                          *)
Follows(src, n, h, c, j) ==
    /\ j < c => rb_put(Place(h, c), src, n)[Place(h, j)] = buf[Place(h, j)]
    /\ ~(j < c) => rb_put(Place(h, c), src, n)[Place(h, j)] = src[j - c + 1]

(* rb_put (ringbuf.c:27-38): data put behind a region which they do not    *)
(* reach around to follow it.                                              *)
LEMMA PutBehind ==
    ASSUME TypeOK, cap > 0, NEW src, NEW n \in Nat, NEW h \in Nat, h < cap,
           NEW c \in Nat, c + n <= cap, NEW j \in Nat, j < c + n
    PROVE  Follows(src, n, h, c, j)
<1> DEFINE at == Place(h, c)
           p == Place(h, j)
           first == Min2(cap - at, n)
<1>0. cap \in Nat
  BY TypeFacts
<1>1. at \in Nat /\ at < cap /\ cap - at \in Nat /\ p \in 0 .. cap - 1
  BY <1>0, SMT DEF Place
<1>2. first \in Nat /\ first <= cap - at /\ first <= n /\ (first = cap - at \/ first = n)
  BY <1>1, Min2Cases
<1>3. rb_put(at, src, n)[p] = IF p < n - first THEN src[first + p + 1]
                              ELSE IF at <= p /\ p < at + first THEN src[p - at + 1]
                              ELSE buf[p]
  BY <1>1 DEF rb_put
<1>a. at = Place(h, c) /\ p = Place(h, j)
  OBVIOUS
<1> HIDE DEF first, at, p
<1>4. /\ j < c => rb_put(at, src, n)[p] = buf[p]
      /\ ~(j < c) => rb_put(at, src, n)[p] = src[j - c + 1]
  <2>1. CASE j < c
    <3>1. ~(p < n - first) /\ ~(at <= p /\ p < at + first)
      BY <1>0, <1>1, <1>2, <1>a, <2>1, SMT DEF Place
    <3> QED
      BY <1>3, <2>1, <3>1
  <2>2. CASE ~(j < c) /\ at + (j - c) < cap
    <3>1. ~(p < n - first) /\ at <= p /\ p < at + first /\ p - at + 1 = j - c + 1
      BY <1>0, <1>1, <1>2, <1>a, <2>2, SMT DEF Place
    <3> QED
      BY <1>3, <2>2, <3>1
  <2>3. CASE ~(j < c) /\ ~(at + (j - c) < cap)
    <3>1. p < n - first /\ first + p + 1 = j - c + 1
      BY <1>0, <1>1, <1>2, <1>a, <2>3, SMT DEF Place
    <3> QED
      BY <1>3, <2>3, <3>1
  <2> QED
    BY <2>1, <2>2, <2>3
<1> QED
  BY <1>4 DEF at, p, Follows

(* The bytes stored are a sequence of `count` bytes. *)
LEMMA ContentIsSeq ==
    ASSUME TypeOK
    PROVE  /\ Content \in Seq(Byte) /\ Len(Content) = count
           /\ \A i \in 1 .. count : Content[i] = buf[(head + i - 1) % cap]
<1>1. count > 0 => head < cap
  BY TypeFacts, SMT
<1> QED
  BY <1>1, TypeFacts, RegionIsSeq DEF TypeOK, Content

(* The same of the next state. *)
LEMMA ContentIsSeqAfter ==
    ASSUME TypeOK'
    PROVE  /\ Content' \in Seq(Byte) /\ Len(Content') = count'
           /\ \A i \in 1 .. count' : Content'[i] = buf'[(head' + i - 1) % cap']
<1>1. /\ cap' \in Nat /\ count' \in Nat /\ head' \in Nat /\ count' <= cap'
      /\ count' > 0 => head' < cap'
  BY RingAssumption, SMT DEF TypeOK
<1>2. buf' \in [0 .. cap' - 1 -> Byte]
  BY DEF TypeOK
<1> DEFINE c == cap'
           n == count'
           h == head'
           b == buf'
           s == Content'
<1>3. s = [i \in 1 .. n |-> b[(h + i - 1) % c]]
  BY DEF Content
<1>4. /\ c \in Nat /\ n \in Nat /\ h \in Nat /\ n <= c /\ (n > 0 => h < c)
      /\ b \in [0 .. c - 1 -> Byte]
  BY <1>1, <1>2
<1> HIDE DEF c, n, h, b, s
<1>5. s \in Seq(Byte) /\ Len(s) = n /\ \A i \in 1 .. n : s[i] = b[(h + i - 1) % c]
  BY <1>3, <1>4, RegionIsSeq
<1> QED
  BY <1>5 DEF c, n, h, b, s

(* Byte i of what a read or a peek copies is byte i stored. *)
LEMMA CopiedIsFirst ==
    ASSUME TypeOK, NEW n \in Nat, n <= count
    PROVE  Copied(n) = SubSeq(Content, 1, n)
<1> DEFINE first == Min2(cap - head, n)
<1>t. cap \in Nat /\ head \in Nat /\ count \in Nat /\ count <= cap /\ cap - head \in Nat
      /\ (cap > 0 => head < cap)
  BY TypeFacts, SMT
<1>1. first \in Nat /\ first <= cap - head /\ first <= n /\ (first = cap - head \/ first = n)
  BY <1>t, Min2Cases
<1>2. Copied(n) \in Seq(Byte) /\ Len(Copied(n)) = n
  BY CopiedType, FunctionIsSeq
<1>3. /\ Content \in Seq(Byte) /\ Len(Content) = count
      /\ \A i \in 1 .. count : Content[i] = buf[(head + i - 1) % cap]
  BY ContentIsSeq
<1>4. /\ SubSeq(Content, 1, n) \in Seq(Byte) /\ Len(SubSeq(Content, 1, n)) = n
      /\ \A i \in 1 .. n : SubSeq(Content, 1, n)[i] = Content[i]
  <2>1. \A i \in 1 .. n : Content[i] \in Byte
    BY <1>t, <1>3, ElementOfSeq, SMT
  <2>2. /\ SubSeq(Content, 1, n) \in Seq(Byte)
        /\ Len(SubSeq(Content, 1, n)) = IF 1 <= n THEN n - 1 + 1 ELSE 0
        /\ \A i \in 1 .. n - 1 + 1 : SubSeq(Content, 1, n)[i] = Content[1 + i - 1]
    BY <2>1, SubSeqProperties
  <2> QED
    BY <2>2, SMT
<1>5. ASSUME NEW i \in 1 .. n
      PROVE  Copied(n)[i] = SubSeq(Content, 1, n)[i]
  <2> DEFINE x == head + i - 1
  <2>1. x \in Nat /\ x < 2 * cap /\ cap > 0 /\ i \in 1 .. count
    BY <1>t, SMT
  <2>2. x % cap = IF x < cap THEN x ELSE x - cap
    <3> HIDE DEF x
    <3> QED
      BY <1>t, <2>1, TurnCases
  <2>3. Copied(n)[i] = IF i <= first THEN buf[head + i - 1] ELSE buf[i - first - 1]
    BY DEF Copied
  <2> HIDE DEF first
  <2>4. (i <= first => x % cap = head + i - 1) /\ (~(i <= first) => x % cap = i - first - 1)
    BY <1>t, <1>1, <2>1, <2>2, SMT
  <2>5. Content[i] = buf[x % cap]
    BY <1>3, <2>1
  <2> HIDE DEF x
  <2>6. Copied(n)[i] = buf[x % cap]
    BY <2>3, <2>4
  <2> QED
    BY <1>4, <2>5, <2>6
<1> QED
  BY <1>2, <1>4, <1>5, SameSeq

(* What is left behind the first n bytes stored. *)
LEMMA RestOfContent ==
    ASSUME TypeOK, NEW n \in Nat, n <= count
    PROVE  /\ SubSeq(Content, n + 1, count) \in Seq(Byte)
           /\ Len(SubSeq(Content, n + 1, count)) = count - n
           /\ \A i \in 1 .. count - n :
                 SubSeq(Content, n + 1, count)[i] = buf[(head + (n + i) - 1) % cap]
<1>t. count \in Nat
  BY TypeFacts
<1>1. /\ Content \in Seq(Byte) /\ Len(Content) = count
      /\ \A i \in 1 .. count : Content[i] = buf[(head + i - 1) % cap]
  BY ContentIsSeq
<1>2. \A i \in n + 1 .. count : Content[i] \in Byte
  BY <1>t, <1>1, ElementOfSeq, SMT
<1> DEFINE rest == SubSeq(Content, n + 1, count)
<1>3. /\ rest \in Seq(Byte)
      /\ Len(rest) = IF n + 1 <= count THEN count - (n + 1) + 1 ELSE 0
      /\ \A i \in 1 .. count - (n + 1) + 1 : rest[i] = Content[(n + 1) + i - 1]
  BY <1>t, <1>2, n + 1 \in Int, SubSeqProperties
<1> HIDE DEF rest
<1>4. Len(rest) = count - n
  BY <1>t, <1>3, SMT
<1>5. ASSUME NEW i \in 1 .. count - n
      PROVE  rest[i] = buf[(head + (n + i) - 1) % cap]
  <2>1. i \in 1 .. count - (n + 1) + 1 /\ (n + 1) + i - 1 = n + i /\ n + i \in 1 .. count
    BY <1>t, SMT
  <2> QED
    BY <1>1, <1>3, <2>1
<1> QED
  BY <1>3, <1>4, <1>5 DEF rest

LEMMA ReadRefines ==
    ASSUME IInv, TypeOK', NEW len \in Lens, ringbuf_read(len)
    PROVE  Queue!Read(len)
<1> USE DEF IInv
<1>t. cap \in Nat /\ head \in Nat /\ count \in Nat /\ count <= cap
      /\ (cap > 0 => head < cap) /\ len \in Nat
  BY TypeFacts, RingAssumption
<1> DEFINE n == Min2(len, count)
<1>1. n \in Nat /\ n <= count
  BY <1>t, Min2Cases
<1>2. /\ ret' = n /\ out' = Copied(n) /\ count' = count - n
      /\ head' = IF n > 0 THEN (head + n) % cap ELSE head
      /\ buf' = buf /\ cap' = cap
  BY DEF ringbuf_read
<1>3. Len(Content) = count
  BY ContentIsSeq
<1>4. ret' = Queue!AtMost(len, Len(Content))
  BY <1>2, <1>3 DEF Queue!AtMost, Min2
<1> HIDE DEF n
<1>5. out' = Queue!First(ret', Content)
  BY <1>1, <1>2, CopiedIsFirst DEF Queue!First
<1>6. Content' = SubSeq(Content, n + 1, count)
  <2>1. /\ Content' \in Seq(Byte) /\ Len(Content') = count - n
        /\ \A i \in 1 .. count - n : Content'[i] = buf[(head' + i - 1) % cap]
    BY <1>2, ContentIsSeqAfter
  <2>2. ASSUME NEW i \in 1 .. count - n
        PROVE  (head' + i - 1) % cap = (head + (n + i) - 1) % cap
    <3>1. cap > 0 /\ head < cap /\ i - 1 \in Nat /\ n + (i - 1) <= cap /\ n <= cap
      BY <1>t, <1>1, SMT
    <3> DEFINE j == i - 1
    <3> HIDE DEF j
    <3>2. (((head + n) % cap) + j) % cap = (head + (n + j)) % cap
      BY <1>t, <1>1, <3>1, TurnTwice DEF j
    <3>3. head' + i - 1 = head' + j /\ head + (n + i) - 1 = head + (n + j)
      <4>1. head' \in Nat
        BY RingAssumption DEF TypeOK
      <4> QED
        BY <1>t, <1>1, <4>1, SMT DEF j
    <3>4. CASE n > 0
      BY <1>2, <3>2, <3>3, <3>4
    <3>5. CASE ~(n > 0)
      <4>1. n = 0 /\ head' = head
        BY <1>1, <1>2, <3>5, SMT
      <4>2. head + (n + j) = head' + j
        BY <1>t, <3>1, <4>1, SMT DEF j
      <4> QED
        BY <3>3, <4>2
    <3> QED
      BY <3>4, <3>5
  <2>3. /\ SubSeq(Content, n + 1, count) \in Seq(Byte)
        /\ Len(SubSeq(Content, n + 1, count)) = count - n
        /\ \A i \in 1 .. count - n :
              SubSeq(Content, n + 1, count)[i] = buf[(head + (n + i) - 1) % cap]
    BY <1>1, RestOfContent
  <2>4. ASSUME NEW i \in 1 .. count - n
        PROVE  Content'[i] = SubSeq(Content, n + 1, count)[i]
    BY <2>1, <2>2, <2>3
  <2>5. count - n \in Nat
    BY <1>t, <1>1, SMT
  <2> QED
    BY <2>1, <2>3, <2>4, <2>5, SameSeq
<1> QED
  BY <1>2, <1>3, <1>4, <1>5, <1>6 DEF Queue!Read, Queue!Without

(* A step that puts data behind what it keeps, the bytes stored but for    *)
(* the first d, leaves those bytes followed by the data.                   *)
LEMMA KeptThenData ==
    ASSUME TypeOK, TypeOK', cap' = cap, cap > 0, NEW data \in Seq(Byte), NEW n \in Nat,
           n <= Len(data), NEW d \in Nat, d <= count, count - d + n <= cap,
           count' = count - d + n,
           head' = Place(head, d), NEW at, at = Place(head, count),
           buf' = rb_put(at, data, n)
    PROVE  Content' = SubSeq(Content, d + 1, count) \o SubSeq(data, 1, n)
<1>t. cap \in Nat /\ head \in Nat /\ count \in Nat /\ head < cap /\ count <= cap
  BY TypeFacts, SMT
<1> DEFINE kept == SubSeq(Content, d + 1, count)
           added == SubSeq(data, 1, n)
           c == count - d
<1>1. c \in Nat /\ c + n \in Nat /\ count' = c + n
  BY <1>t, SMT
<1>2. /\ kept \in Seq(Byte) /\ Len(kept) = c
      /\ \A i \in 1 .. c : kept[i] = buf[(head + (d + i) - 1) % cap]
  BY RestOfContent
<1>3. /\ added \in Seq(Byte) /\ Len(added) = n
      /\ \A i \in 1 .. n : added[i] = data[i]
  <2>1. \A i \in 1 .. n : data[i] \in Byte
    BY LenProperties, ElementOfSeq, SMT
  <2>2. /\ added \in Seq(Byte)
        /\ Len(added) = IF 1 <= n THEN n - 1 + 1 ELSE 0
        /\ \A i \in 1 .. n - 1 + 1 : added[i] = data[1 + i - 1]
    BY <2>1, SubSeqProperties
  <2> HIDE DEF added
  <2> QED
    BY <2>2, SMT
<1> HIDE DEF kept, added
<1>4. /\ kept \o added \in Seq(Byte) /\ Len(kept \o added) = c + n
      /\ \A i \in 1 .. c + n : (kept \o added)[i] = IF i <= c THEN kept[i] ELSE added[i - c]
  <2>1. /\ kept \o added \in Seq(Byte)
        /\ Len(kept \o added) = Len(kept) + Len(added)
        /\ \A i \in 1 .. Len(kept) + Len(added) : (kept \o added)[i] =
              IF i <= Len(kept) THEN kept[i] ELSE added[i - Len(kept)]
    BY <1>2, <1>3, ConcatProperties
  <2>2. Len(kept) = c /\ Len(added) = n
    BY <1>2, <1>3
  <2> HIDE DEF c
  <2> QED
    BY <2>1, <2>2
<1>5. /\ Content' \in Seq(Byte) /\ Len(Content') = c + n
      /\ \A i \in 1 .. c + n : Content'[i] = buf'[(head' + i - 1) % cap]
  BY <1>1, ContentIsSeqAfter
<1>6. ASSUME NEW i \in 1 .. c + n
      PROVE  Content'[i] = (kept \o added)[i]
  <2> DEFINE h == head'
             j == i - 1
             x == h + i - 1
             y == head + (d + i) - 1
             p == Place(h, j)
  <2>1. h \in Nat /\ h < cap /\ x \in Nat /\ x < 2 * cap /\ j \in Nat /\ j < c + n
    BY <1>t, <1>1, SMT DEF Place
  <2>2. x % cap = p
    <3>1. x % cap = IF x < cap THEN x ELSE x - cap
      <4> HIDE DEF x
      <4> QED
        BY <1>t, <2>1, TurnCases
    <3>2. x = h + j
      <4> HIDE DEF h
      <4> QED
        BY <2>1, SMT
    <3> HIDE DEF x, h, j
    <3> QED
      BY <1>t, <2>1, <3>1, <3>2, SMT DEF Place
  <2>3. h = Place(head, d)
    OBVIOUS
  <2>4. at = Place(h, c) /\ c + n <= cap
    <3> HIDE DEF h
    <3> QED
      BY <1>t, <2>1, <2>3, SMT DEF Place
  <2>5. Content'[i] = buf'[p]
    <3> DEFINE z == x % cap
    <3>1. Content'[i] = buf'[z]
      BY <1>5
    <3>2. z = p
      BY <2>2
    <3> HIDE DEF z, p
    <3> QED
      BY <3>1, <3>2
  <2>6. /\ j < c => rb_put(at, data, n)[p] = buf[p]
        /\ ~(j < c) => rb_put(at, data, n)[p] = data[j - c + 1]
    <3>1. Follows(data, n, h, c, j)
      <4> HIDE DEF h, c, j
      <4> QED
        BY <1>1, <2>1, <2>4, PutBehind
    <3> HIDE DEF h, c, j
    <3> QED
      BY <2>4, <3>1 DEF Follows
  <2>7. CASE i <= c
    <3>1. y \in Nat /\ y < 2 * cap /\ j < c
      BY <1>t, <1>1, <2>7, SMT
    <3>2. y % cap = IF y < cap THEN y ELSE y - cap
      <4> HIDE DEF y
      <4> QED
        BY <1>t, <3>1, TurnCases
    <3>3. y % cap = p
      <4> DEFINE q == y % cap
      <4>1. q = IF y < cap THEN y ELSE y - cap
        BY <3>2
      <4> HIDE DEF q, h
      <4>2. q = p
        BY <1>t, <2>1, <2>3, <3>1, <4>1, SMT DEF Place
      <4> QED
        BY <4>2 DEF q
    <3>4. kept[i] = buf[y % cap]
      BY <1>1, <1>2, <2>7, SMT
    <3> HIDE DEF p, y, c, j
    <3> QED
      BY <1>4, <2>5, <2>6, <2>7, <3>1, <3>3, <3>4
  <2>8. CASE ~(i <= c)
    <3>1. i - c \in 1 .. n /\ ~(j < c) /\ j - c + 1 = i - c
      BY <1>1, <2>8, SMT
    <3>2. added[i - c] = data[i - c]
      BY <1>3, <3>1
    <3> HIDE DEF p, c, j
    <3> QED
      BY <1>4, <2>5, <2>6, <2>8, <3>1, <3>2
  <2> QED
    BY <2>7, <2>8
<1> QED
  BY <1>1, <1>4, <1>5, <1>6, SameSeq DEF kept, added

(* The part of a concatenation behind its first d elements. *)
LEMMA DropOfConcat ==
    ASSUME NEW S, NEW s \in Seq(S), NEW t \in Seq(S), NEW d \in Nat, d <= Len(s) + Len(t)
    PROVE  LET both == SubSeq(s \o t, d + 1, Len(s) + Len(t))
           IN  /\ both \in Seq(S) /\ Len(both) = Len(s) + Len(t) - d
               /\ \A i \in 1 .. Len(s) + Len(t) - d :
                     both[i] = IF d + i <= Len(s) THEN s[d + i] ELSE t[d + i - Len(s)]
<1> DEFINE m == Len(s)
           n == Len(t)
           st == s \o t
<1>1. m \in Nat /\ n \in Nat
  BY LenProperties
<1>2. /\ st \in Seq(S) /\ Len(st) = m + n
      /\ \A i \in 1 .. m + n : st[i] = IF i <= m THEN s[i] ELSE t[i - m]
  BY ConcatProperties
<1> HIDE DEF st, m, n
<1>3. \A i \in d + 1 .. m + n : st[i] \in S
  BY <1>1, <1>2, ElementOfSeq, SMT
<1> DEFINE both == SubSeq(st, d + 1, m + n)
<1>4. /\ both \in Seq(S)
      /\ Len(both) = IF d + 1 <= m + n THEN m + n - (d + 1) + 1 ELSE 0
      /\ \A i \in 1 .. m + n - (d + 1) + 1 : both[i] = st[(d + 1) + i - 1]
  BY <1>1, <1>3, d + 1 \in Int, m + n \in Int, SubSeqProperties
<1> HIDE DEF both
<1>5. d <= m + n
  BY DEF m, n
<1>6. Len(both) = m + n - d
  BY <1>1, <1>4, <1>5, SMT
<1>7. ASSUME NEW i \in 1 .. m + n - d
      PROVE  both[i] = IF d + i <= m THEN s[d + i] ELSE t[d + i - m]
  <2>1. /\ i \in 1 .. m + n - (d + 1) + 1 /\ (d + 1) + i - 1 = d + i
        /\ d + i \in 1 .. m + n
    BY <1>1, SMT
  <2>2. both[i] = st[d + i]
    BY <1>4, <2>1
  <2> DEFINE k == d + i
  <2>3. k \in 1 .. m + n
    BY <2>1
  <2> HIDE DEF k
  <2>4. st[k] = IF k <= m THEN s[k] ELSE t[k - m]
    BY <1>2, <2>3
  <2>5. k <= m => both[i] = s[k]
    BY <2>2, <2>4 DEF k
  <2>6. ~(k <= m) => both[i] = t[k - m]
    BY <2>2, <2>4 DEF k
  <2> QED
    BY <1>1, <2>5, <2>6, SMT DEF k
<1> QED
  BY <1>4, <1>6, <1>7 DEF both, st, m, n

(* Dropping no more than the first sequence. *)
LEMMA DropOfFirst ==
    ASSUME NEW S, NEW s \in Seq(S), NEW t \in Seq(S), NEW d \in Nat, d <= Len(s)
    PROVE  SubSeq(s \o t, d + 1, Len(s) + Len(t)) = SubSeq(s, d + 1, Len(s)) \o t
<1> DEFINE m == Len(s)
           n == Len(t)
           both == SubSeq(s \o t, d + 1, m + n)
           kept == SubSeq(s, d + 1, m)
<1>1. m \in Nat /\ n \in Nat /\ m - d \in Nat /\ d <= m
  <2>1. Len(s) \in Nat /\ Len(t) \in Nat
    BY LenProperties
  <2> QED
    BY <2>1, SMT
<1>2. /\ both \in Seq(S) /\ Len(both) = m + n - d
      /\ \A i \in 1 .. m + n - d : both[i] = IF d + i <= m THEN s[d + i] ELSE t[d + i - m]
  BY <1>1, d <= m + n, DropOfConcat
<1>3. /\ kept \in Seq(S) /\ Len(kept) = m - d
      /\ \A i \in 1 .. m - d : kept[i] = s[d + i]
  <2>1. \A i \in d + 1 .. m : s[i] \in S
    BY <1>1, ElementOfSeq, SMT
  <2>2. /\ kept \in Seq(S)
        /\ Len(kept) = IF d + 1 <= m THEN m - (d + 1) + 1 ELSE 0
        /\ \A i \in 1 .. m - (d + 1) + 1 : kept[i] = s[(d + 1) + i - 1]
    BY <1>1, <2>1, d + 1 \in Int, SubSeqProperties
  <2> HIDE DEF kept, m
  <2>3. Len(kept) = m - d
    BY <1>1, <2>2, SMT
  <2>4. ASSUME NEW i \in 1 .. m - d
        PROVE  kept[i] = s[d + i]
    <3>1. i \in 1 .. m - (d + 1) + 1 /\ (d + 1) + i - 1 = d + i
      BY <1>1, SMT
    <3> QED
      BY <2>2, <3>1
  <2> QED
    BY <2>2, <2>3, <2>4
<1> HIDE DEF both, kept
<1>4. /\ kept \o t \in Seq(S) /\ Len(kept \o t) = Len(kept) + n
      /\ \A i \in 1 .. Len(kept) + n :
            (kept \o t)[i] = IF i <= Len(kept) THEN kept[i] ELSE t[i - Len(kept)]
  BY <1>3, ConcatProperties
<1> HIDE DEF m, n
<1>5. ASSUME NEW i \in 1 .. m + n - d
      PROVE  both[i] = (kept \o t)[i]
  <2>1. i \in 1 .. Len(kept) + n
    BY <1>1, <1>3, SMT
  <2>2. CASE i <= m - d
    <3>1. d + i <= m /\ i <= Len(kept) /\ i \in 1 .. m - d
      BY <1>1, <1>3, <2>2, SMT
    <3> QED
      BY <1>2, <1>3, <1>4, <2>1, <3>1
  <2>3. CASE ~(i <= m - d)
    <3>1. ~(d + i <= m) /\ ~(i <= Len(kept)) /\ i - Len(kept) = d + i - m
      BY <1>1, <1>3, <2>3, SMT
    <3> QED
      BY <1>2, <1>4, <2>1, <3>1
  <2> QED
    BY <2>2, <2>3
<1>6. m + n - d \in Nat /\ Len(kept \o t) = m + n - d
  BY <1>1, <1>3, <1>4, SMT
<1> QED
  BY <1>2, <1>4, <1>5, <1>6, SameSeq DEF both, kept, m, n

(* Bytes appended behind those stored, as many as fit. *)
LEMMA WriteRefines ==
    ASSUME IInv, TypeOK', NEW data \in Inputs, ringbuf_write(data)
    PROVE  Queue!Write(data)
<1> USE DEF IInv
<1>t. /\ cap \in Nat /\ head \in Nat /\ tail \in Nat /\ count \in Nat /\ count <= cap
      /\ ringbuf_free \in Nat /\ ringbuf_free = cap - count /\ (cap > 0 => head < cap)
  BY TypeFacts
<1>0. data \in Seq(Byte) /\ Len(data) \in Nat
  BY RingAssumption, LenProperties
<1> DEFINE n == Min2(Len(data), ringbuf_free)
<1>1. n \in Nat /\ n <= Len(data) /\ n <= cap - count
  BY <1>t, <1>0, Min2Cases
<1>2. /\ ret' = n /\ cap' = cap /\ head' = head /\ out' = out
      /\ (n > 0 => buf' = rb_put(tail, data, n) /\ count' = count + n)
      /\ (~(n > 0) => buf' = buf /\ count' = count)
  BY DEF ringbuf_write
<1>3. Content \in Seq(Byte) /\ Len(Content) = count
  BY ContentIsSeq
<1>4. ret' = Queue!AtMost(Len(data), cap - Len(Content))
  BY <1>t, <1>2, <1>3 DEF Queue!AtMost, Min2
<1> HIDE DEF n
<1>5. Content' = Content \o SubSeq(data, 1, n)
  <2>1. CASE n > 0
    <3>1. cap > 0 /\ head < cap /\ head + count \in Nat /\ head + count < 2 * cap
      BY <1>t, <1>1, <2>1, SMT
    <3>2. (head + count) % cap = IF head + count < cap THEN head + count
                                 ELSE head + count - cap
      BY <1>t, <3>1, TurnCases
    <3>3. tail = Place(head, count)
      BY <3>1, <3>2 DEF Consistent, Place
    <3>4. head' = Place(head, 0)
      BY <1>t, <1>2, <3>1, SMT DEF Place
    <3>5. 0 <= count /\ count - 0 + n <= cap /\ count' = count - 0 + n
      BY <1>t, <1>1, <1>2, <2>1, SMT
    <3>6. Content' = SubSeq(Content, 0 + 1, count) \o SubSeq(data, 1, n)
      BY <1>0, <1>1, <1>2, <2>1, <3>1, <3>3, <3>4, <3>5, 0 \in Nat, KeptThenData
    <3>7. SubSeq(Content, 0 + 1, count) = Content
      BY <1>3, SubSeqFull, 0 + 1 = 1
    <3> QED
      BY <3>6, <3>7
  <2>2. CASE ~(n > 0)
    <3>1. n = 0
      BY <1>1, <2>2, SMT
    <3>2. SubSeq(data, 1, n) = <<>>
      BY <3>1, SubSeqEmpty, 0 < 1
    <3>3. Content' = Content
      BY <1>2, <2>2 DEF Content
    <3> QED
      BY <1>3, <3>2, <3>3, ConcatEmptySeq
  <2> QED
    BY <2>1, <2>2
<1> QED
  BY <1>2, <1>4, <1>5 DEF Queue!Write, Queue!First

(* What Fifo discards when count bytes are stored. *)
LEMMA DropOf ==
    ASSUME TypeOK, NEW data \in Seq(Byte), cap > 0, cap' = cap, out' = out,
           NEW drop \in Nat,
           drop = IF count + Len(data) > cap THEN count + Len(data) - cap ELSE 0,
           ret' = drop,
           Content' = SubSeq(Content \o data, drop + 1, count + Len(data))
    PROVE  Queue!Overwrite(data)
<1> DEFINE all == Content \o data
<1>1. Len(all) = count + Len(data)
  BY ContentIsSeq, ConcatProperties
<1> HIDE DEF all
<1>2. Content' = SubSeq(all, drop + 1, Len(all))
  BY <1>1 DEF all
<1>3. drop = IF Len(all) > cap THEN Len(all) - cap ELSE 0
  <2>1. count \in Nat /\ cap \in Nat /\ Len(data) \in Nat
    BY TypeFacts, LenProperties
  <2> QED
    BY <1>1, <2>1, SMT
<1>4. ret' = (IF Len(all) > cap THEN Len(all) - cap ELSE 0)
  BY <1>3
<1>5. Content' = Queue!Without(IF Len(all) > cap THEN Len(all) - cap ELSE 0, all)
  BY <1>2, <1>3 DEF Queue!Without
<1> QED
  BY <1>4, <1>5 DEF all, Queue!Overwrite

LEMMA OverwriteSomeRefines ==
    ASSUME IInv, TypeOK', NEW data \in Inputs, OverwriteSome(data)
    PROVE  Queue!Overwrite(data)
<1> USE DEF IInv
<1>t. /\ cap \in Nat /\ head \in Nat /\ tail \in Nat /\ count \in Nat /\ count <= cap
      /\ ringbuf_free = cap - count /\ (cap > 0 => head < cap)
  BY TypeFacts
<1>0. data \in Seq(Byte) /\ Len(data) \in Nat
  BY RingAssumption, LenProperties
<1> DEFINE len == Len(data)
           drop == IF len > ringbuf_free THEN len - ringbuf_free ELSE 0
<1>1. /\ len > 0 /\ len < cap
      /\ ret' = drop /\ head' = (head + drop) % cap
      /\ buf' = rb_put(tail, data, len)
      /\ count' = count - drop + len
      /\ cap' = cap /\ out' = out
  BY DEF OverwriteSome
<1>2. /\ drop \in Nat /\ drop <= count /\ count - drop + len <= cap
      /\ drop = IF count + len > cap THEN count + len - cap ELSE 0
  <2> HIDE DEF len
  <2> QED
    BY <1>t, <1>0, <1>1, SMT DEF len
<1> HIDE DEF drop
<1>3. cap > 0 /\ head < cap
  BY <1>t, <1>0, <1>1, SMT
<1>4. head' = Place(head, drop) /\ tail = Place(head, count)
  <2>1. /\ head + count \in Nat /\ head + count < 2 * cap
        /\ head + drop \in Nat /\ head + drop < 2 * cap
    BY <1>t, <1>2, <1>3, SMT
  <2>2. (head + count) % cap = IF head + count < cap THEN head + count
                               ELSE head + count - cap
    BY <1>t, <1>3, <2>1, TurnCases
  <2>3. (head + drop) % cap = IF head + drop < cap THEN head + drop
                              ELSE head + drop - cap
    <3>1. drop \in Nat
      BY <1>2
    <3> QED
      BY <1>t, <1>3, <2>1, <3>1, TurnCases
  <2> QED
    BY <1>1, <1>3, <2>2, <2>3 DEF Consistent, Place
<1>5. Content' = SubSeq(Content, drop + 1, count) \o SubSeq(data, 1, Len(data))
  <2>1. len \in Nat /\ len <= Len(data)
    BY <1>0, SMT
  <2> HIDE DEF len
  <2>2. Content' = SubSeq(Content, drop + 1, count) \o SubSeq(data, 1, len)
    BY <1>0, <1>1, <1>2, <1>3, <1>4, <2>1, KeptThenData
  <2> QED
    BY <2>2 DEF len
<1>6. Content \in Seq(Byte) /\ Len(Content) = count
  BY ContentIsSeq
<1>7. SubSeq(Content \o data, drop + 1, count + Len(data))
        = SubSeq(Content, drop + 1, count) \o data
  <2>1. SubSeq(Content \o data, drop + 1, Len(Content) + Len(data))
          = SubSeq(Content, drop + 1, Len(Content)) \o data
    BY <1>0, <1>2, <1>6, DropOfFirst
  <2> QED
    BY <1>6, <2>1
<1>8. SubSeq(data, 1, Len(data)) = data
  BY <1>0, SubSeqFull
<1> QED
  BY <1>0, <1>1, <1>2, <1>3, <1>5, <1>7, <1>8, DropOf

LEMMA OverwriteAllRefines ==
    ASSUME IInv, TypeOK', NEW data \in Inputs, OverwriteAll(data)
    PROVE  Queue!Overwrite(data)
<1> USE DEF IInv
<1>t. cap \in Nat /\ count \in Nat /\ count <= cap
  BY TypeFacts
<1>0. data \in Seq(Byte) /\ Len(data) \in Nat
  BY RingAssumption, LenProperties
<1> DEFINE len == Len(data)
           last == SubSeq(data, len - cap + 1, len)
           drop == count + (len - cap)
<1>1. /\ cap > 0 /\ len >= cap /\ ret' = drop
      /\ buf' = rb_put(0, last, cap) /\ head' = 0 /\ count' = cap
      /\ cap' = cap /\ out' = out
  BY DEF OverwriteAll
<1>2. /\ drop \in Nat /\ drop = IF count + len > cap THEN count + len - cap ELSE 0
      /\ len \in Nat /\ len - cap + 1 \in Int /\ len - cap + 1 >= 1 /\ len - cap + 1 <= len
  <2> HIDE DEF len
  <2>1. len \in Nat
    BY <1>0 DEF len
  <2> QED
    BY <1>t, <1>1, <2>1, SMT
<1>3. Content \in Seq(Byte) /\ Len(Content) = count
  BY ContentIsSeq
<1>4. SubSeq(Content \o data, drop + 1, count + len) = last
  <2> DEFINE lo == drop + 1
             hi == count + len
  <2>1. /\ lo \in count + 1 .. count + len /\ hi \in count + 1 .. count + len
        /\ lo - count = len - cap + 1 /\ hi - count = len
    <3> HIDE DEF len
    <3> QED
      BY <1>t, <1>1, <1>2, SMT
  <2> HIDE DEF lo, hi
  <2>2. SubSeq(Content \o data, lo, hi) = SubSeq(data, lo - count, hi - count)
    BY <1>0, <1>3, <2>1, SubSeqOfConcat2
  <2> QED
    BY <2>1, <2>2 DEF lo, hi
<1>5. last \in Seq(Byte) /\ Len(last) = cap
  <2>1. \A i \in len - cap + 1 .. len : data[i] \in Byte
    BY <1>0, <1>2, ElementOfSeq, SMT
  <2>2. /\ last \in Seq(Byte)
        /\ Len(last) = IF len - cap + 1 <= len THEN len - (len - cap + 1) + 1 ELSE 0
    BY <1>2, <2>1, SubSeqProperties
  <2> HIDE DEF last, len
  <2> QED
    BY <1>t, <1>2, <2>2, SMT
<1>6. Content' = last
  <2> HIDE DEF last, len
  <2>1. /\ Content' \in Seq(Byte) /\ Len(Content') = cap
        /\ \A i \in 1 .. cap : Content'[i] = rb_put(0, last, cap)[(0 + i - 1) % cap]
    BY <1>1, ContentIsSeqAfter
  <2>2. ASSUME NEW i \in 1 .. cap
        PROVE  Content'[i] = last[i]
    <3> DEFINE j == i - 1
    <3>1. j \in Nat /\ j < cap /\ j < 2 * cap /\ 0 + i - 1 = j /\ j - 0 + 1 = i
      BY <1>t, SMT
    <3> HIDE DEF j
    <3>2. j % cap = j
      BY <1>t, <1>1, <3>1, TurnCases
    <3>3. Content'[i] = rb_put(0, last, cap)[j]
      BY <2>1, <3>1, <3>2
    <3>4. Follows(last, cap, 0, 0, j)
      BY <1>t, <1>1, <3>1, 0 \in Nat, 0 + cap = cap, PutBehind
    <3>5. Place(0, 0) = 0 /\ Place(0, j) = j /\ ~(j < 0)
      BY <1>t, <1>1, <3>1, SMT DEF Place
    <3>6. rb_put(0, last, cap)[j] = last[j - 0 + 1]
      BY <3>4, <3>5 DEF Follows
    <3> QED
      BY <3>1, <3>3, <3>6
  <2> QED
    BY <1>t, <1>5, <2>1, <2>2, SameSeq
<1>7. Content' = SubSeq(Content \o data, drop + 1, count + Len(data))
  BY <1>4, <1>6
<1>8. drop = IF count + Len(data) > cap THEN count + Len(data) - cap ELSE 0
  BY <1>2
<1>9. drop \in Nat /\ ret' = drop
  BY <1>1, <1>2
<1> HIDE DEF drop
<1> QED
  BY <1>0, <1>1, <1>7, <1>8, <1>9, DropOf

(* An empty write discards nothing; without a capacity there is nothing    *)
(* to write to.                                                            *)
LEMMA OverwriteNoneRefines ==
    ASSUME IInv, NEW data \in Inputs, OverwriteNone(data)
    PROVE  Queue!Overwrite(data) \/ Queue!OverwriteNothing
<1> USE DEF IInv
<1>t. cap \in Nat /\ count \in Nat /\ count <= cap
  BY TypeFacts
<1>0. data \in Seq(Byte)
  BY RingAssumption
<1>1. /\ cap = 0 \/ Len(data) = 0
      /\ ret' = 0 /\ cap' = cap /\ out' = out /\ Content' = Content
  BY DEF OverwriteNone, Content
<1>2. CASE cap = 0
  BY <1>1, <1>2 DEF Queue!OverwriteNothing
<1>3. CASE cap # 0
  <2>1. Len(data) = 0 /\ cap > 0
    BY <1>t, <1>1, <1>3, SMT
  <2>2. data = <<>>
    BY <1>0, <2>1, EmptySeq
  <2>3. Content \in Seq(Byte) /\ Len(Content) = count
    BY ContentIsSeq
  <2>4. Content \o data = Content
    BY <2>2, <2>3, ConcatEmptySeq
  <2>5. SubSeq(Content, 1, count) = Content
    BY <2>3, SubSeqFull
  <2>6. count + Len(data) = count /\ 0 + 1 = 1
    BY <1>t, <2>1, SMT
  <2>7. Content' = SubSeq(Content \o data, 0 + 1, count + Len(data))
    BY <1>1, <2>4, <2>5, <2>6
  <2>8. 0 = IF count + Len(data) > cap THEN count + Len(data) - cap ELSE 0
    BY <1>t, <2>6, SMT
  <2> QED
    BY <1>0, <1>1, <2>1, <2>7, <2>8, 0 \in Nat, DropOf
<1> QED
  BY <1>2, <1>3

LEMMA PeekRefines ==
    ASSUME IInv, NEW len \in Lens, ringbuf_peek(len)
    PROVE  Queue!Peek(len)
<1> USE DEF IInv
<1> DEFINE n == Min2(len, count)
<1>1. n \in Nat /\ n <= count
  BY TypeFacts, RingAssumption, Min2Cases
<1>2. ret' = n /\ out' = Copied(n) /\ cap' = cap /\ Content' = Content
  BY DEF ringbuf_peek, Content
<1>3. ret' = Queue!AtMost(len, Len(Content))
  BY <1>2, ContentIsSeq DEF Queue!AtMost, Min2
<1> HIDE DEF n
<1>4. out' = Queue!First(ret', Content)
  BY <1>1, <1>2, CopiedIsFirst DEF Queue!First
<1> QED
  BY <1>2, <1>3, <1>4 DEF Queue!Peek

(* Every call of the ring buffer is a step of the queue, or no step.       *)
LEMMA StepRefines == IInv /\ IInv' /\ [Next]_vars => [Queue!Next]_(Queue!vars)
<1> SUFFICES ASSUME IInv, IInv', [Next]_vars
             PROVE  [Queue!Next]_(Queue!vars)
  OBVIOUS
<1>t. TypeOK /\ TypeOK'
  BY DEF IInv
<1>1. ASSUME NEW data \in Inputs, ringbuf_write(data) PROVE Queue!Next
  BY <1>t, <1>1, WriteRefines DEF Queue!Next
<1>2. ASSUME NEW data \in Inputs, ringbuf_write_overwrite(data) PROVE Queue!Next
  <2>1. Queue!Overwrite(data) \/ Queue!OverwriteNothing
    BY <1>t, <1>2, OverwriteAllRefines, OverwriteSomeRefines, OverwriteNoneRefines
       DEF ringbuf_write_overwrite
  <2> QED
    BY <2>1 DEF Queue!Next
<1>3. ASSUME NEW len \in Lens, ringbuf_read(len) PROVE Queue!Next
  BY <1>t, <1>3, ReadRefines DEF Queue!Next
<1>4. ASSUME NEW len \in Lens, ringbuf_peek(len) PROVE Queue!Next
  BY <1>4, PeekRefines DEF Queue!Next
<1>5. CASE ringbuf_reset
  <2>1. Content' \in Seq(Byte) /\ Len(Content') = 0
    BY <1>t, <1>5, ContentIsSeqAfter DEF ringbuf_reset
  <2>2. Content' = <<>>
    BY <2>1, EmptySeq
  <2> QED
    BY <1>5, <2>2 DEF ringbuf_reset, Queue!Next, Queue!Reset
<1>6. CASE UNCHANGED vars
  BY <1>6 DEF vars, Queue!vars, Content
<1> QED
  BY <1>1, <1>2, <1>3, <1>4, <1>5, <1>6 DEF Next

(* ringbuf.h:32-43: for every capacity and whatever the calls and their    *)
(* order, the ring buffer is the queue of Fifo: every byte is handed out   *)
(* once and in order, or is counted as discarded.                          *)
THEOREM ImplementsFifo == Spec => RefinesFifo
<1>1. Init => Queue!Init
  <2> SUFFICES ASSUME Init PROVE Queue!Init
    OBVIOUS
  <2>1. TypeOK
    BY InitIInv DEF IInv
  <2>2. Len(Content) = 0 /\ Content \in Seq(Byte)
    BY <2>1, ContentIsSeq DEF Init
  <2>3. Content = <<>>
    BY <2>2, EmptySeq
  <2> QED
    BY <2>3, RingAssumption DEF Init, Queue!Init
<1> QED
  BY <1>1, Inductive, StepRefines, PTL DEF Spec, RefinesFifo, Queue!Spec

=============================================================================
