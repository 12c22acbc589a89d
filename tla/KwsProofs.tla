------------------------------ MODULE KwsProofs ------------------------------
(***************************************************************************)
(* Proofs about KwsModel and Quant, for every model geometry, every buffer *)
(* size, every word width and every way in which a capture can come short: *)
(* what the layers read and write, and the parity of the logits with the   *)
(* training framework's.                                                   *)
(***************************************************************************)
EXTENDS KwsModel, WellFoundedInduction, TLAPS

-----------------------------------------------------------------------------
(* Parity of the fixed-point arithmetic *)

LEMMA Remainder ==
    ASSUME NEW d \in Nat \ {0}, NEW q \in Int, NEW r \in 0 .. d - 1
    PROVE  (d * q + r) % d = r
BY SMT

LEMMA Division ==
    ASSUME NEW d \in Nat \ {0}, NEW x \in Int
    PROVE  /\ x \div d \in Int
           /\ x % d \in 0 .. d - 1
           /\ x = d * (x \div d) + (x % d)
BY SMT

(* quant.py:18-22 against the conversion of a C integer to int32_t. *)
LEMMA WrapParity ==
    ASSUME NEW x \in Int
    PROVE  Wrap(x) = py_to_int32(x) /\ Wrap(x) \in Int
<1> DEFINE word == 2 * Half
           q == x \div word
           low == x % word
<1>1. Half \in Nat \ {0} /\ word \in Nat \ {0} /\ word = Half + Half
  BY WordAssumption
<1>0. Wrap(x) = ((x + Half) % word) - Half
      /\ py_to_int32(x) = IF low >= Half THEN low - word ELSE low
  BY DEF Wrap, py_to_int32
<1> HIDE DEF word
<1>2. q \in Int /\ low \in 0 .. word - 1 /\ x = word * q + low
  BY <1>1, Division
<1> HIDE DEF q, low
<1>3. CASE low < Half
  <2>1. low + Half \in 0 .. word - 1 /\ x + Half = word * q + (low + Half)
    BY <1>1, <1>2, <1>3, SMT
  <2>2. (x + Half) % word = low + Half
    BY <1>1, <1>2, <2>1, Remainder
  <2> QED
    BY <1>0, <1>1, <1>2, <1>3, <2>2, SMT
<1>4. CASE low >= Half
  <2>1. low - Half \in 0 .. word - 1 /\ q + 1 \in Int
    BY <1>1, <1>2, <1>4, SMT
  <2>2. x + Half = word * (q + 1) + (low - Half)
    <3>1. word * (q + 1) = word * q + word
      BY <1>1, <1>2, SMT
    <3>2. word * q \in Int /\ word * (q + 1) \in Int
      BY <1>1, <1>2, SMT
    <3> QED
      BY <1>1, <1>2, <3>1, <3>2, SMT
  <2>3. (x + Half) % word = low - Half
    BY <1>1, <2>1, <2>2, Remainder
  <2> QED
    BY <1>0, <1>1, <1>2, <1>4, <2>3, SMT
<1> QED
  BY <1>1, <1>2, <1>3, <1>4, SMT

(* quant.py:25-29: dividing absolute values is C's division. *)
LEMMA QuotParity ==
    ASSUME NEW a \in Int
    PROVE  Quot(a, Half) = py_idiv_trunc(a, Half)
<1>1. Half \in Nat \ {0} /\ AbsOf(Half) = Half /\ (Half >= 0) = TRUE
  BY WordAssumption, SMT DEF AbsOf
<1>2. CASE a >= 0
  BY <1>1, <1>2, SMT DEF Quot, py_idiv_trunc, AbsOf
<1>3. CASE a < 0
  BY <1>1, <1>3, SMT DEF Quot, py_idiv_trunc, AbsOf
<1> QED
  BY <1>2, <1>3

LEMMA HighMulParity ==
    ASSUME NEW a \in Int, NEW b \in Int
    PROVE  nn_sat_round_doubling_high_mul(a, b) = py_sat_round_doubling_high_mul(a, b)
<1> DEFINE ab == a * b
           nudge == IF ab >= 0 THEN Half \div 2 ELSE 1 - (Half \div 2)
<1>1. ab \in Int /\ nudge \in Int
  BY WordAssumption, SMT
<1>2. ab + nudge \in Int
  BY <1>1
<1> HIDE DEF ab, nudge
<1>3. Quot(ab + nudge, Half) = py_idiv_trunc(ab + nudge, Half)
  BY <1>2, QuotParity
<1> QED
  BY <1>3 DEF nn_sat_round_doubling_high_mul, py_sat_round_doubling_high_mul, ab, nudge

(* quant.c:33-49 and quant.py:46-60 branch on the shift differently. *)
LEMMA MultiplierParity ==
    ASSUME NEW x \in Int, NEW qm \in Int, NEW shift \in Int
    PROVE  nn_multiply_by_quantized_multiplier(x, qm, shift)
             = py_multiply_by_quantized_multiplier(x, qm, shift)
<1>1. CASE shift > 0
  <2>0. 2 ^ shift \in Int
    BY <1>1
  <2>1. x * 2 ^ shift \in Int
    <3>1. \A p \in Int : x * p \in Int
      BY SMT
    <3> QED
      BY <2>0, <3>1, Zenon
  <2>2. Wrap(x * 2 ^ shift) = py_to_int32(x * 2 ^ shift) /\ Wrap(x * 2 ^ shift) \in Int
    BY <2>1, WrapParity
  <2>3. nn_multiply_by_quantized_multiplier(x, qm, shift)
          = nn_sat_round_doubling_high_mul(Wrap(x * 2 ^ shift), qm)
    BY <1>1, <2>1 DEF nn_multiply_by_quantized_multiplier, nn_rounding_divide_by_pot
  <2> QED
    BY <1>1, <2>2, <2>3, HighMulParity DEF py_multiply_by_quantized_multiplier
<1>2. CASE shift <= 0
  <2> DEFINE scaled == nn_sat_round_doubling_high_mul(Wrap(x), qm)
  <2>1. x * 2 ^ 0 = x /\ ~(shift > 0)
    BY <1>2, SMT
  <2>2. scaled = py_sat_round_doubling_high_mul(py_to_int32(x), qm)
    BY WrapParity, HighMulParity
  <2>3. nn_multiply_by_quantized_multiplier(x, qm, shift)
          = nn_rounding_divide_by_pot(scaled, -shift)
    BY <2>1 DEF nn_multiply_by_quantized_multiplier
  <2> HIDE DEF scaled
  <2>4. nn_rounding_divide_by_pot(scaled, -shift)
          = IF shift = 0 THEN scaled ELSE RoundingShift(scaled, -shift)
    <3>1. -shift <= 0 <=> shift = 0
      BY <1>2, SMT
    <3> QED
      BY <3>1 DEF nn_rounding_divide_by_pot
  <2> QED
    BY <2>1, <2>2, <2>3, <2>4 DEF py_multiply_by_quantized_multiplier
<1> QED
  BY <1>1, <1>2

(* A number that a word holds is kept as it is. *)
LEMMA WrapInRange ==
    ASSUME NEW x \in IntMin .. IntMax
    PROVE  Wrap(x) = x
<1> DEFINE word == 2 * Half
           up == x + Half
<1>1. Half \in Nat \ {0} /\ word \in Nat \ {0} /\ word = Half + Half
  BY WordAssumption
<1>2. x \in Int /\ up \in 0 .. word - 1
  BY <1>1, SMT DEF IntMin, IntMax
<1>3. Wrap(x) = (up % word) - Half
  BY DEF Wrap
<1> HIDE DEF word
<1>4. up = word * 0 + up
  BY <1>1, <1>2, SMT
<1>5. up % word = up
  BY <1>1, <1>2, <1>4, Remainder
<1> QED
  BY <1>1, <1>2, <1>3, <1>5, SMT

(* The two implementations compute the same byte from every sum. *)
LEMMA RequantizeParity ==
    ASSUME NEW x \in Int, NEW qm \in Int, NEW shift \in Int, NEW zp, NEW lo, NEW hi,
           nn_multiply_by_quantized_multiplier(x, qm, shift) + zp \in IntMin .. IntMax
    PROVE  nn_requantize_i8(x, qm, shift, zp, lo, hi)
             = py_requantize_i8(x, qm, shift, zp, lo, hi)
BY MultiplierParity, WrapInRange DEF nn_requantize_i8, py_requantize_i8

-----------------------------------------------------------------------------
(* Cells of a map *)

LEMMA InCells ==
    ASSUME NEW h, NEW w, NEW c, NEW i
    PROVE  i \in Cells(h, w, c) <=>
             \E y \in 0 .. h - 1, x \in 0 .. w - 1, j \in 0 .. c - 1 :
                 i = At(y, x, j, w, c)
<1> DEFINE Places == (0 .. h - 1) \X (0 .. w - 1) \X (0 .. c - 1)
<1>1. ASSUME i \in Cells(h, w, c)
      PROVE  \E y \in 0 .. h - 1, x \in 0 .. w - 1, j \in 0 .. c - 1 :
                 i = At(y, x, j, w, c)
  <2>1. PICK p \in Places : i = At(p[1], p[2], p[3], w, c)
    BY <1>1, Zenon DEF Cells
  <2>2. p[1] \in 0 .. h - 1 /\ p[2] \in 0 .. w - 1 /\ p[3] \in 0 .. c - 1
    BY <2>1, SMT
  <2> QED
    BY <2>1, <2>2, Zenon
<1>2. ASSUME NEW y \in 0 .. h - 1, NEW x \in 0 .. w - 1, NEW j \in 0 .. c - 1,
             i = At(y, x, j, w, c)
      PROVE  i \in Cells(h, w, c)
  <2> DEFINE p == <<y, x, j>>
  <2>1. p \in Places /\ p[1] = y /\ p[2] = x /\ p[3] = j
    BY SMT
  <2> HIDE DEF p, Places
  <2>2. i = At(p[1], p[2], p[3], w, c)
    BY <1>2, <2>1, Zenon
  <2> QED
    BY <2>1, <2>2, Zenon DEF Cells, Places
<1> QED
  BY <1>1, <1>2, Zenon

(* kernels.c: an element's position in a map is below the map's size. *)
LEMMA CellBound ==
    ASSUME NEW h \in Int, NEW w \in Int, NEW c \in Int,
           NEW y \in 0 .. h - 1, NEW x \in 0 .. w - 1, NEW j \in 0 .. c - 1
    PROVE  At(y, x, j, w, c) \in 0 .. h * w * c - 1
<1>1. h \in Nat \ {0} /\ w \in Nat \ {0} /\ c \in Nat \ {0}
  BY SMT
<1>2. y * w + x \in 0 .. h * w - 1
  <2>1. y * w <= (h - 1) * w /\ (h - 1) * w = h * w - w /\ y * w \in Nat
        /\ h * w \in Int
    BY <1>1, SMT
  <2> QED
    BY <1>1, <2>1, SMT
<1> DEFINE q == y * w + x
           n1 == h * w
<1>3. q \in 0 .. n1 - 1 /\ n1 \in Int
  BY <1>1, <1>2, SMT
<1> HIDE DEF q, n1
<1>4. q * c + j \in 0 .. n1 * c - 1
  <2>1. q * c <= (n1 - 1) * c /\ (n1 - 1) * c = n1 * c - c /\ q * c \in Nat
        /\ n1 * c \in Int
    BY <1>1, <1>3, SMT
  <2> QED
    BY <1>1, <2>1, SMT
<1> QED
  BY <1>4 DEF At, q, n1

LEMMA CellsBound ==
    ASSUME NEW h \in Int, NEW w \in Int, NEW c \in Int, NEW top \in Int,
           h * w * c <= top
    PROVE  Cells(h, w, c) \subseteq 0 .. top - 1
<1> SUFFICES ASSUME NEW i \in Cells(h, w, c) PROVE i \in 0 .. top - 1
  OBVIOUS
<1>1. PICK y \in 0 .. h - 1, x \in 0 .. w - 1, j \in 0 .. c - 1 : i = At(y, x, j, w, c)
  BY InCells
<1>2. i \in 0 .. h * w * c - 1
  BY <1>1, CellBound
<1>3. h * w * c \in Int
  BY SMT
<1> DEFINE size == h * w * c
<1> HIDE DEF size
<1>4. i \in 0 .. size - 1 /\ size \in Int /\ size <= top
  BY <1>2, <1>3 DEF size
<1> QED
  BY <1>4, SMT

(* A row of n cells. *)
LEMMA RowCells ==
    ASSUME NEW c \in Int
    PROVE  Cells(1, c, 1) = 0 .. c - 1 /\ Cells(1, 1, c) = 0 .. c - 1
<1>1. ASSUME NEW i PROVE i \in Cells(1, c, 1) <=> i \in 0 .. c - 1
  <2>1. \A y \in 0 .. 1 - 1, x \in 0 .. c - 1, j \in 0 .. 1 - 1 : At(y, x, j, c, 1) = x
    BY SMT DEF At
  <2>2. 0 \in 0 .. 1 - 1
    BY SMT
  <2>3. ASSUME i \in Cells(1, c, 1) PROVE i \in 0 .. c - 1
    <3>1. PICK y \in 0 .. 1 - 1, x \in 0 .. c - 1, j \in 0 .. 1 - 1 :
            i = At(y, x, j, c, 1)
      BY <2>3, InCells
    <3>2. i = x
      BY <2>1, <3>1
    <3> QED
      BY <3>1, <3>2
  <2>4. ASSUME i \in 0 .. c - 1 PROVE i \in Cells(1, c, 1)
    <3>1. i = At(0, i, 0, c, 1)
      BY <2>1, <2>2, <2>4, Zenon
    <3> QED
      BY <2>2, <2>4, <3>1, InCells, Zenon
  <2> QED
    BY <2>3, <2>4
<1>2. ASSUME NEW i PROVE i \in Cells(1, 1, c) <=> i \in 0 .. c - 1
  <2>1. \A y \in 0 .. 1 - 1, x \in 0 .. 1 - 1, j \in 0 .. c - 1 : At(y, x, j, 1, c) = j
    BY SMT DEF At
  <2>2. 0 \in 0 .. 1 - 1
    BY SMT
  <2>3. ASSUME i \in Cells(1, 1, c) PROVE i \in 0 .. c - 1
    <3>1. PICK y \in 0 .. 1 - 1, x \in 0 .. 1 - 1, j \in 0 .. c - 1 :
            i = At(y, x, j, 1, c)
      BY <2>3, InCells
    <3>2. i = j
      BY <2>1, <3>1
    <3> QED
      BY <3>1, <3>2
  <2>4. ASSUME i \in 0 .. c - 1 PROVE i \in Cells(1, 1, c)
    <3>1. i = At(0, 0, i, 1, c)
      BY <2>1, <2>2, <2>4, Zenon
    <3> QED
      BY <2>2, <2>4, <3>1, InCells, Zenon
  <2> QED
    BY <2>3, <2>4
<1> QED
  BY <1>1, <1>2

(* kernels.c:23-41, 66-84: a convolution reads cells of its input only. *)
LEMMA ConvReadsCells ==
    ASSUME NEW map, NEW kh, NEW kw, NEW stride, NEW pad
    PROVE  ConvReads(map, kh, kw, stride, pad) \subseteq Cells(map.h, map.w, map.c)
<1>1. \A len, k : Under(len, k, stride, pad) \subseteq 0 .. len - 1
  BY DEF Under
<1> QED
  BY <1>1 DEF ConvReads, Cells

LEMMA OutDimInt ==
    ASSUME NEW len \in Int, NEW k \in Int, NEW stride \in Nat \ {0}, NEW pad \in Int
    PROVE  OutDim(len, k, stride, pad) \in Int
BY SMT DEF OutDim, Quot

(* A filter of one row without padding leaves every row. *)
LEMMA OutDimOne ==
    ASSUME NEW len \in Int
    PROVE  OutDim(len, 1, 1, 0) = len
BY SMT DEF OutDim, Quot

-----------------------------------------------------------------------------
(* The inductive invariant *)

(* Every cell of the map was written by its step, and is in its buffer     *)
(* unless the pool has overrun it.                                         *)
Held(map) ==
    \A i \in Cells(map.h, map.w, map.c) :
        IF i \in DOMAIN mem[map.buf] THEN mem[map.buf][i] = map.by ELSE Overrun(map)

(* The front end was set up for the model before anything was captured. *)
Accepted == pc \notin {"boot", "aborted"} => InitFits

(* The samples captured so far are those of this inference. *)
Capturing ==
    pc = "capture" =>
        /\ need_samples <= Size.pcm
        /\ got < need_samples
        /\ \A i \in 0 .. got - 1 : mem["pcm"][i] = "capture"

(* The map a layer finds is the one the layer before it made: the two      *)
(* scratch buffers take turns.                                             *)
Chained ==
    /\ cur.h \in Int /\ cur.w \in Int /\ cur.c \in Int
    /\ pc \in {"energy", "frontend"} => cur = Map("pcm", 1, need_samples, 1, "capture")
    /\ pc = "conv" => cur = Map("feat", m.in_h, m.in_w, 1, "frontend")
    /\ pc = "depthwise" => cur.buf = "buf_a"
    /\ pc = "pointwise" => cur.buf = "buf_b"
    /\ pc \in {"depthwise", "pointwise"} => m.n_blocks >= 1
    /\ pc = "pool" => cur.buf = "buf_a" /\ SizeOf(cur) <= Scratch
    /\ pc = "connected" => cur.buf = "buf_b" /\ cur.h = 1 /\ cur.w = 1
    /\ pc \in {"depthwise", "pointwise", "pool", "connected"} => m.num_classes <= MaxClasses

(* The logits are the rescaled sums. *)
Rescaled ==
    pc = "decide" =>
        /\ acc \in [Classes -> m.sums]
        /\ logits = [c \in Classes |->
                        nn_requantize_i8(acc[c], m.fc_mult, m.fc_shift, m.out_zp,
                                         ByteMin, ByteMax)]

KInv ==
    /\ TypeOK
    /\ Accepted
    /\ Capturing
    /\ Chained
    /\ pc \in {"energy"} \cup Layers => Held(cur)
    /\ Rescaled

-----------------------------------------------------------------------------
(* Buffers and models *)

LEMMA Sizes ==
    /\ DOMAIN Size = {"pcm", "feat", "buf_a", "buf_b", "logits"}
    /\ Size["pcm"] = MaxFrames * FrameStep + FrameLen /\ Size.pcm = Size["pcm"]
    /\ Size["feat"] = MaxFrames * MaxMels
    /\ Size["buf_a"] = Scratch /\ Size["buf_b"] = Scratch
    /\ Size["logits"] = MaxClasses
BY DEF Size

LEMMA Limits ==
    /\ FrameLen \in Nat \ {0} /\ FrameStep \in Nat \ {0} /\ Block \in Nat \ {0}
    /\ MaxFrames \in Nat /\ MaxMels \in Nat /\ MaxClasses \in Nat /\ Scratch \in Nat
BY KwsAssumption

LEMMA Fields ==
    ASSUME m \in Models
    PROVE  /\ m.in_h \in Nat \ {0} /\ m.conv_stride \in Nat \ {0} /\ m.dw_stride \in Nat \ {0}
           /\ m.in_w \in Int /\ m.conv_oc \in Int /\ m.conv_kh \in Int /\ m.conv_kw \in Int
           /\ m.conv_pad \in Int /\ m.n_blocks \in Int /\ m.dw_k \in Int /\ m.dw_pad \in Int
           /\ m.pw_oc \in Int /\ m.num_classes \in Int
           /\ m.fc_mult \in Int /\ m.fc_shift \in Int /\ m.out_zp \in Int
           /\ m.fc_mult >= 0
           /\ \A s \in m.sums : s \in IntMin .. IntMax /\ s \in Int
<1>1. /\ {m.in_h, m.conv_stride, m.dw_stride} \subseteq Nat \ {0}
      /\ {m.in_w, m.conv_oc, m.conv_kh, m.conv_kw, m.conv_pad, m.n_blocks,
          m.dw_k, m.dw_pad, m.pw_oc, m.num_classes, m.out_zp} \subseteq Int
      /\ m.sums \subseteq IntMin .. IntMax
  BY KwsAssumption, Zenon
<1>2. m.fc_mult \in 0 .. IntMax /\ m.fc_shift \in -31 .. 30
  BY MultiplierAssumption, Zenon
<1>3. m.fc_mult \in Int /\ m.fc_mult >= 0 /\ m.fc_shift \in Int
  BY <1>2
<1>4. \A s \in IntMin .. IntMax : s \in Int
  OBVIOUS
<1> QED
  BY <1>1, <1>3, <1>4, Zenon

LEMMA SamplesInt ==
    ASSUME m \in Models
    PROVE  need_samples \in Nat \ {0}
<1>1. m.in_h \in Nat \ {0} /\ FrameLen \in Nat \ {0} /\ FrameStep \in Nat \ {0}
  BY Fields, Limits
<1> QED
  BY <1>1, SMT DEF need_samples

(* A write changes the cells of one buffer and no buffer's size. *)
LEMMA WrittenCells ==
    ASSUME TypeOK, NEW b \in DOMAIN Size, NEW cells, NEW step,
           mem' = Written(b, cells, step)
    PROVE  /\ DOMAIN mem' = DOMAIN Size
           /\ \A d \in DOMAIN Size : DOMAIN mem'[d] = 0 .. Size[d] - 1
           /\ \A i \in 0 .. Size[b] - 1 :
                  mem'[b][i] = IF i \in cells THEN step ELSE mem[b][i]
<1>1. DOMAIN mem = DOMAIN Size /\ \A d \in DOMAIN Size : DOMAIN mem[d] = 0 .. Size[d] - 1
  BY DEF TypeOK
<1> DEFINE new == [i \in DOMAIN mem[b] |-> IF i \in cells THEN step ELSE mem[b][i]]
<1>2. mem' = [mem EXCEPT ![b] = new]
  BY DEF Written
<1>3. DOMAIN new = 0 .. Size[b] - 1
      /\ \A i \in 0 .. Size[b] - 1 : new[i] = IF i \in cells THEN step ELSE mem[b][i]
  BY <1>1
<1> HIDE DEF new
<1>4. DOMAIN mem' = DOMAIN Size /\ mem'[b] = new
      /\ \A d \in DOMAIN Size : d # b => mem'[d] = mem[d]
  BY <1>1, <1>2
<1>5. ASSUME NEW d \in DOMAIN Size PROVE DOMAIN mem'[d] = 0 .. Size[d] - 1
  <2>1. CASE d = b
    BY <1>3, <1>4, <2>1
  <2>2. CASE d # b
    BY <1>1, <1>4, <2>2
  <2> QED
    BY <2>1, <2>2
<1>6. \A i \in 0 .. Size[b] - 1 :
          mem'[b][i] = IF i \in cells THEN step ELSE mem[b][i]
  BY <1>3, <1>4
<1> QED
  BY <1>4, <1>5, <1>6

(* A map whose cells were all written is held. *)
LEMMA MadeIsHeld ==
    ASSUME TypeOK, NEW map, map.buf \in DOMAIN Size, cur' = map,
           Overrun(map) \/ Cells(map.h, map.w, map.c) \subseteq 0 .. Size[map.buf] - 1,
           mem' = Written(map.buf, Cells(map.h, map.w, map.c), map.by)
    PROVE  Held(cur)'
<1>1. /\ \A d \in DOMAIN Size : DOMAIN mem'[d] = 0 .. Size[d] - 1
      /\ \A i \in 0 .. Size[map.buf] - 1 :
            mem'[map.buf][i] = IF i \in Cells(map.h, map.w, map.c)
                               THEN map.by ELSE mem[map.buf][i]
  BY WrittenCells
<1>2. \A i \in Cells(map.h, map.w, map.c) :
          IF i \in DOMAIN mem'[map.buf] THEN mem'[map.buf][i] = map.by ELSE Overrun(map)
  BY <1>1
<1> QED
  BY <1>2 DEF Held, Cells, At, Overrun

-----------------------------------------------------------------------------
(* One lemma per layer: it reads cells of the current map, and writes      *)
(* another buffer, inside it unless it is a pool with too many channels.   *)

(* What a layer that is not refused must do. *)
Behaves(layer) ==
    /\ layer.reads \subseteq Cells(cur.h, cur.w, cur.c)
    /\ layer.makes.buf \in DOMAIN Size
    /\ \/ Overrun(layer.makes)
       \/ Cells(layer.makes.h, layer.makes.w, layer.makes.c)
            \subseteq 0 .. Size[layer.makes.buf] - 1
    /\ layer.makes.buf # cur.buf
    /\ layer.makes.by = pc
    /\ layer.makes.h \in Int /\ layer.makes.w \in Int /\ layer.makes.c \in Int

LEMMA MapFields ==
    ASSUME NEW b, NEW h, NEW w, NEW c, NEW s
    PROVE  /\ Map(b, h, w, c, s).buf = b /\ Map(b, h, w, c, s).h = h
           /\ Map(b, h, w, c, s).w = w /\ Map(b, h, w, c, s).c = c
           /\ Map(b, h, w, c, s).by = s
BY DEF Map

(* kws_frontend.c: the frames overlap, and the last one ends where the     *)
(* window does.                                                            *)
LEMMA FrontendBehaves ==
    ASSUME KInv, pc = "frontend"
    PROVE  Behaves(Frontend)
<1>1. cur = Map("pcm", 1, need_samples, 1, "capture") /\ m \in Models /\ InitFits
  BY DEF KInv, TypeOK, Chained, Accepted
<1>2. cur.buf = "pcm" /\ cur.h = 1 /\ cur.w = need_samples /\ cur.c = 1
  BY <1>1, MapFields
<1>3. Cells(cur.h, cur.w, cur.c) = 0 .. need_samples - 1
  <2>1. need_samples \in Int
    BY <1>1, SamplesInt
  <2> QED
    BY <1>2, <2>1, RowCells
<1>4. ASSUME NEW t \in 0 .. m.in_h - 1, NEW i \in 0 .. FrameLen - 1
      PROVE  t * FrameStep + i \in 0 .. need_samples - 1
  <2>1. m.in_h \in Nat \ {0} /\ FrameLen \in Nat \ {0} /\ FrameStep \in Nat \ {0}
    BY <1>1, Fields, Limits
  <2>2. t * FrameStep <= (m.in_h - 1) * FrameStep /\ t * FrameStep \in Nat
        /\ (m.in_h - 1) * FrameStep \in Nat
    BY <2>1, SMT
  <2> QED
    BY <2>1, <2>2, SMT DEF need_samples
<1>5. Frontend.reads \subseteq Cells(cur.h, cur.w, cur.c)
  BY <1>3, <1>4 DEF Frontend
<1> DEFINE made == Frontend.makes
<1>6. /\ made.buf = "feat" /\ made.h = m.in_h /\ made.w = m.in_w /\ made.c = 1
      /\ made.by = "frontend"
  BY MapFields DEF Frontend
<1>7. m.in_h \in Nat \ {0} /\ m.in_w \in Int
  BY <1>1, Fields
<1>8. Cells(m.in_h, m.in_w, 1) \subseteq 0 .. Size["feat"] - 1
  <2>1. m.in_h <= MaxFrames /\ m.in_w \in 1 .. MaxMels
    BY <1>1 DEF InitFits
  <2>2. MaxFrames \in Nat /\ MaxMels \in Nat
    BY Limits
  <2>3. \A a \in Nat, b \in Nat, c \in Nat, d \in Nat :
            a <= c /\ b <= d => a * b <= c * d /\ c * d \in Int
    BY SMT
  <2>4. m.in_w \in Nat /\ m.in_h \in Nat
    BY <1>7, <2>1, <2>2, SMT
  <2>5. m.in_h * m.in_w <= MaxFrames * MaxMels /\ MaxFrames * MaxMels \in Int
    <3>1. m.in_w <= MaxMels
      BY <2>1, <2>2, SMT
    <3> QED
      BY <2>1, <2>2, <2>3, <2>4, <3>1, Zenon
  <2>6. m.in_h * m.in_w * 1 = m.in_h * m.in_w
    BY <2>4, SMT
  <2>7. m.in_h \in Int /\ 1 \in Int
    BY <2>4
  <2> QED
    BY <1>7, <2>5, <2>6, <2>7, CellsBound, Sizes
<1> HIDE DEF made
<1>9. made = Frontend.makes
  BY DEF made
<1> QED
  BY <1>2, <1>5, <1>6, <1>7, <1>8, <1>9, Sizes DEF Behaves

LEMMA ConvBehaves ==
    ASSUME KInv, pc = "conv", Conv.fits
    PROVE  Behaves(Conv)
<1>1. cur = Map("feat", m.in_h, m.in_w, 1, "frontend") /\ m \in Models
  BY DEF KInv, TypeOK, Chained
<1>2. cur.buf = "feat"
  BY <1>1, MapFields
<1> DEFINE oh == OutDim(m.in_h, m.conv_kh, m.conv_stride, m.conv_pad)
           ow == OutDim(m.in_w, m.conv_kw, m.conv_stride, m.conv_pad)
           out == Map("buf_a", oh, ow, m.conv_oc, "conv")
<1>3. oh \in Int /\ ow \in Int /\ m.conv_oc \in Int
  <2>1. m.in_h \in Int
    BY <1>1, Fields
  <2> QED
    BY <1>1, <2>1, Fields, OutDimInt
<1>4. /\ Conv.reads = ConvReads(cur, m.conv_kh, m.conv_kw, m.conv_stride, m.conv_pad)
      /\ Conv.makes = out /\ SizeOf(out) <= Scratch
  BY DEF Conv
<1> HIDE DEF oh, ow
<1>5. out.buf = "buf_a" /\ out.h = oh /\ out.w = ow /\ out.c = m.conv_oc /\ out.by = "conv"
  BY MapFields
<1> HIDE DEF out
<1>6. Cells(oh, ow, m.conv_oc) \subseteq 0 .. Scratch - 1
  <2>1. oh * ow * m.conv_oc <= Scratch /\ Scratch \in Int
    BY <1>4, <1>5, Limits DEF SizeOf
  <2> QED
    BY <1>3, <2>1, CellsBound
<1>7. Conv.reads \subseteq Cells(cur.h, cur.w, cur.c)
  BY <1>4, ConvReadsCells
<1> QED
  BY <1>2, <1>3, <1>4, <1>5, <1>6, <1>7, Sizes DEF Behaves

LEMMA DepthwiseBehaves ==
    ASSUME KInv, pc = "depthwise", Depthwise.fits
    PROVE  Behaves(Depthwise)
<1>1. cur.buf = "buf_a" /\ m \in Models /\ cur.h \in Int /\ cur.w \in Int /\ cur.c \in Int
  BY DEF KInv, TypeOK, Chained
<1> DEFINE oh == OutDim(cur.h, m.dw_k, m.dw_stride, m.dw_pad)
           ow == OutDim(cur.w, m.dw_k, m.dw_stride, m.dw_pad)
           out == Map("buf_b", oh, ow, cur.c, "depthwise")
<1>3. oh \in Int /\ ow \in Int
  BY <1>1, Fields, OutDimInt
<1>4. /\ Depthwise.reads = ConvReads(cur, m.dw_k, m.dw_k, m.dw_stride, m.dw_pad)
      /\ Depthwise.makes = out /\ SizeOf(out) <= Scratch
  BY DEF Depthwise, FitsScratch
<1> HIDE DEF oh, ow
<1>5. out.buf = "buf_b" /\ out.h = oh /\ out.w = ow /\ out.c = cur.c
      /\ out.by = "depthwise"
  BY MapFields
<1> HIDE DEF out
<1>6. Cells(oh, ow, cur.c) \subseteq 0 .. Scratch - 1
  <2>1. oh * ow * cur.c <= Scratch /\ Scratch \in Int
    BY <1>4, <1>5, Limits DEF SizeOf
  <2> QED
    BY <1>1, <1>3, <2>1, CellsBound
<1>7. Depthwise.reads \subseteq Cells(cur.h, cur.w, cur.c)
  BY <1>4, ConvReadsCells
<1> QED
  BY <1>1, <1>3, <1>4, <1>5, <1>6, <1>7, Sizes DEF Behaves

(* kws_model.c:41-48: the guard multiplies the shape of the map that is    *)
(* read by the channels of the one that is written; they have the same     *)
(* shape.                                                                  *)
LEMMA PointwiseBehaves ==
    ASSUME KInv, pc = "pointwise", Pointwise.fits
    PROVE  Behaves(Pointwise)
<1>1. cur.buf = "buf_b" /\ m \in Models /\ cur.h \in Int /\ cur.w \in Int /\ cur.c \in Int
  BY DEF KInv, TypeOK, Chained
<1> DEFINE out == Map("buf_a", cur.h, cur.w, m.pw_oc, "pointwise")
<1>2. OutDim(cur.h, 1, 1, 0) = cur.h /\ OutDim(cur.w, 1, 1, 0) = cur.w
  BY <1>1, OutDimOne
<1>3. m.pw_oc \in Int
  BY <1>1, Fields
<1>4. /\ Pointwise.reads = ConvReads(cur, 1, 1, 1, 0)
      /\ Pointwise.makes = out /\ SizeOf(out) <= Scratch
  BY <1>2 DEF Pointwise, FitsScratch
<1>5. out.buf = "buf_a" /\ out.h = cur.h /\ out.w = cur.w /\ out.c = m.pw_oc
      /\ out.by = "pointwise"
  BY MapFields
<1> HIDE DEF out
<1>6. Cells(cur.h, cur.w, m.pw_oc) \subseteq 0 .. Scratch - 1
  <2>1. cur.h * cur.w * m.pw_oc <= Scratch /\ Scratch \in Int
    BY <1>4, <1>5, Limits DEF SizeOf
  <2> QED
    BY <1>1, <1>3, <2>1, CellsBound
<1>7. Pointwise.reads \subseteq Cells(cur.h, cur.w, cur.c)
  BY <1>4, ConvReadsCells
<1> QED
  BY <1>1, <1>3, <1>4, <1>5, <1>6, <1>7, Sizes DEF Behaves

LEMMA PoolBehaves ==
    ASSUME KInv, pc = "pool"
    PROVE  Behaves(Pool)
<1>1. cur.buf = "buf_a" /\ cur.c \in Int
  BY DEF KInv, Chained
<1>2. /\ Pool.reads = Cells(cur.h, cur.w, cur.c)
      /\ Pool.makes = Map("buf_b", 1, 1, cur.c, "pool")
  BY DEF Pool
<1>3. cur.c > Scratch \/ Cells(1, 1, cur.c) \subseteq 0 .. Scratch - 1
  <2>1. Cells(1, 1, cur.c) = 0 .. cur.c - 1 /\ Scratch \in Nat
    BY <1>1, RowCells, Limits
  <2> QED
    BY <1>1, <2>1, SMT
<1>4. /\ Pool.makes.buf = "buf_b" /\ Pool.makes.h = 1 /\ Pool.makes.w = 1
      /\ Pool.makes.c = cur.c /\ Pool.makes.by = "pool"
  BY <1>2, MapFields
<1> QED
  BY <1>1, <1>2, <1>3, <1>4, Sizes DEF Behaves, Overrun

(* A map with more channels than the scratch that passed a guard on its    *)
(* size has no cells.                                                      *)
LEMMA ManyChannelsEmpty ==
    ASSUME NEW h \in Int, NEW w \in Int, NEW c \in Int, NEW top \in Nat,
           h * w * c <= top, c > top
    PROVE  h * w <= 0
<1> DEFINE n == h * w
<1>1. n \in Int /\ n * c <= top
  BY SMT
<1> HIDE DEF n
<1>2. ASSUME n >= 1 PROVE FALSE
  <2>1. PICK k \in Nat : n = k + 1
    BY <1>1, <1>2, SMT
  <2>2. n * c = k * c + c
    BY <2>1, SMT
  <2>3. k * c \in Nat
    BY <2>1, SMT
  <2> QED
    BY <1>1, <2>2, <2>3, SMT
<1>3. n <= 0
  BY <1>1, <1>2, SMT
<1> QED
  BY <1>3 DEF n

LEMMA ConnectedBehaves ==
    ASSUME KInv, pc = "connected"
    PROVE  Behaves(Connected)
<1>1. /\ cur.buf = "buf_b" /\ cur.h = 1 /\ cur.w = 1 /\ cur.c \in Int /\ m \in Models
      /\ m.num_classes <= MaxClasses
  BY DEF KInv, Chained, TypeOK
<1>2. /\ Connected.reads = 0 .. cur.c - 1
      /\ Connected.makes = Map("logits", 1, 1, m.num_classes, "connected")
  BY DEF Connected
<1>3. m.num_classes \in Int /\ MaxClasses \in Nat
  BY <1>1, Fields, Limits
<1>4. Cells(1, 1, m.num_classes) \subseteq 0 .. MaxClasses - 1
  <2>1. Cells(1, 1, m.num_classes) = 0 .. m.num_classes - 1
    BY <1>3, RowCells
  <2> QED
    BY <1>1, <1>3, <2>1, SMT
<1>5. Connected.reads \subseteq Cells(cur.h, cur.w, cur.c)
  BY <1>1, <1>2, RowCells
<1>6. /\ Connected.makes.buf = "logits" /\ Connected.makes.h = 1 /\ Connected.makes.w = 1
      /\ Connected.makes.c = m.num_classes /\ Connected.makes.by = "connected"
  BY <1>2, MapFields
<1> QED
  BY <1>1, <1>3, <1>4, <1>5, <1>6, Sizes DEF Behaves

LEMMA LayerIs ==
    /\ pc = "frontend" => Layer = Frontend
    /\ pc = "conv" => Layer = Conv
    /\ pc = "depthwise" => Layer = Depthwise
    /\ pc = "pointwise" => Layer = Pointwise
    /\ pc = "pool" => Layer = Pool
    /\ pc = "connected" => Layer = Connected
<1> HIDE DEF Frontend, Conv, Depthwise, Pointwise, Pool, Connected
<1> QED
  BY SMT DEF Layer

LEMMA LayerBehaves ==
    ASSUME KInv, pc \in Layers, Layer.fits
    PROVE  Behaves(Layer)
<1>1. CASE pc = "frontend"
  BY <1>1, LayerIs, FrontendBehaves
<1>2. CASE pc = "conv"
  BY <1>2, LayerIs, ConvBehaves
<1>3. CASE pc = "depthwise"
  BY <1>3, LayerIs, DepthwiseBehaves
<1>4. CASE pc = "pointwise"
  BY <1>4, LayerIs, PointwiseBehaves
<1>5. CASE pc = "pool"
  BY <1>5, LayerIs, PoolBehaves
<1>6. CASE pc = "connected"
  BY <1>6, LayerIs, ConnectedBehaves
<1> QED
  BY <1>1, <1>2, <1>3, <1>4, <1>5, <1>6 DEF Layers

-----------------------------------------------------------------------------
(* The invariant holds at the start and every step keeps it. *)

LEMMA OldCells ==
    /\ DOMAIN Old = DOMAIN Size
    /\ \A b \in DOMAIN Size : DOMAIN Old[b] = 0 .. Size[b] - 1
BY DEF Old

LEMMA KInit == Init => KInv
<1> SUFFICES ASSUME Init PROVE KInv
  OBVIOUS
<1>1. /\ m \in Models /\ pc = "boot" /\ mem = Old /\ got = 0 /\ cur = NoMap
      /\ verdict = "none"
  BY DEF Init
<1>2. cur.buf = "pcm" /\ cur.h = 0 /\ cur.w = 0 /\ cur.c = 0
  BY <1>1, MapFields DEF NoMap
<1>3. TypeOK
  BY <1>1, <1>2, OldCells, Sizes DEF TypeOK
<1> QED
  BY <1>1, <1>2, <1>3 DEF KInv, Accepted, Capturing, Chained, Layers, Rescaled

(* Every step keeps the model, hence the window and the classes. *)
LEMMA SameModel ==
    ASSUME m' = m
    PROVE  need_samples' = need_samples /\ InitFits' = InitFits /\ Classes' = Classes
BY DEF need_samples, InitFits, Classes

(* A return to idle keeps the invariant, whatever it leaves in the buffers. *)
LEMMA KIdle ==
    ASSUME KInv, m' = m, pc' = "idle", InitFits,
           DOMAIN mem' = DOMAIN Size,
           \A b \in DOMAIN Size : DOMAIN mem'[b] = 0 .. Size[b] - 1,
           got' \in Nat, got' <= need_samples,
           cur'.buf \in DOMAIN Size,
           cur'.h \in Int, cur'.w \in Int, cur'.c \in Int,
           verdict' \in {"none", "confirmed", "rejected"}
    PROVE  KInv'
<1>1. TypeOK'
  BY SameModel DEF KInv, TypeOK, Size
<1> QED
  BY <1>1, SameModel DEF KInv, Accepted, Capturing, Chained, Layers, Rescaled

LEMMA GotBound ==
    ASSUME TypeOK
    PROVE  got \in Nat /\ got <= need_samples /\ need_samples \in Nat \ {0}
<1>1. need_samples \in Nat \ {0} /\ got \in Nat /\ (got > 0 => got <= need_samples)
  BY SamplesInt DEF TypeOK
<1> QED
  BY <1>1, SMT

LEMMA KBoot == KInv /\ kws_frontend_init => KInv'
<1> SUFFICES ASSUME KInv, kws_frontend_init PROVE KInv'
  OBVIOUS
<1>1. UNCHANGED <<m, mem, got, cur, acc, logits, verdict>>
      /\ pc' = (IF InitFits THEN "idle" ELSE "aborted")
  BY DEF kws_frontend_init
<1>2. CASE InitFits
  BY <1>1, <1>2, GotBound, KIdle DEF KInv, TypeOK, Chained
<1>3. CASE ~InitFits
  <2>1. TypeOK'
    BY <1>1, <1>3, SameModel DEF KInv, TypeOK
  <2> QED
    BY <1>1, <1>3, <2>1 DEF KInv, Accepted, Capturing, Chained, Layers, Rescaled
<1> QED
  BY <1>2, <1>3

LEMMA KRestart == KInv /\ Restart => KInv'
<1> SUFFICES ASSUME KInv, Restart PROVE KInv'
  OBVIOUS
<1>1. UNCHANGED <<m, got, cur, acc, logits, verdict>> /\ pc' = "boot" /\ mem' = Old
  BY DEF Restart
<1>2. TypeOK'
  BY <1>1, SameModel, OldCells DEF KInv, TypeOK
<1> QED
  BY <1>1, <1>2 DEF KInv, Accepted, Capturing, Chained, Layers, Rescaled

LEMMA KHook == KInv /\ hook_run_kws => KInv'
<1> SUFFICES ASSUME KInv, hook_run_kws PROVE KInv'
  OBVIOUS
<1>1. /\ pc = "idle" /\ m' = m /\ mem' = Old /\ got' = 0 /\ cur' = NoMap
      /\ IF need_samples <= Size.pcm
         THEN pc' = "capture" /\ verdict' = "none"
         ELSE pc' = "idle" /\ verdict' = "rejected"
  BY DEF hook_run_kws, Return
<1>2. InitFits /\ m \in Models
  BY <1>1 DEF KInv, Accepted, TypeOK
<1>3. cur'.buf = "pcm" /\ cur'.h = 0 /\ cur'.w = 0 /\ cur'.c = 0
  BY <1>1, MapFields DEF NoMap
<1>4. need_samples \in Nat \ {0}
  BY <1>2, SamplesInt
<1>5. CASE ~(need_samples <= Size.pcm)
  <2>1. got' \in Nat /\ got' <= need_samples
    BY <1>1, <1>4, SMT
  <2> QED
    BY <1>1, <1>2, <1>3, <1>5, <2>1, OldCells, Sizes, KIdle
<1>6. CASE need_samples <= Size.pcm
  <2>1. pc' = "capture" /\ verdict' = "none"
    BY <1>1, <1>6
  <2>2. TypeOK'
    BY <1>1, <1>2, <1>3, <2>1, OldCells, Sizes DEF TypeOK
  <2>3. Capturing'
    <3>1. need_samples' = need_samples /\ got' < need_samples
      BY <1>1, <1>4, SameModel
    <3>2. 0 .. got' - 1 = {}
      BY <1>1
    <3> QED
      BY <1>6, <3>1, <3>2 DEF Capturing, Size
  <2> QED
    BY <1>1, <1>2, <1>3, <2>1, <2>2, <2>3, SameModel
       DEF KInv, Accepted, Chained, Layers, Rescaled
<1> QED
  BY <1>5, <1>6

LEMMA WantBound ==
    ASSUME KInv, pc = "capture"
    PROVE  Want \in Nat \ {0} /\ got + Want <= need_samples
<1>1. got \in Nat /\ need_samples \in Nat \ {0} /\ got < need_samples
  BY GotBound DEF KInv, Capturing
<1> QED
  BY <1>1, Limits, SMT DEF Want

(* A capture that came short returns before anything reads the window; one *)
(* that did not has written the whole of it.                               *)
LEMMA KCapture == KInv /\ mic_i2s_read => KInv'
<1> SUFFICES ASSUME KInv, mic_i2s_read PROVE KInv'
  OBVIOUS
<1>1. PICK n \in 0 .. Want :
        /\ mem' = Written("pcm", got .. got + n - 1, "capture")
        /\ got' = got + n
        /\ IF n = Want /\ got' < need_samples
           THEN UNCHANGED <<pc, verdict, cur>>
           ELSE IF got' < need_samples
           THEN Return("rejected") /\ UNCHANGED cur
           ELSE /\ pc' = "energy"
                /\ cur' = Map("pcm", 1, got', 1, "capture")
                /\ UNCHANGED verdict
  BY DEF mic_i2s_read
<1>2. pc = "capture" /\ m' = m
  BY DEF mic_i2s_read
<1>3. /\ TypeOK /\ InitFits /\ m \in Models /\ got \in Nat /\ need_samples \in Nat \ {0}
      /\ need_samples <= Size["pcm"] /\ \A i \in 0 .. got - 1 : mem["pcm"][i] = "capture"
  BY <1>2, GotBound, Sizes DEF KInv, TypeOK, Accepted, Capturing
<1>4. n \in Nat /\ got' \in Nat /\ got' <= need_samples
  BY <1>1, <1>2, <1>3, WantBound, SMT
<1>5. /\ DOMAIN mem' = DOMAIN Size
      /\ \A d \in DOMAIN Size : DOMAIN mem'[d] = 0 .. Size[d] - 1
      /\ \A i \in 0 .. Size["pcm"] - 1 :
            mem'["pcm"][i] = IF i \in got .. got + n - 1 THEN "capture" ELSE mem["pcm"][i]
  BY <1>1, <1>3, Sizes, WrittenCells
<1>6. need_samples' = need_samples /\ InitFits'
  BY <1>2, <1>3, SameModel
<1>7. Size["pcm"] \in Int
  BY Sizes, Limits, SMT
<1>8. \A i \in 0 .. got' - 1 : i \in 0 .. Size["pcm"] - 1 /\ mem'["pcm"][i] = "capture"
  <2> SUFFICES ASSUME NEW i \in 0 .. got' - 1
               PROVE  i \in 0 .. Size["pcm"] - 1 /\ mem'["pcm"][i] = "capture"
    OBVIOUS
  <2>1. i \in 0 .. Size["pcm"] - 1
    <3> DEFINE top == Size["pcm"]
               need == need_samples
               g == got'
    <3>1. /\ top \in Int /\ need \in Int /\ need <= top /\ g \in Int /\ g <= need
          /\ i \in 0 .. g - 1
      <4>1. top \in Int /\ need <= top /\ g <= need
        BY <1>3, <1>4, <1>7, Zenon
      <4>2. need \in Int
        BY <1>3
      <4>3. g \in Int
        BY <1>4
      <4> QED
        BY <4>1, <4>2, <4>3, Zenon
    <3> HIDE DEF top, need, g
    <3>2. i \in 0 .. top - 1
      BY <3>1, SMT
    <3> QED
      BY <3>2 DEF top
  <2>2. i \in 0 .. got - 1 \/ i \in got .. got + n - 1
    BY <1>1, <1>3, <1>4, SMT
  <2> QED
    BY <1>3, <1>5, <2>1, <2>2
<1>9. CASE n = Want /\ got' < need_samples
  <2>1. UNCHANGED <<pc, verdict, cur>>
    BY <1>1, <1>9
  <2>2. TypeOK'
    BY <1>2, <1>3, <1>4, <1>5, <1>6, <2>1 DEF TypeOK, Size
  <2>3. Capturing'
    BY <1>3, <1>6, <1>8, <1>9, Sizes DEF Capturing, Size
  <2> QED
    BY <1>2, <1>6, <2>1, <2>2, <2>3 DEF KInv, Accepted, Chained, Layers, Rescaled
<1>10. CASE ~(n = Want /\ got' < need_samples) /\ got' < need_samples
  <2>1. pc' = "idle" /\ verdict' = "rejected" /\ cur' = cur
    BY <1>1, <1>10 DEF Return
  <2>2. cur.buf \in DOMAIN Size /\ cur.h \in Int /\ cur.w \in Int /\ cur.c \in Int
    BY DEF KInv, TypeOK, Chained
  <2> QED
    BY <1>2, <1>3, <1>4, <1>5, <2>1, <2>2, KIdle
<1>11. CASE ~(got' < need_samples)
  <2>1. /\ pc' = "energy" /\ cur' = Map("pcm", 1, got', 1, "capture")
        /\ verdict' = verdict
    BY <1>1, <1>11
  <2>2. got' = need_samples
    BY <1>3, <1>4, <1>11, SMT
  <2>3. /\ cur'.buf = "pcm" /\ cur'.h = 1 /\ cur'.w = need_samples /\ cur'.c = 1
        /\ cur'.by = "capture"
    BY <2>1, <2>2, MapFields
  <2>4. TypeOK'
    BY <1>2, <1>3, <1>4, <1>5, <1>6, <2>1, <2>3, Sizes DEF TypeOK, Size
  <2>5. Held(cur)'
    <3>1. Cells(1, need_samples, 1) = 0 .. need_samples - 1
      BY <1>3, RowCells
    <3>2. \A i \in Cells(1, need_samples, 1) :
              i \in DOMAIN mem'["pcm"] /\ mem'["pcm"][i] = "capture"
      BY <1>5, <1>8, <2>2, <3>1, Sizes
    <3> QED
      BY <2>3, <3>2 DEF Held, Cells, At
  <2>6. Chained'
    BY <1>3, <1>6, <2>1, <2>2, <2>3 DEF Chained, Map
  <2> QED
    BY <1>6, <2>1, <2>4, <2>5, <2>6 DEF KInv, Accepted, Capturing, Layers, Rescaled
<1> QED
  BY <1>9, <1>10, <1>11

LEMMA KEnergy == KInv /\ EnergyGate => KInv'
<1> SUFFICES ASSUME KInv, EnergyGate PROVE KInv'
  OBVIOUS
<1>1. pc = "energy" /\ UNCHANGED <<m, mem, got, cur, acc, logits>>
  BY DEF EnergyGate
<1>2. InitFits /\ Held(cur) /\ cur = Map("pcm", 1, need_samples, 1, "capture")
  BY <1>1 DEF KInv, Accepted, Chained
<1>3. CASE pc' = "frontend" /\ verdict' = verdict
  <2>1. TypeOK'
    BY <1>1, <1>3, SameModel DEF KInv, TypeOK, Layers
  <2>2. Held(cur)'
    BY <1>1, <1>2 DEF Held
  <2>3. Chained'
    BY <1>1, <1>2, <1>3, SameModel DEF KInv, Chained, Map
  <2> QED
    BY <1>1, <1>2, <1>3, <2>1, <2>2, <2>3, SameModel
       DEF KInv, Accepted, Capturing, Layers, Rescaled
<1>4. CASE pc' = "idle" /\ verdict' = "rejected"
  BY <1>1, <1>2, <1>4, GotBound, KIdle DEF KInv, TypeOK, Chained
<1> QED
  BY <1>3, <1>4 DEF EnergyGate, Return

LEMMA KRefuse == KInv /\ RefuseLayer => KInv'
<1> SUFFICES ASSUME KInv, RefuseLayer PROVE KInv'
  OBVIOUS
<1>1. /\ pc \in Layers /\ UNCHANGED <<m, mem, got, cur, acc, logits>>
      /\ pc' = "idle" /\ verdict' = "rejected"
  BY DEF RefuseLayer, Return
<1>2. InitFits
  BY <1>1 DEF KInv, Accepted, Layers
<1> QED
  BY <1>1, <1>2, GotBound, KIdle DEF KInv, TypeOK, Chained

LEMMA KDecide == KInv /\ kws_decide => KInv'
<1> SUFFICES ASSUME KInv, kws_decide PROVE KInv'
  OBVIOUS
<1>1. /\ pc = "decide" /\ UNCHANGED <<m, mem, got, cur, acc, logits>>
      /\ pc' = "idle" /\ verdict' \in {"confirmed", "rejected"}
  BY DEF kws_decide, Return
<1>2. InitFits
  BY <1>1 DEF KInv, Accepted
<1> QED
  BY <1>1, <1>2, GotBound, KIdle DEF KInv, TypeOK, Chained

(* What a layer leaves for the next one. *)
LEMMA LayerChains ==
    ASSUME KInv, pc \in Layers, Layer.fits, m' = m,
           cur' = Layer.makes, pc' = Layer.next
    PROVE  /\ Chained'
           /\ pc' \in (Layers \ {"frontend"}) \cup {"decide"}
           /\ pc' = "decide" <=> pc = "connected"
<1>1. Behaves(Layer)
  BY LayerBehaves
<1>2. cur'.h \in Int /\ cur'.w \in Int /\ cur'.c \in Int
  BY <1>1 DEF Behaves
<1>3. m \in Models
  BY DEF KInv, TypeOK
<1>4. CASE pc = "frontend"
  <2>1. pc' = "conv" /\ cur' = Map("feat", m.in_h, m.in_w, 1, "frontend")
    BY <1>4, LayerIs DEF Frontend
  <2> QED
    BY <1>2, <1>4, <2>1 DEF Chained, Layers, Map
<1>5. CASE pc = "conv"
  <2>1. /\ pc' = IF m.n_blocks >= 1 THEN "depthwise" ELSE "pool"
        /\ cur'.buf = "buf_a" /\ cur'.c = m.conv_oc /\ m.num_classes <= MaxClasses
    <3> DEFINE oh == OutDim(m.in_h, m.conv_kh, m.conv_stride, m.conv_pad)
               ow == OutDim(m.in_w, m.conv_kw, m.conv_stride, m.conv_pad)
    <3>1. Layer = Conv
      BY <1>5, LayerIs
    <3>2. /\ Conv.makes = Map("buf_a", oh, ow, m.conv_oc, "conv")
          /\ Conv.next = IF m.n_blocks >= 1 THEN "depthwise" ELSE "pool"
          /\ Conv.fits => m.num_classes <= MaxClasses
      BY DEF Conv
    <3> HIDE DEF oh, ow
    <3> QED
      BY <3>1, <3>2, MapFields
  <2>2. SizeOf(cur') <= Scratch
    <3>1. Layer = Conv
      BY <1>5, LayerIs
    <3>2. Conv.fits => SizeOf(Conv.makes) <= Scratch
      BY DEF Conv
    <3> QED
      BY <3>1, <3>2
  <2>3. CASE m.n_blocks >= 1
    BY <1>2, <1>5, <2>1, <2>3 DEF Chained, Layers
  <2>4. CASE ~(m.n_blocks >= 1)
    BY <1>2, <1>5, <2>1, <2>2, <2>4 DEF Chained, Layers, SizeOf
  <2> QED
    BY <2>3, <2>4
<1>6. CASE pc = "depthwise"
  <2>1. /\ pc' = "pointwise" /\ cur'.buf = "buf_b"
        /\ m.n_blocks >= 1 /\ m.num_classes <= MaxClasses
    BY <1>6, LayerIs, MapFields DEF Depthwise, KInv, Chained
  <2> QED
    BY <1>2, <1>6, <2>1 DEF Chained, Layers
<1>7. CASE pc = "pointwise"
  <2>1. /\ pc' = "pool" /\ cur'.buf = "buf_a" /\ cur'.c = m.pw_oc
        /\ m.n_blocks >= 1 /\ m.num_classes <= MaxClasses
    BY <1>7, LayerIs, MapFields DEF Pointwise, KInv, Chained
  <2>2. SizeOf(cur') <= Scratch
    <3>1. OutDim(cur.h, 1, 1, 0) = cur.h /\ OutDim(cur.w, 1, 1, 0) = cur.w
      BY OutDimOne DEF KInv, Chained
    <3>2. Pointwise.fits => SizeOf(Pointwise.makes) <= Scratch
      BY <3>1 DEF Pointwise, FitsScratch
    <3>3. Layer = Pointwise
      BY <1>7, LayerIs
    <3> QED
      BY <3>2, <3>3
  <2> QED
    BY <1>2, <1>7, <2>1, <2>2 DEF Chained, Layers, SizeOf
<1>8. CASE pc = "pool"
  <2>1. /\ pc' = "connected" /\ cur'.buf = "buf_b" /\ cur'.h = 1 /\ cur'.w = 1
        /\ m.num_classes <= MaxClasses
    BY <1>8, LayerIs, MapFields DEF Pool, KInv, Chained
  <2> QED
    BY <1>2, <1>8, <2>1 DEF Chained, Layers
<1>9. CASE pc = "connected"
  <2>1. pc' = "decide"
    BY <1>9, LayerIs DEF Connected
  <2> QED
    BY <1>2, <1>9, <2>1 DEF Chained, Layers
<1> QED
  BY <1>4, <1>5, <1>6, <1>7, <1>8, <1>9 DEF Layers

LEMMA KLayer ==
    ASSUME KInv, pc \in Layers, Layer.fits,
           mem' = Written(Layer.makes.buf, Writes, pc),
           cur' = Layer.makes, pc' = Layer.next, UNCHANGED <<m, got, verdict>>,
           pc = "connected" => Rescaled'
    PROVE  KInv'
<1>1. Behaves(Layer)
  BY LayerBehaves
<1>2. Chained' /\ pc' \in (Layers \ {"frontend"}) \cup {"decide"}
      /\ (pc' = "decide" <=> pc = "connected")
  BY LayerChains
<1> DEFINE map == Layer.makes
<1>3. /\ map.buf \in DOMAIN Size /\ map.by = pc /\ Writes = Cells(map.h, map.w, map.c)
      /\ Overrun(map) \/ Cells(map.h, map.w, map.c) \subseteq 0 .. Size[map.buf] - 1
  BY <1>1 DEF Behaves, Writes
<1>4. cur' = map /\ mem' = Written(map.buf, Cells(map.h, map.w, map.c), map.by) /\ TypeOK
  BY <1>3 DEF KInv
<1> HIDE DEF map
<1>5. Held(cur)'
  BY <1>3, <1>4, MadeIsHeld
<1>6. /\ DOMAIN mem' = DOMAIN Size
      /\ \A d \in DOMAIN Size : DOMAIN mem'[d] = 0 .. Size[d] - 1
  BY <1>3, <1>4, WrittenCells
<1>7. InitFits'
  BY SameModel DEF KInv, Accepted, Layers
<1>8. TypeOK'
  <2>1. pc' \in Layers \cup {"boot", "aborted", "idle", "capture", "energy", "decide"}
    BY <1>2
  <2>2. m' \in Models /\ got' \in Nat /\ (got' > 0 => got' <= need_samples')
        /\ verdict' \in {"none", "confirmed", "rejected"}
    BY <1>4, SameModel DEF TypeOK
  <2>3. cur'.buf \in DOMAIN Size
    BY <1>3, <1>4
  <2> QED
    BY <1>6, <2>1, <2>2, <2>3 DEF TypeOK, Size, Layers
<1> QED
  BY <1>2, <1>5, <1>7, <1>8 DEF KInv, Accepted, Capturing, Layers, Rescaled

LEMMA KRun == KInv /\ RunLayer => KInv'
<1> SUFFICES ASSUME KInv, RunLayer PROVE KInv'
  OBVIOUS
<1>1. /\ pc \in Layers /\ pc # "connected" /\ Layer.fits
      /\ mem' = Written(Layer.makes.buf, Writes, pc)
      /\ cur' = Layer.makes /\ pc' = Layer.next /\ UNCHANGED <<m, got, verdict>>
  BY DEF RunLayer
<1> QED
  BY <1>1, KLayer

LEMMA KConnected == KInv /\ nn_fully_connected_i8 => KInv'
<1> SUFFICES ASSUME KInv, nn_fully_connected_i8 PROVE KInv'
  OBVIOUS
<1>1. /\ pc = "connected" /\ mem' = Written("logits", Writes, pc)
      /\ acc' \in [Classes -> m.sums]
      /\ logits' = [c \in Classes |->
                      nn_requantize_i8(acc'[c], m.fc_mult, m.fc_shift, m.out_zp,
                                       ByteMin, ByteMax)]
      /\ cur' = Layer.makes /\ pc' = Layer.next /\ UNCHANGED <<m, got, verdict>>
  BY DEF nn_fully_connected_i8
<1>2. pc \in Layers /\ Layer.fits /\ Layer.makes.buf = "logits"
  BY <1>1, LayerIs, MapFields DEF Connected, Layers
<1>3. Rescaled'
  <2>1. Classes' = Classes /\ m' = m
    BY <1>1, SameModel
  <2>2. acc' \in [Classes' -> m'.sums]
    BY <1>1, <2>1
  <2>3. logits' = [c \in Classes' |->
                     nn_requantize_i8(acc'[c], m'.fc_mult, m'.fc_shift, m'.out_zp,
                                      ByteMin, ByteMax)]
    BY <1>1, <2>1, Zenon
  <2> QED
    BY <2>2, <2>3, Zenon DEF Rescaled
<1> QED
  BY <1>1, <1>2, <1>3, KLayer

LEMMA KStep == KInv /\ [Next]_vars => KInv'
<1>1. ASSUME KInv, UNCHANGED vars PROVE KInv'
  <2>1. UNCHANGED <<m, pc, mem, got, cur, acc, logits, verdict>>
    BY <1>1 DEF vars
  <2>2. TypeOK' /\ Accepted' /\ Capturing' /\ Chained'
    BY <1>1, <2>1, SameModel DEF KInv, TypeOK, Accepted, Capturing, Chained, Size
  <2>3. (pc \in {"energy"} \cup Layers => Held(cur))'
    BY <1>1, <2>1 DEF KInv, Held, Layers
  <2>4. Rescaled'
    BY <1>1, <2>1, SameModel, Zenon DEF KInv, Rescaled
  <2> QED
    BY <2>2, <2>3, <2>4 DEF KInv
<1> QED
  BY <1>1, KBoot, KRestart, KHook, KCapture, KEnergy, KRun, KRefuse, KConnected, KDecide
     DEF Next

-----------------------------------------------------------------------------
(* Theorems *)

LEMMA KInvariant == Spec => []KInv
BY KInit, KStep, PTL DEF Spec

(* kws_model.c:8-61, app_main.c:53-66: whatever the model's geometry and   *)
(* however a capture comes short, no layer reads a cell that the step      *)
(* before it did not write in this inference, or one outside its buffer,   *)
(* but for the last layer behind a pool that has overrun it.               *)
THEOREM NothingStaleRead == Spec => []ReadsFresh
<1>1. KInv => ReadsFresh
  <2> SUFFICES ASSUME KInv PROVE ReadsFresh
    OBVIOUS
  <2>1. TypeOK
    BY DEF KInv
  <2>2. ASSUME pc \in Layers, Layer.fits
        PROVE  \A i \in Layer.reads :
                  IF i \in DOMAIN mem[cur.buf] THEN mem[cur.buf][i] = cur.by
                  ELSE Overrun(cur)
    <3>1. Held(cur)
      BY <2>2 DEF KInv
    <3>2. Layer.reads \subseteq Cells(cur.h, cur.w, cur.c)
      BY <2>2, LayerBehaves DEF Behaves
    <3> QED
      BY <3>1, <3>2, Zenon DEF Held
  <2> QED
    BY <2>1, <2>2 DEF ReadsFresh
<1> QED
  BY <1>1, KInvariant, PTL

(* kws_model.c:13-56: for every geometry, with no assumption on the        *)
(* channels, a layer that is not refused never writes into the buffer it   *)
(* reads, and writes outside its own exactly when it is the pool of a map  *)
(* with more channels than the scratch; such a map has no cells.           *)
THEOREM WritesInside == Spec => []WritesSafe
<1>1. KInv => WritesSafe
  <2> SUFFICES ASSUME KInv, pc \in Layers, Layer.fits
               PROVE  /\ Layer.makes.buf # cur.buf
                      /\ Writes \subseteq DOMAIN mem[Layer.makes.buf]
                           <=> ~Overrun(Layer.makes)
                      /\ Overrun(Layer.makes) => cur.h * cur.w <= 0
    BY DEF WritesSafe
  <2>1. Behaves(Layer)
    BY LayerBehaves
  <2>2. \A b \in DOMAIN Size : DOMAIN mem[b] = 0 .. Size[b] - 1
    BY DEF KInv, TypeOK
  <2>3. ~Overrun(Layer.makes) => Writes \subseteq DOMAIN mem[Layer.makes.buf]
    BY <2>1, <2>2 DEF Behaves, Writes
  <2>4. ASSUME Overrun(Layer.makes)
        PROVE  /\ ~(Writes \subseteq DOMAIN mem[Layer.makes.buf])
               /\ cur.h * cur.w <= 0
    <3>1. Layer.makes.by = "pool" /\ Layer.makes.c > Scratch
      BY <2>4 DEF Overrun
    <3>2. pc = "pool"
      BY <2>1, <3>1 DEF Behaves
    <3>3. Layer.makes = Map("buf_b", 1, 1, cur.c, "pool")
      BY <3>2, LayerIs DEF Pool
    <3>4. /\ Layer.makes.buf = "buf_b" /\ Layer.makes.h = 1 /\ Layer.makes.w = 1
          /\ Layer.makes.c = cur.c
      BY <3>3, MapFields
    <3>5. /\ cur.h \in Int /\ cur.w \in Int /\ cur.c \in Int /\ Scratch \in Nat
          /\ cur.h * cur.w * cur.c <= Scratch /\ cur.c > Scratch
      BY <3>1, <3>2, <3>4, Limits DEF KInv, Chained, SizeOf
    <3>6. cur.h * cur.w <= 0
      BY <3>5, ManyChannelsEmpty
    <3>7. Writes = 0 .. cur.c - 1
      BY <3>4, <3>5, RowCells DEF Writes
    <3>8. DOMAIN mem[Layer.makes.buf] = 0 .. Scratch - 1
      BY <2>2, <3>4, Sizes
    <3>9. Scratch \in 0 .. cur.c - 1 /\ Scratch \notin 0 .. Scratch - 1
      BY <3>5, SMT
    <3> QED
      BY <3>6, <3>7, <3>8, <3>9
  <2> QED
    BY <2>1, <2>3, <2>4 DEF Behaves
<1> QED
  BY <1>1, KInvariant, PTL

(* quant.py:1-5 with quant.c: for every word width, multiplier, shift and  *)
(* sum, the training framework and the firmware compute the same logits as *)
(* long as adding the zero point does not overflow.                        *)
THEOREM LogitsAgree == Spec => []Parity
<1>1. KInv => Parity
  <2> SUFFICES ASSUME KInv, pc = "decide", NEW c \in Classes, SumFits(c)
               PROVE  logits[c] = py_requantize_i8(acc[c], m.fc_mult, m.fc_shift,
                                                   m.out_zp, ByteMin, ByteMax)
    BY DEF Parity
  <2>1. acc[c] \in Int /\ m.fc_mult \in Int /\ m.fc_shift \in Int
    BY Fields DEF KInv, TypeOK, Rescaled
  <2>2. logits[c] = nn_requantize_i8(acc[c], m.fc_mult, m.fc_shift, m.out_zp,
                                     ByteMin, ByteMax)
    BY DEF KInv, Rescaled
  <2> QED
    BY <2>1, <2>2, RequantizeParity DEF SumFits
<1> QED
  BY <1>1, KInvariant, PTL

-----------------------------------------------------------------------------
(* Rounding *)

(* The powers that C's shifts of an int reach. *)
LEMMA Powers ==
    ASSUME NEW k \in 0 .. 31
    PROVE  /\ 2 ^ k \in Nat \ {0}
           /\ k > 0 => \E half \in Nat \ {0} : 2 ^ k = 2 * half
<1> DEFINE Even(p) == p \in Nat \ {0} /\ \E half \in Nat \ {0} : p = 2 * half
<1>1. \A half \in Nat \ {0} : Even(2 * half)
  BY SMT
<1> HIDE DEF Even
<1>2. /\ Even(2 ^ 1) /\ Even(2 ^ 2) /\ Even(2 ^ 3) /\ Even(2 ^ 4)
      /\ Even(2 ^ 5) /\ Even(2 ^ 6) /\ Even(2 ^ 7) /\ Even(2 ^ 8)
  <2>1. /\ 2 ^ 1 = 2 * 2 ^ 0 /\ 2 ^ 2 = 2 * 2 ^ 1 /\ 2 ^ 3 = 2 * 2 ^ 2 /\ 2 ^ 4 = 2 * 2 ^ 3
        /\ 2 ^ 5 = 2 * 2 ^ 4 /\ 2 ^ 6 = 2 * 2 ^ 5 /\ 2 ^ 7 = 2 * 2 ^ 6
        /\ 2 ^ 8 = 2 * 2 ^ 7
    BY SMT
  <2>2. /\ 2 ^ 0 \in Nat \ {0} /\ 2 ^ 1 \in Nat \ {0} /\ 2 ^ 2 \in Nat \ {0}
        /\ 2 ^ 3 \in Nat \ {0} /\ 2 ^ 4 \in Nat \ {0} /\ 2 ^ 5 \in Nat \ {0}
        /\ 2 ^ 6 \in Nat \ {0} /\ 2 ^ 7 \in Nat \ {0}
    BY SMT
  <2> QED
    BY <1>1, <2>1, <2>2, Zenon
<1>3. /\ Even(2 ^ 9) /\ Even(2 ^ 10) /\ Even(2 ^ 11) /\ Even(2 ^ 12)
      /\ Even(2 ^ 13) /\ Even(2 ^ 14) /\ Even(2 ^ 15) /\ Even(2 ^ 16)
  <2>1. /\ 2 ^ 9 = 2 * 2 ^ 8 /\ 2 ^ 10 = 2 * 2 ^ 9 /\ 2 ^ 11 = 2 * 2 ^ 10
        /\ 2 ^ 12 = 2 * 2 ^ 11 /\ 2 ^ 13 = 2 * 2 ^ 12 /\ 2 ^ 14 = 2 * 2 ^ 13
        /\ 2 ^ 15 = 2 * 2 ^ 14 /\ 2 ^ 16 = 2 * 2 ^ 15
    BY SMT
  <2>2. /\ 2 ^ 8 \in Nat \ {0} /\ 2 ^ 9 \in Nat \ {0} /\ 2 ^ 10 \in Nat \ {0}
        /\ 2 ^ 11 \in Nat \ {0} /\ 2 ^ 12 \in Nat \ {0} /\ 2 ^ 13 \in Nat \ {0}
        /\ 2 ^ 14 \in Nat \ {0} /\ 2 ^ 15 \in Nat \ {0}
    BY SMT
  <2> QED
    BY <1>1, <2>1, <2>2, Zenon
<1>4. /\ Even(2 ^ 17) /\ Even(2 ^ 18) /\ Even(2 ^ 19) /\ Even(2 ^ 20)
      /\ Even(2 ^ 21) /\ Even(2 ^ 22) /\ Even(2 ^ 23) /\ Even(2 ^ 24)
  <2>1. /\ 2 ^ 17 = 2 * 2 ^ 16 /\ 2 ^ 18 = 2 * 2 ^ 17 /\ 2 ^ 19 = 2 * 2 ^ 18
        /\ 2 ^ 20 = 2 * 2 ^ 19 /\ 2 ^ 21 = 2 * 2 ^ 20
        /\ 2 ^ 22 = 2 * 2 ^ 21 /\ 2 ^ 23 = 2 * 2 ^ 22
        /\ 2 ^ 24 = 2 * 2 ^ 23
    BY SMT
  <2>2. /\ 2 ^ 16 \in Nat \ {0} /\ 2 ^ 17 \in Nat \ {0}
        /\ 2 ^ 18 \in Nat \ {0} /\ 2 ^ 19 \in Nat \ {0}
        /\ 2 ^ 20 \in Nat \ {0} /\ 2 ^ 21 \in Nat \ {0}
        /\ 2 ^ 22 \in Nat \ {0} /\ 2 ^ 23 \in Nat \ {0}
    BY SMT
  <2> QED
    BY <1>1, <2>1, <2>2, Zenon
<1>5. /\ Even(2 ^ 25) /\ Even(2 ^ 26) /\ Even(2 ^ 27) /\ Even(2 ^ 28)
      /\ Even(2 ^ 29) /\ Even(2 ^ 30) /\ Even(2 ^ 31)
  <2>1. /\ 2 ^ 25 = 2 * 2 ^ 24 /\ 2 ^ 26 = 2 * 2 ^ 25
        /\ 2 ^ 27 = 2 * 2 ^ 26 /\ 2 ^ 28 = 2 * 2 ^ 27
        /\ 2 ^ 29 = 2 * 2 ^ 28 /\ 2 ^ 30 = 2 * 2 ^ 29
        /\ 2 ^ 31 = 2 * 2 ^ 30
    BY SMT
  <2>2. /\ 2 ^ 24 \in Nat \ {0} /\ 2 ^ 25 \in Nat \ {0}
        /\ 2 ^ 26 \in Nat \ {0} /\ 2 ^ 27 \in Nat \ {0}
        /\ 2 ^ 28 \in Nat \ {0} /\ 2 ^ 29 \in Nat \ {0}
        /\ 2 ^ 30 \in Nat \ {0}
    BY SMT
  <2> QED
    BY <1>1, <2>1, <2>2, Zenon
<1>6. ASSUME k > 0 PROVE Even(2 ^ k)
  <2>1. \/ k = 1 \/ k = 2 \/ k = 3 \/ k = 4 \/ k = 5 \/ k = 6 \/ k = 7 \/ k = 8
        \/ k = 9 \/ k = 10 \/ k = 11 \/ k = 12 \/ k = 13 \/ k = 14 \/ k = 15 \/ k = 16
        \/ k = 17 \/ k = 18 \/ k = 19 \/ k = 20 \/ k = 21 \/ k = 22 \/ k = 23 \/ k = 24
        \/ k = 25 \/ k = 26 \/ k = 27 \/ k = 28 \/ k = 29 \/ k = 30 \/ k = 31
    BY <1>6, SMT
  <2> QED
    BY <1>2, <1>3, <1>4, <1>5, <2>1, Zenon
<1>7. k = 0 \/ k > 0
  BY SMT
<1>8. ~(0 > 0) /\ 2 ^ 0 \in Nat \ {0}
  BY SMT
<1> QED
  BY <1>6, <1>7, <1>8, Zenon DEF Even

(* Dividing by d keeps the order, rounding down and towards zero alike. *)
LEMMA DivMonotone ==
    ASSUME NEW d \in Nat \ {0}, NEW x \in Int, NEW y \in Int, x <= y
    PROVE  x \div d <= y \div d
<1> DEFINE a == x \div d
           b == y \div d
<1>1. /\ a \in Int /\ x % d \in 0 .. d - 1 /\ x = d * a + (x % d)
      /\ b \in Int /\ y % d \in 0 .. d - 1 /\ y = d * b + (y % d)
  BY Division
<1> HIDE DEF a, b
<1>2. ASSUME a > b PROVE FALSE
  <2>1. d * a >= d * b + d
    <3>1. a - b - 1 \in Nat
      BY <1>1, <1>2, SMT
    <3>2. d * (a - b - 1) >= 0
      BY <3>1, SMT
    <3>3. d * (a - b - 1) = d * a - d * b - d
      BY <1>1, SMT
    <3> QED
      BY <1>1, <3>2, <3>3, SMT
  <2>2. d * a \in Int /\ d * b \in Int
    BY <1>1, SMT
  <2> QED
    BY <1>1, <2>1, <2>2, SMT
<1> QED
  BY <1>1, <1>2 DEF a, b

LEMMA QuotMonotone ==
    ASSUME NEW d \in Nat \ {0}, NEW x \in Int, NEW y \in Int, x <= y
    PROVE  Quot(x, d) <= Quot(y, d)
<1>1. CASE x >= 0
  BY <1>1, DivMonotone DEF Quot
<1>2. CASE y < 0
  <2>1. (-y) \div d <= (-x) \div d
    BY DivMonotone
  <2>2. (-y) \div d \in Int /\ (-x) \div d \in Int
    BY SMT
  <2> QED
    BY <1>2, <2>1, <2>2 DEF Quot
<1>3. CASE x < 0 /\ y >= 0
  <2>1. \A z \in Int : z >= 0 => z \div d \in Nat
    BY SMT
  <2>2. (-x) \div d \in Nat /\ y \div d \in Nat
    BY <1>3, <2>1
  <2> QED
    BY <1>3, <2>2 DEF Quot
<1> QED
  BY <1>1, <1>2, <1>3

(* The nudge of nn_sat_round_doubling_high_mul: half of d, away from zero. *)
Nudged(x, half) == x + (IF x >= 0 THEN half ELSE 1 - half)

LEMMA NudgeMonotone ==
    ASSUME NEW half \in Nat \ {0}, NEW x \in Int, NEW y \in Int, x <= y
    PROVE  Nudged(x, half) <= Nudged(y, half) /\ Nudged(x, half) \in Int
           /\ Nudged(y, half) \in Int
BY DEF Nudged

(* Cutting the nudged number rounds the number to the nearest. *)
LEMMA NudgeNearest ==
    ASSUME NEW d \in Nat \ {0}, NEW half \in Nat \ {0}, d = 2 * half, NEW x \in Int
    PROVE  LET q == Quot(Nudged(x, half), d)
           IN  q \in Int /\ x - q * d <= half /\ q * d - x <= half
<1>1. CASE x >= 0
  <2> DEFINE up == x + half
             q == up \div d
  <2>1. up \in Int /\ up >= 0 /\ Quot(Nudged(x, half), d) = q
    BY <1>1 DEF Quot, Nudged
  <2>2. q \in Int /\ up % d \in 0 .. d - 1 /\ up = d * q + (up % d)
    BY <2>1, Division
  <2> DEFINE r == up % d
  <2>3. x = d * q + r - half /\ r \in 0 .. d - 1
    BY <2>2
  <2> HIDE DEF q, up, r
  <2>4. q * d = d * q /\ d * q \in Int
    BY <2>2, SMT
  <2> QED
    BY <2>1, <2>2, <2>3, <2>4
<1>2. CASE x < 0
  <2> DEFINE down == half - 1 - x
             q == down \div d
  <2>1. down \in Int /\ Nudged(x, half) = -down /\ -down < 0 /\ -(-down) = down
    BY <1>2 DEF Nudged
  <2>2. q \in Int /\ down % d \in 0 .. d - 1 /\ down = d * q + (down % d)
    BY <2>1, Division
  <2> DEFINE r == down % d
  <2>3. x = half - 1 - d * q - r /\ r \in 0 .. d - 1
    <3>1. d * q \in Int
      BY <2>2, SMT
    <3> QED
      BY <2>2, <3>1
  <2>4. Quot(Nudged(x, half), d) = -q
    BY <2>1 DEF Quot
  <2> HIDE DEF q, down, r
  <2>5. (-q) * d = -(d * q) /\ d * q \in Int
    BY <2>2, SMT
  <2>6. -q \in Int
    BY <2>2
  <2> QED
    BY <2>3, <2>4, <2>5, <2>6
<1> QED
  BY <1>1, <1>2

(* The same of nn_rounding_divide_by_pot, for a divisor p. *)
ShiftBy(x, p) ==
    x \div p + (IF x % p > (p - 1) \div 2 + (IF x < 0 THEN 1 ELSE 0) THEN 1 ELSE 0)

LEMMA ShiftNearest ==
    ASSUME NEW half \in Nat \ {0}, NEW p, p = 2 * half, NEW x \in Int
    PROVE  LET q == ShiftBy(x, p)
           IN  q \in Int /\ x - q * p <= half /\ q * p - x <= half
<1> DEFINE a == x \div p
           r == x % p
<1>1. p \in Nat \ {0} /\ (p - 1) \div 2 = half - 1
  BY SMT
<1>2. a \in Int /\ r \in 0 .. p - 1 /\ x = p * a + r
  BY <1>1, Division
<1>3. ShiftBy(x, p) = a + (IF r > half - 1 + (IF x < 0 THEN 1 ELSE 0) THEN 1 ELSE 0)
  BY <1>1 DEF ShiftBy
<1> HIDE DEF a, r
<1>4. a * p = p * a /\ (a + 1) * p = p * a + p /\ p * a \in Int
  BY <1>1, <1>2, SMT
<1> DEFINE q == ShiftBy(x, p)
<1>5. CASE r > half - 1 + (IF x < 0 THEN 1 ELSE 0)
  <2>1. q = a + 1 /\ r >= half
    BY <1>2, <1>3, <1>5
  <2>2. q * p = p * a + p /\ q \in Int
    BY <1>2, <1>4, <2>1
  <2> HIDE DEF q
  <2>3. x - q * p <= half /\ q * p - x <= half
    BY <1>1, <1>2, <1>4, <2>1, <2>2
  <2> QED
    BY <2>2, <2>3 DEF q
<1>6. CASE ~(r > half - 1 + (IF x < 0 THEN 1 ELSE 0))
  <2>1. q = a /\ r <= half
    BY <1>2, <1>3, <1>6
  <2>2. q * p = p * a /\ q \in Int
    BY <1>2, <1>4, <2>1
  <2> HIDE DEF q
  <2>3. x - q * p <= half /\ q * p - x <= half
    BY <1>1, <1>2, <1>4, <2>1, <2>2
  <2> QED
    BY <2>2, <2>3 DEF q
<1> QED
  BY <1>5, <1>6

LEMMA ShiftMonotone ==
    ASSUME NEW p \in Nat \ {0}, NEW x \in Int, NEW y \in Int, x <= y
    PROVE  ShiftBy(x, p) <= ShiftBy(y, p) /\ ShiftBy(x, p) \in Int /\ ShiftBy(y, p) \in Int
<1> DEFINE a == x \div p
           r == x % p
           b == y \div p
           s == y % p
           cut == (p - 1) \div 2
<1>1. /\ a \in Int /\ r \in 0 .. p - 1 /\ x = p * a + r
      /\ b \in Int /\ s \in 0 .. p - 1 /\ y = p * b + s
      /\ cut \in Int
  BY Division, SMT
<1>2. a <= b
  BY DivMonotone
<1>3. /\ ShiftBy(x, p) = a + (IF r > cut + (IF x < 0 THEN 1 ELSE 0) THEN 1 ELSE 0)
      /\ ShiftBy(y, p) = b + (IF s > cut + (IF y < 0 THEN 1 ELSE 0) THEN 1 ELSE 0)
  BY DEF ShiftBy
<1> HIDE DEF a, r, b, s, cut
<1>4. CASE a < b
  BY <1>1, <1>3, <1>4
<1>5. CASE a = b
  <2>1. p * a \in Int /\ p * a = p * b
    BY <1>1, <1>5, SMT
  <2>2. r <= s
    BY <1>1, <2>1
  <2>3. x < 0 <=> y < 0
    <3>1. a >= 0 => p * a >= 0
      BY <1>1, SMT
    <3>2. a < 0 => p * a <= -p
      <4>1. a < 0 => p * (a + 1) <= 0
        BY <1>1, SMT
      <4>2. p * (a + 1) = p * a + p
        BY <1>1, SMT
      <4> QED
        BY <1>1, <2>1, <4>1, <4>2
    <3> QED
      BY <1>1, <2>1, <3>1, <3>2
  <2> QED
    BY <1>1, <1>3, <1>5, <2>2, <2>3
<1> QED
  BY <1>1, <1>2, <1>4, <1>5

-----------------------------------------------------------------------------
(* The last layer's rescaling *)

LEMMA HalfWord ==
    Half \in Nat \ {0} /\ Half \div 2 \in Nat \ {0} /\ Half = 2 * (Half \div 2)
BY WordAssumption, SMT

(* A multiplier that is not below zero never meets the saturated case. *)
LEMMA HighMulIs ==
    ASSUME NEW a \in Int, NEW b \in Int, b >= 0
    PROVE  nn_sat_round_doubling_high_mul(a, b) = Quot(Nudged(a * b, Half \div 2), Half)
<1>1. ~(a = b /\ a = IntMin)
  BY HalfWord DEF IntMin
<1> QED
  BY <1>1, Zenon DEF nn_sat_round_doubling_high_mul, Nudged

(* The shift to the left and the one to the right. *)
LeftOf(shift) == IF shift > 0 THEN shift ELSE 0

RightOf(shift) == IF shift > 0 THEN 0 ELSE -shift

(* The sum as the high multiplication finds it. *)
Shifted(x, shift) == x * 2 ^ LeftOf(shift)

LEMMA ShiftedFits ==
    ASSUME NEW x \in IntMin .. IntMax, NEW shift \in -31 .. 30,
           shift > 0 => x * 2 ^ shift \in IntMin .. IntMax
    PROVE  /\ Shifted(x, shift) \in IntMin .. IntMax /\ Shifted(x, shift) \in Int
           /\ LeftOf(shift) \in 0 .. 31 /\ RightOf(shift) \in 0 .. 31
<1>1. CASE shift > 0
  <2>1. Shifted(x, shift) = x * 2 ^ shift /\ LeftOf(shift) = shift /\ RightOf(shift) = 0
    BY <1>1, Zenon DEF Shifted, LeftOf, RightOf
  <2>2. shift \in 0 .. 31 /\ 0 \in 0 .. 31
    BY <1>1
  <2>3. \A z \in IntMin .. IntMax : z \in Int
    OBVIOUS
  <2> QED
    BY <1>1, <2>1, <2>2, <2>3, Zenon
<1>2. CASE ~(shift > 0)
  <2>1. Shifted(x, shift) = x * 2 ^ 0 /\ LeftOf(shift) = 0 /\ RightOf(shift) = -shift
    BY <1>2, Zenon DEF Shifted, LeftOf, RightOf
  <2>2. x \in Int
    OBVIOUS
  <2>3. x * 2 ^ 0 = x
    BY <2>2, SMT
  <2>4. -shift \in 0 .. 31 /\ 0 \in 0 .. 31
    BY <1>2
  <2> QED
    BY <2>1, <2>2, <2>3, <2>4, Zenon
<1> QED
  BY <1>1, <1>2

(* quant.c:25-31 without the word: the product is rounded to the nearest,  *)
(* shifted and rounded once more.                                          *)
High(x, qm, shift) == Quot(Nudged(Shifted(x, shift) * qm, Half \div 2), Half)

LEMMA MultiplierIs ==
    ASSUME NEW x \in IntMin .. IntMax, NEW qm \in Int, qm >= 0, NEW shift \in -31 .. 30,
           shift > 0 => x * 2 ^ shift \in IntMin .. IntMax
    PROVE  nn_multiply_by_quantized_multiplier(x, qm, shift) =
             IF RightOf(shift) = 0 THEN High(x, qm, shift)
             ELSE ShiftBy(High(x, qm, shift), 2 ^ RightOf(shift))
<1> DEFINE y == Shifted(x, shift)
<1>1. y \in IntMin .. IntMax /\ y \in Int /\ RightOf(shift) \in 0 .. 31
  BY ShiftedFits
<1>2. nn_multiply_by_quantized_multiplier(x, qm, shift)
        = nn_rounding_divide_by_pot(nn_sat_round_doubling_high_mul(Wrap(y), qm),
                                    RightOf(shift))
  BY Zenon DEF nn_multiply_by_quantized_multiplier, Shifted, LeftOf, RightOf
<1> HIDE DEF y
<1>3. nn_sat_round_doubling_high_mul(Wrap(y), qm) = High(x, qm, shift)
  BY <1>1, WrapInRange, HighMulIs DEF High, y
<1>4. RightOf(shift) <= 0 <=> RightOf(shift) = 0
  BY <1>1
<1>5. \A h : RoundingShift(h, RightOf(shift)) = ShiftBy(h, 2 ^ RightOf(shift))
  BY Zenon DEF RoundingShift, ShiftBy
<1> QED
  BY <1>2, <1>3, <1>4, <1>5, Zenon DEF nn_rounding_divide_by_pot

LEMMA HighInt ==
    ASSUME NEW x \in IntMin .. IntMax, NEW qm \in Int, NEW shift \in -31 .. 30,
           shift > 0 => x * 2 ^ shift \in IntMin .. IntMax
    PROVE  LET h == High(x, qm, shift)
               exact == Shifted(x, shift) * qm
           IN  /\ h \in Int /\ exact \in Int
               /\ exact - h * Half <= Half \div 2 /\ h * Half - exact <= Half \div 2
<1>1. Shifted(x, shift) \in Int
  BY ShiftedFits
<1> DEFINE exact == Shifted(x, shift) * qm
<1>2. exact \in Int
  BY <1>1, SMT
<1>3. High(x, qm, shift) = Quot(Nudged(exact, Half \div 2), Half)
  BY DEF High
<1> HIDE DEF exact
<1>4. LET q == Quot(Nudged(exact, Half \div 2), Half)
      IN  q \in Int /\ exact - q * Half <= Half \div 2 /\ q * Half - exact <= Half \div 2
  BY <1>2, HalfWord, NudgeNearest
<1> QED
  BY <1>2, <1>3, <1>4, Zenon DEF exact

(* A number within a unit of r units is divided by the unit to about r. *)
LEMMA WithinAUnit ==
    ASSUME NEW u \in Nat \ {0}, NEW x \in Int, NEW r \in Int,
           x - r * u <= u, r * u - x <= u
    PROVE  r \in (x \div u) - 1 .. (x \div u) + 2
<1> DEFINE q == x \div u
           t == x % u
<1>1. q \in Int /\ t \in 0 .. u - 1 /\ x = u * q + t
  BY Division
<1> HIDE DEF q, t
<1>2. u * q \in Int /\ r * u \in Int
  BY <1>1, SMT
<1>3. ~(q >= r + 2)
  <2>1. q >= r + 2 => u * (q - r - 2) >= 0
    BY <1>1, SMT
  <2>2. u * (q - r - 2) = u * q - r * u - 2 * u
    BY <1>1, SMT
  <2> QED
    BY <1>1, <1>2, <2>1, <2>2
<1>4. ~(r >= q + 2)
  <2>1. r >= q + 2 => u * (r - q - 2) >= 0
    BY <1>1, SMT
  <2>2. u * (r - q - 2) = r * u - u * q - 2 * u
    BY <1>1, SMT
  <2> QED
    BY <1>1, <1>2, <2>1, <2>2
<1>5. r \in q - 1 .. q + 2
  BY <1>1, <1>3, <1>4
<1> QED
  BY <1>5 DEF q

(* Two roundings: by d, to within half of it, and then by p. *)
LEMMA TwoRoundings ==
    ASSUME NEW d \in Nat \ {0}, NEW e \in Nat \ {0}, d = 2 * e,
           NEW p \in Nat \ {0}, NEW g \in Nat \ {0}, p = 2 * g,
           NEW x \in Int, NEW h \in Int, NEW r \in Int,
           x - h * d <= e, h * d - x <= e,
           h - r * p <= g, r * p - h <= g
    PROVE  /\ d * p \in Nat \ {0} /\ e * p \in Nat
           /\ x - r * (d * p) <= e + e * p /\ r * (d * p) - x <= e + e * p
           /\ e + e * p <= d * p
<1> DEFINE k == h - r * p
<1>1. r * p \in Int /\ k \in Int /\ k <= g /\ -k <= g
  BY SMT
<1>2. d * k = h * d - r * (d * p)
  <2>1. d * (h - r * p) = d * h - d * (r * p)
    BY <1>1, SMT
  <2>2. d * h = h * d /\ d * (r * p) = r * (d * p)
    BY SMT
  <2> QED
    BY <2>1, <2>2
<1>3. d * g = e * p
  BY SMT
<1> HIDE DEF k
<1>4. d * k <= d * g /\ -(d * k) <= d * g
  <2>1. d * (g - k) >= 0 /\ d * (g + k) >= 0
    <3>1. g - k \in Nat /\ g + k \in Nat
      BY <1>1
    <3>2. \A n \in Nat : d * n >= 0
      BY SMT
    <3> QED
      BY <3>1, <3>2
  <2>2. d * (g - k) = d * g - d * k /\ d * (g + k) = d * g + d * k
    BY <1>1, SMT
  <2>3. d * g \in Int /\ d * k \in Int
    BY <1>1, SMT
  <2> QED
    BY <2>1, <2>2, <2>3
<1>5. d * p \in Nat \ {0} /\ e * p \in Nat /\ h * d \in Int /\ r * (d * p) \in Int
      /\ d * k \in Int /\ d * p = e * p + e * p /\ e <= e * p
  BY <1>1, SMT
<1> QED
  BY <1>2, <1>3, <1>4, <1>5

(* How far the rescaled sum may be from the exact one. *)
LEMMA RescaledNearest ==
    ASSUME NEW x \in IntMin .. IntMax, NEW qm \in Int, qm >= 0, NEW shift \in -31 .. 30,
           shift > 0 => x * 2 ^ shift \in IntMin .. IntMax
    PROVE  LET right == RightOf(shift)
               unit == Half * 2 ^ right
               exact == x * 2 ^ LeftOf(shift) * qm
               error == Half \div 2 + (IF right > 0 THEN (Half \div 2) * 2 ^ right ELSE 0)
               r == nn_multiply_by_quantized_multiplier(x, qm, shift)
           IN  /\ r \in Int
               /\ r \in (exact \div unit) - 1 .. (exact \div unit) + 2
               /\ AbsOf(exact - r * unit) <= error
<1> DEFINE right == RightOf(shift)
           exact == x * 2 ^ LeftOf(shift) * qm
           r == nn_multiply_by_quantized_multiplier(x, qm, shift)
           h == High(x, qm, shift)
           e == Half \div 2
<1>1. /\ h \in Int /\ exact \in Int /\ exact - h * Half <= e /\ h * Half - exact <= e
  BY HighInt DEF Shifted
<1>2. r = IF right = 0 THEN h ELSE ShiftBy(h, 2 ^ right)
  BY MultiplierIs
<1>3. right \in 0 .. 31
  BY ShiftedFits
<1>4. Half \in Nat \ {0} /\ e \in Nat \ {0} /\ Half = 2 * e
  BY HalfWord
<1>5. ASSUME NEW a \in Int, NEW b \in Int, NEW top \in Int,
             a - b <= top, b - a <= top
      PROVE  AbsOf(a - b) <= top
  BY <1>5 DEF AbsOf
<1> HIDE DEF right, exact, r, h, e
<1>6. CASE right = 0
  <2>1. r = h
    BY <1>2, <1>6
  <2>2. 2 ^ right = 1 /\ ~(right > 0)
    BY <1>6, SMT
  <2>3. Half * 2 ^ right = Half
    BY <1>4, <2>2
  <2>4. r * Half \in Int /\ e <= Half
    BY <1>1, <1>4, <2>1, SMT
  <2>5. AbsOf(exact - r * Half) <= e
    <3>1. exact - r * Half <= e /\ r * Half - exact <= e /\ e \in Int
      BY <1>1, <1>4, <2>1
    <3> QED
      BY <1>1, <1>5, <2>4, <3>1, Zenon
  <2>6. exact - r * Half <= Half /\ r * Half - exact <= Half
    BY <1>1, <1>4, <2>1, <2>4
  <2>7. r \in (exact \div Half) - 1 .. (exact \div Half) + 2
    BY <1>1, <1>4, <2>1, <2>6, WithinAUnit
  <2>8. e + 0 = e
    BY <1>4
  <2> QED
    BY <1>1, <2>1, <2>2, <2>3, <2>5, <2>7, <2>8, Zenon DEF right, exact, r, e
<1>7. CASE right # 0
  <2> DEFINE p == 2 ^ right
  <2>1. right > 0
    BY <1>3, <1>7
  <2>2. p \in Nat \ {0} /\ \E g \in Nat \ {0} : p = 2 * g
    BY <1>3, <2>1, Powers
  <2> HIDE DEF p
  <2>3. PICK g \in Nat \ {0} : p = 2 * g
    BY <2>2
  <2>4. r = ShiftBy(h, p)
    BY <1>2, <1>7 DEF p
  <2>5. r \in Int /\ h - r * p <= g /\ r * p - h <= g
    BY <1>1, <2>3, <2>4, ShiftNearest
  <2>6. /\ Half * p \in Nat \ {0} /\ e * p \in Nat
        /\ exact - r * (Half * p) <= e + e * p /\ r * (Half * p) - exact <= e + e * p
        /\ e + e * p <= Half * p
    BY <1>1, <1>4, <2>2, <2>3, <2>5, TwoRoundings
  <2> DEFINE u == Half * p
             top == e + e * p
  <2>7. u \in Nat \ {0} /\ top \in Int /\ top <= u
        /\ exact - r * u <= top /\ r * u - exact <= top
    BY <1>4, <2>6
  <2> HIDE DEF u, top
  <2>8. r * u \in Int
    BY <2>5, <2>7, SMT
  <2>9. AbsOf(exact - r * u) <= top
    BY <1>1, <1>5, <2>7, <2>8
  <2>10. exact - r * u <= u /\ r * u - exact <= u
    BY <1>1, <2>7, <2>8
  <2>11. r \in (exact \div u) - 1 .. (exact \div u) + 2
    BY <1>1, <2>5, <2>7, <2>10, WithinAUnit
  <2> QED
    BY <2>1, <2>5, <2>9, <2>11, Zenon DEF right, exact, r, e, u, p, top
<1> QED
  BY <1>6, <1>7

(* Rescaling never reverses two sums. *)
LEMMA RescaledMonotone ==
    ASSUME NEW x \in IntMin .. IntMax, NEW y \in IntMin .. IntMax, x <= y,
           NEW qm \in Int, qm >= 0, NEW shift \in -31 .. 30,
           shift > 0 => x * 2 ^ shift \in IntMin .. IntMax,
           shift > 0 => y * 2 ^ shift \in IntMin .. IntMax
    PROVE  nn_multiply_by_quantized_multiplier(x, qm, shift)
             <= nn_multiply_by_quantized_multiplier(y, qm, shift)
<1> DEFINE f == 2 ^ LeftOf(shift)
           g == 2 ^ RightOf(shift)
           e == Half \div 2
           a == Shifted(x, shift) * qm
           b == Shifted(y, shift) * qm
<1>1. f \in Nat \ {0} /\ g \in Nat \ {0}
  BY ShiftedFits, Powers
<1>2. a = x * f * qm /\ b = y * f * qm
  BY DEF Shifted
<1>3. x \in Int /\ y \in Int
  OBVIOUS
<1> HIDE DEF f, g, a, b
<1>4. a \in Int /\ b \in Int /\ a <= b
  <2>1. x * f \in Int /\ y * f \in Int
    BY <1>1, <1>3, SMT
  <2>2. x * f <= y * f
    <3>1. \A n \in Nat : f * n >= 0
      BY <1>1, SMT
    <3>2. f * (y - x) >= 0
      BY <1>3, <3>1
    <3>3. f * (y - x) = y * f - x * f
      BY <1>1, <1>3, SMT
    <3> QED
      BY <2>1, <3>2, <3>3
  <2> DEFINE s == x * f
             t == y * f
  <2>3. a = s * qm /\ b = t * qm /\ s \in Int /\ t \in Int /\ s <= t
    BY <1>2, <2>1, <2>2
  <2> HIDE DEF s, t
  <2>4. a \in Int /\ b \in Int
    BY <2>3, SMT
  <2>5. qm * (t - s) >= 0
    <3>1. \A n \in Nat : qm * n >= 0
      BY SMT
    <3> QED
      BY <2>3, <3>1
  <2>6. qm * (t - s) = b - a
    BY <2>3, SMT
  <2> QED
    BY <2>4, <2>5, <2>6
<1>5. /\ Nudged(a, e) <= Nudged(b, e) /\ Nudged(a, e) \in Int /\ Nudged(b, e) \in Int
  BY <1>4, HalfWord, NudgeMonotone
<1>6. Quot(Nudged(a, e), Half) <= Quot(Nudged(b, e), Half)
  BY <1>5, HalfWord, QuotMonotone
<1>7. High(x, qm, shift) <= High(y, qm, shift)
  BY <1>6 DEF High, a, b
<1>8. High(x, qm, shift) \in Int /\ High(y, qm, shift) \in Int
  BY HighInt
<1>9. ShiftBy(High(x, qm, shift), g) <= ShiftBy(High(y, qm, shift), g)
  BY <1>1, <1>7, <1>8, ShiftMonotone
<1>10. /\ nn_multiply_by_quantized_multiplier(x, qm, shift)
            = IF RightOf(shift) = 0 THEN High(x, qm, shift) ELSE ShiftBy(High(x, qm, shift), g)
       /\ nn_multiply_by_quantized_multiplier(y, qm, shift)
            = IF RightOf(shift) = 0 THEN High(y, qm, shift) ELSE ShiftBy(High(y, qm, shift), g)
  BY MultiplierIs DEF g
<1> QED
  BY <1>7, <1>9, <1>10, Zenon

(* The least element of a set of naturals. *)
LEMMA Least ==
    ASSUME NEW T, T \subseteq Nat, T # {}
    PROVE  \E x \in T : \A y \in T : x <= y
<1> DEFINE R == OpToRel(<, Nat)
<1>1. \A x \in Nat, y \in Nat : y < x => <<y, x>> \in R
  BY DEF OpToRel
<1>2. IsWellFoundedOn(R, Nat)
  BY NatLessThanWellFounded
<1> HIDE DEF R
<1>3. PICK x \in T : \A y \in T : ~(<<y, x>> \in R)
  BY <1>2, WFMin, Zenon
<1>4. \A y \in T : ~(y < x) /\ y \in Nat /\ x \in Nat
  BY <1>1, <1>3
<1> QED
  BY <1>3, <1>4

(* kernels.c:120-129: there is a first largest logit. *)
LEMMA ArgmaxIs ==
    ASSUME NEW n \in Int, NEW f, NEW top \in Int, 0 .. n - 1 # {},
           \A c \in 0 .. n - 1 : f[c] \in Int /\ f[c] <= top
    PROVE  \E c \in 0 .. n - 1 : \A d \in 0 .. n - 1 :
               f[d] < f[c] \/ (f[d] = f[c] /\ c <= d)
<1> DEFINE C == 0 .. n - 1
           T == {top - f[c] : c \in C}
<1>1. T \subseteq Nat /\ T # {}
  <2>1. \A c \in C : top - f[c] \in Nat
    OBVIOUS
  <2>2. T # {}
    <3> HIDE DEF C
    <3> QED
      BY Zenon DEF C
  <2> QED
    BY <2>1, <2>2, Zenon
<1>2. PICK low \in T : \A y \in T : low <= y
  BY <1>1, Least, Zenon
<1>3. PICK a \in C : low = top - f[a]
  BY <1>2
<1>4. \A d \in C : f[d] <= f[a]
  <2>1. \A d \in C : top - f[a] <= top - f[d]
    BY <1>2, <1>3
  <2> QED
    BY <2>1
<1> DEFINE E == {c \in C : f[c] = f[a]}
<1>5. E \subseteq Nat /\ E # {}
  <2>1. a \in E
    BY <1>3
  <2>2. \A c \in C : c \in Nat
    OBVIOUS
  <2> QED
    BY <2>1, <2>2, Zenon
<1>6. PICK b \in E : \A y \in E : b <= y
  BY <1>5, Least, Zenon
<1>7. b \in C /\ f[b] = f[a] /\ \A d \in C : f[d] = f[a] => b <= d
  BY <1>6
<1>8. \A d \in C : f[d] < f[b] \/ (f[d] = f[b] /\ b <= d)
  BY <1>3, <1>4, <1>7
<1> QED
  BY <1>7, <1>8, Zenon

LEMMA Bytes == ByteMin \in Int /\ ByteMax \in Int /\ ByteMin <= ByteMax
<1>1. B - 1 \in 0 .. 31
  BY KwsAssumption
<1>2. 2 ^ (B - 1) \in Nat \ {0}
  BY <1>1, Powers
<1> QED
  BY <1>2 DEF ByteMin, ByteMax

(* What the logits are when nothing leaves the word. *)
LEMMA LogitIs ==
    ASSUME KInv, pc = "decide", NEW c \in Classes, ShiftFits(c), SumFits(c)
    PROVE  LET r == nn_multiply_by_quantized_multiplier(acc[c], m.fc_mult, m.fc_shift)
           IN  /\ logits[c] = Clamp(r + m.out_zp, ByteMin, ByteMax)
               /\ acc[c] \in IntMin .. IntMax
               /\ m.fc_mult \in Int /\ m.fc_mult >= 0 /\ m.fc_shift \in -31 .. 30
               /\ m.fc_shift > 0 => acc[c] * 2 ^ m.fc_shift \in IntMin .. IntMax
<1>1. m \in Models /\ acc \in [Classes -> m.sums]
  BY DEF KInv, TypeOK, Rescaled
<1>2. logits[c] = nn_requantize_i8(acc[c], m.fc_mult, m.fc_shift, m.out_zp,
                                   ByteMin, ByteMax)
  BY DEF KInv, Rescaled
<1>3. acc[c] \in m.sums
  BY <1>1
<1>4. acc[c] \in IntMin .. IntMax /\ m.fc_mult \in Int /\ m.fc_mult >= 0
  BY <1>1, <1>3, Fields, Zenon
<1>5. m.fc_shift \in -31 .. 30
  BY <1>1, MultiplierAssumption
<1>6. logits[c]
        = Clamp(nn_multiply_by_quantized_multiplier(acc[c], m.fc_mult, m.fc_shift)
                + m.out_zp, ByteMin, ByteMax)
  BY <1>2, WrapInRange DEF nn_requantize_i8, SumFits
<1> QED
  BY <1>4, <1>5, <1>6, Zenon DEF ShiftFits

(* quant.c:5-31, 51-58: for every word width, multiplier and shift, each   *)
(* logit is the exact product rounded within half a unit, and half a unit  *)
(* of the first rounding before the right shift, then clamped.             *)
THEOREM RescalingAccurate == Spec => []LogitsAccurate
<1>1. KInv => LogitsAccurate
  <2> SUFFICES ASSUME KInv, pc = "decide", InRange, NEW c \in Classes
               PROVE  LET left == IF m.fc_shift > 0 THEN m.fc_shift ELSE 0
                          right == IF m.fc_shift > 0 THEN 0 ELSE -m.fc_shift
                          unit == Half * 2 ^ right
                          exact == acc[c] * 2 ^ left * m.fc_mult
                          error == Half \div 2
                            + (IF right > 0 THEN (Half \div 2) * 2 ^ right ELSE 0)
                      IN  \E r \in (exact \div unit) - 1 .. (exact \div unit) + 2 :
                              /\ AbsOf(exact - r * unit) <= error
                              /\ logits[c] = Clamp(r + m.out_zp, ByteMin, ByteMax)
    BY Zenon DEF LogitsAccurate
  <2> DEFINE r == nn_multiply_by_quantized_multiplier(acc[c], m.fc_mult, m.fc_shift)
             right == RightOf(m.fc_shift)
             unit == Half * 2 ^ right
             exact == acc[c] * 2 ^ LeftOf(m.fc_shift) * m.fc_mult
             error == Half \div 2 + (IF right > 0 THEN (Half \div 2) * 2 ^ right ELSE 0)
  <2>1. /\ logits[c] = Clamp(r + m.out_zp, ByteMin, ByteMax)
        /\ acc[c] \in IntMin .. IntMax
        /\ m.fc_mult \in Int /\ m.fc_mult >= 0 /\ m.fc_shift \in -31 .. 30
        /\ m.fc_shift > 0 => acc[c] * 2 ^ m.fc_shift \in IntMin .. IntMax
    BY LogitIs DEF InRange
  <2>2. /\ r \in (exact \div unit) - 1 .. (exact \div unit) + 2
        /\ AbsOf(exact - r * unit) <= error
    BY <2>1, RescaledNearest
  <2> QED
    BY <2>1, <2>2, Zenon DEF LeftOf, RightOf
<1> QED
  BY <1>1, KInvariant, PTL

(* kernels.c:120-129 with quant.c:51-58: for every number of classes, the  *)
(* class reported is one whose sum no other class exceeds, unless both are *)
(* rescaled to the same logit.                                             *)
THEOREM RescalingKeepsOrder == Spec => []OrderKept
<1>1. KInv => OrderKept
  <2> SUFFICES ASSUME KInv, pc = "decide", InRange, NEW c \in Classes,
                      acc[c] > acc[nn_argmax_i8]
               PROVE  logits[c] = logits[nn_argmax_i8]
    BY DEF OrderKept
  <2> DEFINE a == nn_argmax_i8
             r(d) == nn_multiply_by_quantized_multiplier(acc[d], m.fc_mult, m.fc_shift)
  <2>1. ASSUME NEW d \in Classes
        PROVE  /\ logits[d] = Clamp(r(d) + m.out_zp, ByteMin, ByteMax)
               /\ acc[d] \in IntMin .. IntMax
               /\ m.fc_mult \in Int /\ m.fc_mult >= 0 /\ m.fc_shift \in -31 .. 30
               /\ m.fc_shift > 0 => acc[d] * 2 ^ m.fc_shift \in IntMin .. IntMax
               /\ r(d) \in Int
    <3>1. /\ logits[d] = Clamp(r(d) + m.out_zp, ByteMin, ByteMax)
          /\ acc[d] \in IntMin .. IntMax
          /\ m.fc_mult \in Int /\ m.fc_mult >= 0 /\ m.fc_shift \in -31 .. 30
          /\ m.fc_shift > 0 => acc[d] * 2 ^ m.fc_shift \in IntMin .. IntMax
      BY LogitIs DEF InRange
    <3>2. r(d) \in Int
      BY <3>1, RescaledNearest
    <3> QED
      BY <3>1, <3>2
  <2>2. m.out_zp \in Int /\ m.num_classes \in Int
    BY Fields DEF KInv, TypeOK
  <2>3. \A d \in Classes : logits[d] \in Int /\ logits[d] <= ByteMax
    <3>1. \A v \in Int : Clamp(v, ByteMin, ByteMax) \in Int
                         /\ Clamp(v, ByteMin, ByteMax) <= ByteMax
      BY Bytes DEF Clamp
    <3>2. ASSUME NEW d \in Classes PROVE logits[d] \in Int /\ logits[d] <= ByteMax
      <4>1. r(d) + m.out_zp \in Int
        BY <2>1, <2>2
      <4> QED
        BY <2>1, <3>1, <4>1, Zenon
    <3> QED
      BY <3>2
  <2> HIDE DEF r
  <2>4. \E x \in Classes : \A d \in Classes :
            logits[d] < logits[x] \/ (logits[d] = logits[x] /\ x <= d)
    BY <2>2, <2>3, ArgmaxIs, Bytes DEF Classes
  <2>5. a \in Classes /\ \A d \in Classes :
            logits[d] < logits[a] \/ (logits[d] = logits[a] /\ a <= d)
    BY <2>4, Zenon DEF nn_argmax_i8
  <2> HIDE DEF a
  <2>6. r(a) <= r(c)
    <3>1. acc[a] \in IntMin .. IntMax /\ acc[c] \in IntMin .. IntMax
      BY <2>1, <2>5
    <3>2. acc[a] <= acc[c]
      <4>1. acc[a] \in Int /\ acc[c] \in Int
        BY <3>1
      <4> QED
        BY <4>1 DEF a
    <3> QED
      BY <2>1, <2>5, <3>1, <3>2, RescaledMonotone DEF r
  <2>7. logits[a] <= logits[c]
    <3>1. \A v \in Int, w \in Int :
              v <= w => Clamp(v, ByteMin, ByteMax) <= Clamp(w, ByteMin, ByteMax)
      BY Bytes DEF Clamp
    <3> DEFINE v == r(a) + m.out_zp
               w == r(c) + m.out_zp
    <3>2. v \in Int /\ w \in Int /\ v <= w
      BY <2>1, <2>2, <2>5, <2>6
    <3>3. /\ logits[a] = Clamp(v, ByteMin, ByteMax)
          /\ logits[c] = Clamp(w, ByteMin, ByteMax)
      BY <2>1, <2>5
    <3> QED
      BY <3>1, <3>2, <3>3, Zenon
  <2>8. logits[c] \in Int /\ logits[a] \in Int
    BY <2>3, <2>5
  <2>9. logits[c] < logits[a] \/ logits[c] = logits[a]
    BY <2>5
  <2> QED
    BY <2>7, <2>8, <2>9 DEF a
<1> QED
  BY <1>1, KInvariant, PTL

==============================================================================
