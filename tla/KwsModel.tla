------------------------------ MODULE KwsModel ------------------------------
(***************************************************************************)
(* Confirming the wake word: hook_run_kws (firmware/main/app_main.c)       *)
(* captures a window with mic_i2s_read, the front end (core/src/           *)
(* kws_frontend.c) turns it into a feature map, kws_model.c runs the       *)
(* layers of nn/kernels.c over two static buffers in turn, and kws.c       *)
(* decides.                                                                *)
(*                                                                         *)
(* What a layer computes is left out, except for the last one's rescaling; *)
(* what it reads and writes is not.  Every cell of every buffer holds the  *)
(* name of the step that wrote it in this inference, or "old": what an     *)
(* earlier inference left in a static buffer, or garbage on the stack.     *)
(***************************************************************************)
EXTENDS Quant

CONSTANTS
    Models,         \* the models to consider: the fields of kws_model_t that are
                    \* not weights, and `sums`, what the last layer may add up to
    FrameLen, FrameStep, MaxFrames,     \* KWS_FE_FRAME_LEN, _STEP, _MAX_FRAMES
    MaxMels,        \* MELSPEC_MAX_MELS
    MaxClasses,     \* KWS_MAX_CLASSES
    Scratch,        \* KWS_MODEL_SCRATCH
    Block,          \* samples in mic_i2s_read's stack buffer (128)
    B               \* bits of a byte

ASSUME KwsAssumption ==
    /\ FrameLen \in Nat \ {0} /\ FrameStep \in Nat \ {0} /\ Block \in Nat \ {0}
    /\ {MaxFrames, MaxMels, MaxClasses, Scratch} \subseteq Nat
    /\ B \in 2 .. 32
    /\ \A k \in Models :
          /\ {k.in_h, k.conv_stride, k.dw_stride} \subseteq Nat \ {0}
          /\ {k.in_w, k.conv_oc, k.conv_kh, k.conv_kw, k.conv_pad, k.n_blocks,
              k.dw_k, k.dw_pad, k.pw_oc, k.num_classes, k.out_zp} \subseteq Int
          /\ k.sums \subseteq IntMin .. IntMax

(* What nn_quantize_multiplier returns: a multiplier that is not below     *)
(* zero, and a shift, which C defines for an int in this range only.       *)
ASSUME MultiplierAssumption ==
    \A k \in Models : k.fc_mult \in 0 .. IntMax /\ k.fc_shift \in -31 .. 30

VARIABLES
    m,          \* the model
    pc,         \* the step that is next
    mem,        \* the buffers
    got,        \* samples captured so far
    cur,        \* the current feature map: its buffer, its shape and its writer
    acc,        \* the last layer's sums, by class
    logits,     \* and what they are rescaled to
    verdict     \* what the hook returned

vars == <<m, pc, mem, got, cur, acc, logits, verdict>>

Size == [pcm |-> MaxFrames * FrameStep + FrameLen, feat |-> MaxFrames * MaxMels,
         buf_a |-> Scratch, buf_b |-> Scratch, logits |-> MaxClasses]

ByteMin == -(2 ^ (B - 1))

ByteMax == 2 ^ (B - 1) - 1

Classes == 0 .. m.num_classes - 1

Old == [b \in DOMAIN Size |-> [i \in 0 .. Size[b] - 1 |-> "old"]]

(* A feature map: where it is, its shape, and the step that makes it. *)
Map(b, h, w, c, step) == [buf |-> b, h |-> h, w |-> w, c |-> c, by |-> step]

NoMap == Map("pcm", 0, 0, 0, "old")

Init ==
    /\ m \in Models
    /\ pc = "boot"
    /\ mem = Old
    /\ got = 0
    /\ cur = NoMap
    /\ acc = <<>>
    /\ logits = <<>>
    /\ verdict = "none"

-----------------------------------------------------------------------------
(* What a layer touches. *)

(* Element (y, x, i) of a map of width w with c channels. *)
At(y, x, i, w, c) == (y * w + x) * c + i

Cells(h, w, c) ==
    {At(p[1], p[2], p[3], w, c) : p \in (0 .. h - 1) \X (0 .. w - 1) \X (0 .. c - 1)}

(* The rows or columns a convolution leaves of n. *)
OutDim(n, k, stride, pad) == Quot(n + 2 * pad - k, stride) + 1

(* The rows or columns of n under the windows of the filter; a window's    *)
(* part outside the map is padding and is not read.                        *)
Under(n, k, stride, pad) ==
    {i \in 0 .. n - 1 :
        \E o \in 0 .. OutDim(n, k, stride, pad) - 1, f \in 0 .. k - 1 :
            i = o * stride - pad + f}

ConvReads(map, kh, kw, stride, pad) ==
    {At(p[1], p[2], p[3], map.w, map.c) :
        p \in Under(map.h, kh, stride, pad) \X Under(map.w, kw, stride, pad)
              \X (0 .. map.c - 1)}

SizeOf(map) == map.h * map.w * map.c

(* A size_t is never below zero: a negative product is a huge one. *)
FitsScratch(map) == SizeOf(map) >= 0 /\ SizeOf(map) <= Scratch

(* Frame t is FrameLen samples from t * FrameStep on. *)
Frontend ==
    [reads |-> {t * FrameStep + i : t \in 0 .. m.in_h - 1, i \in 0 .. FrameLen - 1},
     makes |-> Map("feat", m.in_h, m.in_w, 1, "frontend"),
     fits |-> TRUE,
     next |-> "conv"]

(* kws_model_run refuses too many classes before the first layer.  The     *)
(* guard's product is an int.                                              *)
Conv ==
    LET out == Map("buf_a", OutDim(m.in_h, m.conv_kh, m.conv_stride, m.conv_pad),
                   OutDim(m.in_w, m.conv_kw, m.conv_stride, m.conv_pad), m.conv_oc, "conv")
    IN  [reads |-> ConvReads(cur, m.conv_kh, m.conv_kw, m.conv_stride, m.conv_pad),
         makes |-> out,
         fits |-> m.num_classes <= MaxClasses /\ SizeOf(out) <= Scratch,
         next |-> IF m.n_blocks >= 1 THEN "depthwise" ELSE "pool"]

Depthwise ==
    LET out == Map("buf_b", OutDim(cur.h, m.dw_k, m.dw_stride, m.dw_pad),
                   OutDim(cur.w, m.dw_k, m.dw_stride, m.dw_pad), cur.c, "depthwise")
    IN  [reads |-> ConvReads(cur, m.dw_k, m.dw_k, m.dw_stride, m.dw_pad),
         makes |-> out,
         fits |-> FitsScratch(out),
         next |-> "pointwise"]

(* Mutant: the guard is that of the map that is read. *)
Pointwise_OldChannels ==
    [reads |-> ConvReads(cur, 1, 1, 1, 0),
     makes |-> Map("buf_a", cur.h, cur.w, m.pw_oc, "pointwise"),
     fits |-> FitsScratch(cur),
     next |-> "pool"]

Pointwise ==
    LET out == Map("buf_a", OutDim(cur.h, 1, 1, 0), OutDim(cur.w, 1, 1, 0), m.pw_oc,
                   "pointwise")
    IN  [reads |-> ConvReads(cur, 1, 1, 1, 0),
         makes |-> out,
         fits |-> FitsScratch(Map("buf_a", cur.h, cur.w, m.pw_oc, "pointwise")),
         next |-> "pool"]

(* Mutant: the channels are those of the first convolution. *)
Pool_ConvChannels ==
    [reads |-> Cells(cur.h, cur.w, m.conv_oc),
     makes |-> Map("buf_b", 1, 1, m.conv_oc, "pool"),
     fits |-> TRUE,
     next |-> "connected"]

(* The pool has no guard of its own. *)
Pool ==
    [reads |-> Cells(cur.h, cur.w, cur.c),
     makes |-> Map("buf_b", 1, 1, cur.c, "pool"),
     fits |-> TRUE,
     next |-> "connected"]

Connected ==
    [reads |-> 0 .. cur.c - 1,
     makes |-> Map("logits", 1, 1, m.num_classes, "connected"),
     fits |-> TRUE,
     next |-> "decide"]

Layers == {"frontend", "conv", "depthwise", "pointwise", "pool", "connected"}

Layer ==
    CASE pc = "frontend" -> Frontend
      [] pc = "conv" -> Conv
      [] pc = "depthwise" -> Depthwise
      [] pc = "pointwise" -> Pointwise
      [] pc = "pool" -> Pool
      [] pc = "connected" -> Connected

Writes == Cells(Layer.makes.h, Layer.makes.w, Layer.makes.c)

(* What a write beyond the end of a buffer falls on is not modelled. *)
Written(b, cells, step) ==
    [mem EXCEPT ![b] = [i \in DOMAIN @ |-> IF i \in cells THEN step ELSE @[i]]]

-----------------------------------------------------------------------------
(* The limits kws_frontend_init and melspec_init test. *)
InitFits == m.in_h <= MaxFrames /\ m.in_w \in 1 .. MaxMels

(* app_main aborts when the front end refuses the model ... *)
kws_frontend_init ==
    /\ pc = "boot"
    /\ pc' = IF InitFits THEN "idle" ELSE "aborted"
    /\ UNCHANGED <<m, mem, got, cur, acc, logits, verdict>>

(* ... and the chip restarts. *)
Restart ==
    /\ pc = "aborted"
    /\ pc' = "boot"
    /\ mem' = Old
    /\ UNCHANGED <<m, got, cur, acc, logits, verdict>>

need_samples == (m.in_h - 1) * FrameStep + FrameLen

Return(v) ==
    /\ pc' = "idle"
    /\ verdict' = v

(* The hook is called: what the buffers hold is old from here on. *)
hook_run_kws ==
    /\ pc = "idle"
    /\ IF need_samples <= Size.pcm
       THEN pc' = "capture" /\ verdict' = "none"
       ELSE Return("rejected")
    /\ mem' = Old
    /\ got' = 0
    /\ cur' = NoMap
    /\ acc' = <<>>
    /\ logits' = <<>>
    /\ UNCHANGED m

Want == IF need_samples - got > Block THEN Block ELSE need_samples - got

(* One i2s_channel_read of mic_i2s_read: n samples, fewer than wanted or   *)
(* none when it fails or times out, which ends the read.                   *)
mic_i2s_read ==
    /\ pc = "capture"
    /\ \E n \in 0 .. Want :
        /\ mem' = Written("pcm", got .. got + n - 1, "capture")
        /\ got' = got + n
        /\ IF n = Want /\ got' < need_samples
           THEN UNCHANGED <<pc, verdict, cur>>
           ELSE IF got' < need_samples
           THEN Return("rejected") /\ UNCHANGED cur
           ELSE /\ pc' = "energy"
                /\ cur' = Map("pcm", 1, got', 1, "capture")
                /\ UNCHANGED verdict
    /\ UNCHANGED <<m, acc, logits>>

(* The energy floor: mic_frame_energy of the window, loud or quiet. *)
EnergyGate ==
    /\ pc = "energy"
    /\ \/ pc' = "frontend" /\ UNCHANGED verdict
       \/ Return("rejected")
    /\ UNCHANGED <<m, mem, got, cur, acc, logits>>

(* A layer before the last; the inference fails when its output does not   *)
(* fit the scratch buffer.                                                 *)
RunLayer ==
    /\ pc \in Layers \ {"connected"}
    /\ Layer.fits
    /\ mem' = Written(Layer.makes.buf, Writes, pc)
    /\ cur' = Layer.makes
    /\ pc' = Layer.next
    /\ UNCHANGED <<m, got, acc, logits, verdict>>

RefuseLayer ==
    /\ pc \in Layers
    /\ ~Layer.fits
    /\ Return("rejected")
    /\ UNCHANGED <<m, mem, got, cur, acc, logits>>

nn_fully_connected_i8 ==
    /\ pc = "connected"
    /\ acc' \in [Classes -> m.sums]
    /\ logits' = [c \in Classes |->
                    nn_requantize_i8(acc'[c], m.fc_mult, m.fc_shift, m.out_zp,
                                     ByteMin, ByteMax)]
    /\ mem' = Written("logits", Writes, pc)
    /\ cur' = Layer.makes
    /\ pc' = Layer.next
    /\ UNCHANGED <<m, got, verdict>>

(* The first of the largest. *)
nn_argmax_i8 ==
    CHOOSE c \in Classes : \A d \in Classes :
        logits[d] < logits[c] \/ (logits[d] = logits[c] /\ c <= d)

(* The confidence is a float: above or below the threshold. *)
kws_decide ==
    /\ pc = "decide"
    /\ \E sure \in BOOLEAN :
        Return(IF nn_argmax_i8 = m.wake_class /\ sure THEN "confirmed" ELSE "rejected")
    /\ UNCHANGED <<m, mem, got, cur, acc, logits>>

Next ==
    \/ kws_frontend_init
    \/ Restart
    \/ hook_run_kws
    \/ mic_i2s_read
    \/ EnergyGate
    \/ RunLayer
    \/ RefuseLayer
    \/ nn_fully_connected_i8
    \/ kws_decide

Spec == Init /\ [][Next]_vars

-----------------------------------------------------------------------------
(* The variables hold values of the program's types, and no more samples   *)
(* are captured than the window needs.                                     *)
TypeOK ==
    /\ m \in Models
    /\ pc \in Layers \cup {"boot", "aborted", "idle", "capture", "energy", "decide"}
    /\ DOMAIN mem = DOMAIN Size
    /\ \A b \in DOMAIN Size : DOMAIN mem[b] = 0 .. Size[b] - 1
    /\ got \in Nat
    /\ got > 0 => got <= need_samples
    /\ cur.buf \in DOMAIN Size
    /\ verdict \in {"none", "confirmed", "rejected"}

(* A pooled map with more channels than buf_b has cells. *)
Overrun(map) == map.by = "pool" /\ map.c > Scratch

(* kws_model.c:8-61, app_main.c:53-66: no step of an inference reads a     *)
(* cell that the step before it has not written in this inference: not the *)
(* end of a window whose capture came short, not a map of another shape,   *)
(* nothing an earlier inference left in the static buffers.  Nor does one  *)
(* read outside its buffer, but for the last layer behind a pool that      *)
(* wrote there (see WritesSafe).  (With the type invariant.)               *)
ReadsFresh ==
    /\ TypeOK
    /\ pc \in Layers /\ Layer.fits =>
          \A i \in Layer.reads :
              IF i \in DOMAIN mem[cur.buf] THEN mem[cur.buf][i] = cur.by ELSE Overrun(cur)

(* kws_model.c:13-56: whatever the geometry of the model, a layer that is  *)
(* not refused never writes into the buffer it is reading, and it writes   *)
(* inside its output buffer, with exactly one exception.  The guards test  *)
(* the sizes of whole maps, so a map without cells, of a filter larger     *)
(* than the padded input, passes with any number of channels; the pool     *)
(* writes these out one by one, past the end of buf_b.  kws_model.h:80     *)
(* says that sizes beyond the scratch are refused.                         *)
WritesSafe ==
    pc \in Layers /\ Layer.fits =>
        /\ Layer.makes.buf # cur.buf
        /\ Writes \subseteq DOMAIN mem[Layer.makes.buf] <=> ~Overrun(Layer.makes)
        /\ Overrun(Layer.makes) => cur.h * cur.w <= 0

(* The sum is not so large that the left shift leaves the word ... *)
ShiftFits(c) == m.fc_shift > 0 => acc[c] * 2 ^ m.fc_shift \in IntMin .. IntMax

(* ... or that the zero point leads out of it. *)
SumFits(c) ==
    nn_multiply_by_quantized_multiplier(acc[c], m.fc_mult, m.fc_shift) + m.out_zp
        \in IntMin .. IntMax

InRange == \A c \in Classes : ShiftFits(c) /\ SumFits(c)

(* quant.c:5-31, 51-58: rescaling rounds twice, in two different ways, and *)
(* clamps; each logit is still the exact product rounded within half a     *)
(* unit, and the first rounding's half unit before the right shift.        *)
LogitsAccurate ==
    pc = "decide" /\ InRange => \A c \in Classes :
        LET left == IF m.fc_shift > 0 THEN m.fc_shift ELSE 0
            right == IF m.fc_shift > 0 THEN 0 ELSE -m.fc_shift
            unit == Half * 2 ^ right
            exact == acc[c] * 2 ^ left * m.fc_mult
            error == Half \div 2 + (IF right > 0 THEN (Half \div 2) * 2 ^ right ELSE 0)
        IN  \E r \in (exact \div unit) - 1 .. (exact \div unit) + 2 :
                /\ AbsOf(exact - r * unit) <= error
                /\ logits[c] = Clamp(r + m.out_zp, ByteMin, ByteMax)

(* kernels.c:120-129 with quant.c:51-58: rounding and clamping never       *)
(* reverse two classes, so the class reported is one whose sum no other    *)
(* class exceeds, unless both are rescaled to the same logit.              *)
OrderKept ==
    pc = "decide" /\ InRange => \A c \in Classes :
        acc[c] > acc[nn_argmax_i8] => logits[c] = logits[nn_argmax_i8]

(* quant.py:1-5: the training framework's reference computes the same      *)
(* logits bit for bit, in another language's integers and division; where  *)
(* the left shift leaves the word, too, but not where the zero point does, *)
(* which the reference adds in unbounded integers.                         *)
Parity ==
    pc = "decide" => \A c \in Classes : SumFits(c) =>
        logits[c] = py_requantize_i8(acc[c], m.fc_mult, m.fc_shift, m.out_zp,
                                     ByteMin, ByteMax)

=============================================================================
