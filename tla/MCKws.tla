------------------------------- MODULE MCKws -------------------------------
(* Instances of KwsModel for TLC. *)
EXTENDS KwsModel

(* Maps that fit and that do not, filters larger than the padded map, with *)
(* and without the optional block.                                         *)
Geometries ==
    [in_h : {1, 3, 4}, in_w : {2, 3}, conv_oc : {1, 3}, conv_kh : {1, 3}, conv_kw : {3},
     conv_stride : {1, 2}, conv_pad : {0, 1}, n_blocks : {0, 1}, dw_k : {1, 3},
     dw_stride : {1, 2}, dw_pad : {0, 1}, pw_oc : {1, 4}, num_classes : {2, 3},
     fc_mult : {17}, fc_shift : {-1}, out_zp : {0}, wake_class : {1}, sums : {{0, 5}}]

(* Without the block its fields are not read. *)
OneOfEach ==
    {k \in Geometries :
        k.n_blocks = 0 => k.dw_k = 1 /\ k.dw_stride = 1 /\ k.dw_pad = 0 /\ k.pw_oc = 1}

(* One small geometry, every sum a word holds, and multipliers over the    *)
(* range nn_quantize_multiplier gives, [Half / 2, Half).                   *)
Rescalings ==
    [in_h : {1}, in_w : {1}, conv_oc : {1}, conv_kh : {1}, conv_kw : {1},
     conv_stride : {1}, conv_pad : {0}, n_blocks : {0}, dw_k : {1},
     dw_stride : {1}, dw_pad : {0}, pw_oc : {1}, num_classes : {2},
     fc_mult : {16, 21, 31}, fc_shift : {-3, -1, 0, 1}, out_zp : {-6, 2},
     wake_class : {1}, sums : {IntMin .. IntMax}]

(* More channels than the scratch buffers have cells: maps without a cell, *)
(* or with a negative number, pass the guards, others are refused.         *)
ManyChannels ==
    [in_h : {1, 2}, in_w : {2}, conv_oc : {1, Scratch + 1}, conv_kh : {2, 4}, conv_kw : {2, 3},
     conv_stride : {1}, conv_pad : {0}, n_blocks : {0, 1}, dw_k : {1}, dw_stride : {1},
     dw_pad : {0}, pw_oc : {1, Scratch + 1}, num_classes : {2}, fc_mult : {17},
     fc_shift : {-1}, out_zp : {0}, wake_class : {1}, sums : {{0, 5}}]

AllModels == OneOfEach \cup Rescalings \cup ManyChannels
=============================================================================
