------------------------------- MODULE MCStt -------------------------------
(* Instances of SttSegmenter for TLC; the constants are set in the cfgs. *)
EXTENDS SttSegmenter
=============================================================================
