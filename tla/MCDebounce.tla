----------------------------- MODULE MCDebounce -----------------------------
(* Instances of DebounceTimer for TLC; the constants are set in the cfgs. *)
EXTENDS DebounceTimer
=============================================================================
