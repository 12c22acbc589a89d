------------------------------ MODULE MCStream ------------------------------
(* Instances of StreamClient for TLC. *)
EXTENDS StreamClient

(* app_main.c:33-43: FRAME_BYTES, and the scratch buffer of app_ctx_t. *)
FRAME_BYTES == 320 * 2

DeviceScratch == {FRAME_BYTES + 64}
=============================================================================
