----------------------------- MODULE MCRingBuf -----------------------------
(* Instances of RingBuf for TLC. *)
EXTENDS RingBuf

(* Nothing, and up to as many distinct bytes as exceed the capacity. *)
SomeInputs == {<<>>, <<1>>, <<2, 1>>, <<1, 2, 1>>, <<2, 1, 1, 2>>}
=============================================================================
