------------------------------ MODULE MCSession ------------------------------
(* Instances of SessionTiming for TLC. *)
EXTENDS SessionTiming

(* Device 1 captures anything and is heard as anything; the others talk    *)
(* without a pause and are heard as they talk.                             *)
TalkerAndOthers ==
    [d \in Devices |-> IF d = 1 THEN FrameKinds ELSE {[speech |-> TRUE, heard |-> "loud"]}]
=============================================================================
