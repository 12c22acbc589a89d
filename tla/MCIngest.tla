------------------------------ MODULE MCIngest ------------------------------
(***************************************************************************)
(* An instance of IngestWire for TLC: four sessions of a device, and       *)
(* streams that are malformed or unusual.                                  *)
(***************************************************************************)
EXTENDS IngestWire

(* The audio holds bytes that would mean something outside a payload. *)
Frames ==
    {<<>>,
     <<<<"CR", "LF">>, <<"0", "CR", "LF", "x">>>>,
     <<<<"LF", "LF", "x", "CR">>, <<"1", "2">>, <<"x", "y">>>>,
     <<[i \in 1 .. 18 |-> IF i % 3 = 0 THEN "LF" ELSE "1"]>>}

SmallCfg ==
    [path |-> <<"/">>, host |-> <<"z">>, session_id |-> <<"x", "y">>, wake_conf_milli |-> 90]

DeviceInputs == {DeviceInput(f) : f \in Frames}

Head1 == <<"P", "SP", "/", "SP", "H", "LF">>

(* The frame after its header, with one thing wrong or unusual in each. *)
OddBytes ==
    {Head1 \o rest : rest \in
        {CRLF \o <<"1", ";", "x", "LF", "x", "LF">> \o stream_proto_encode_final \o <<"x">>,
         CRLF \o <<"x", "LF">>,
         CRLF \o <<";", "1", "LF">>,
         CRLF \o <<"1", "CR", "LF", "x", "y", "LF">>,
         CRLF \o <<"0", "0", "1", "LF", "CR", "CR", "CR", "LF">>,
         CRLF \o <<"0", "LF", "x", ":", "y", "LF", "LF">>,
         [i \in 1 .. 9 |-> "x"] \o <<"LF">>,
         [i \in 1 .. 7 |-> "x"] \o CRLF,
         [i \in 1 .. 8 |-> "x"] \o CRLF,
         <<"x", "LF", "W", ":", "9", "9", "9", "LF", "S", ":", "x", "y", "x", "y", "LF", "LF">>}}
    \cup {<<"SP", "/", "SP", "H", "LF">>, <<"P", "SP", "LF">>, <<"P", "SP", "SP", "LF">>,
          <<"P", "P", "P", "SP", "/", "SP", "LF">>, <<"P", "SP", "/", "/", "/", "SP", "LF">>}

OddInputs == {[bytes |-> b, pcm |-> <<>>, device |-> FALSE] : b \in OddBytes}

AllBytes ==
    Range(Digits) \cup UNION {Range(i.bytes) : i \in DeviceInputs \cup OddInputs}

AllInputs == DeviceInputs \cup OddInputs

=============================================================================
