------------------------------ MODULE MCServer ------------------------------
(* Instances of ServerConn for TLC. *)
EXTENDS ServerConn

(* One recv may hold speech and the command it ends, two commands at once, *)
(* the end of the stream, data after the end, or a malformed chunk.        *)
SomeBuffers ==
    {<<"quiet">>, <<"speech", "command">>, <<"command", "command">>,
     <<"speech", "final">>, <<"final", "command">>, <<"bad">>}
=============================================================================
