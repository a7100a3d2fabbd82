---------------------------- MODULE MCH2Streams ----------------------------
(* Instances of H2Streams for TLC.                                         *)
EXTENDS H2Streams

BothEnds == {"client", "server"}
ServerOnly == {"server"}

(* One stream each way, a session limit of 3 bytes and stream limits of 2: *)
(* writes block on either limit, in part or wholly.                        *)
SmallLimits ==
    [e \in {"client", "server"} |->
        [max_data |-> 3, max_stream_data |-> 2,
         max_streams |-> [d \in {"bidi", "uni"} |-> 1]]]

PairCalls == [e \in {"client", "server"} |-> IF e = "client" THEN 3 ELSE 2]
AnyPeerCalls == [e \in {"client", "server"} |-> IF e = "client" THEN 3 ELSE 1]
=============================================================================
