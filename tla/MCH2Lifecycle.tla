--------------------------- MODULE MCH2Lifecycle ---------------------------
(* Instances of H2Lifecycle for TLC.                                       *)
EXTENDS H2Lifecycle

(* Both ends run this code, or one of them does.                           *)
AnyForeigner == {{}, {"client"}, {"server"}}
=============================================================================
