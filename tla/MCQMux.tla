------------------------------- MODULE MCQMux -------------------------------
(* An instance of QMux for TLC.                                            *)
EXTENDS QMux

(* The server takes datagrams of one byte, the client any.                 *)
Limits == [e \in End |-> IF e = "server" THEN 2 ELSE 3]
CallBounds == [e \in End |-> IF e = "client" THEN 3 ELSE 1]

=============================================================================
