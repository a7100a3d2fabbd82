----------------------------- MODULE MCQuicLife -----------------------------
(* The instance of QuicLife for TLC.                                       *)
EXTENDS QuicLife

=============================================================================
