----------------------------- MODULE MCQuicSend -----------------------------
(* Instances of QuicSend for TLC.                                          *)
EXTENDS QuicSend

=============================================================================
