----------------------------- MODULE MCH2Window -----------------------------
(* Instances of H2Window for TLC.  The sizes of the code divided by 8192   *)
(* and rounded like its own arithmetic: a window of 65535 becomes 7, half  *)
(* of it 3, the threshold 32768 becomes 4, a frame of 16384 becomes 2,     *)
(* and the default pre-accept limit of 65536 becomes 8; with a limit below *)
(* the window, 6, sessions are rejected as well.                           *)
EXTENDS H2Window
=============================================================================
