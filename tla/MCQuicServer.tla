---------------------------- MODULE MCQuicServer ----------------------------
(* The instance of QuicServer for TLC.                                     *)
EXTENDS QuicServer

CONSTANTS c1, c2, a1, a2

B(cids, events, snd, failures, raises, stops) ==
    [cids |-> cids, events |-> events, sends |-> snd, failures |-> failures,
     raises |-> raises, stops |-> stops]

(* An id is issued and an event comes, with a call of the application; a   *)
(* callback raises; a send fails; the server is stopped.                   *)
TheBounds == {B(1, 1, 1, 0, 0, 0), B(0, 1, 1, 0, 1, 0), B(1, 0, 1, 1, 0, 0),
              B(0, 1, 0, 0, 0, 1)}

=============================================================================
