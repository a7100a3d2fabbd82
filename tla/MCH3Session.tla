---------------------------- MODULE MCH3Session ----------------------------
(* Instances of H3Session for TLC.                                         *)
EXTENDS H3Session

CONSTANTS c1, c2, b1, u1, l1

OneSession == [d \in Streams |-> c1]

Request == <<"P", "K", "F">>
Close == Request \o <<"CLOSE">>
Requests == {Request, Request \o <<"DATA">>, Close, Request \o <<"BAD">>, <<"P">>}
Data(n) == <<"P", "W">> \o [i \in 1 .. n |-> "D"]

Carry(c, d, b, u) ==
    [x \in Arriving |-> CASE x = c1 -> c [] x = c2 -> d [] x = b1 -> b [] x = u1 -> u]

(* One session with a data stream, one with two, two sessions.             *)
AllContents ==
    {Carry(c, <<>>, Data(2), <<>>) : c \in Requests}
    \cup {Carry(Close, <<>>, Data(1), Data(2))}
    \cup {Carry(c, Close, <<>>, <<>>) : c \in {Request, Close}}
=============================================================================
