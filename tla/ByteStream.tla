----------------------------- MODULE ByteStream -----------------------------
(***************************************************************************)
(* What a transport promises about the bytes of a stream in one direction, *)
(* without saying how: the reader is given a prefix of what was written,   *)
(* byte for byte and in order, and is told of the end exactly when it has  *)
(* everything.  A stream may be cut by either end; then the rest need not  *)
(* come.  A stream of which the reader has seen nothing may be started     *)
(* again: this is what happens to early data a server rejects.             *)
(***************************************************************************)
EXTENDS Integers, Sequences, SequencesExt

CONSTANTS Stream, Byte

VARIABLES
    sent,   \* sent[s]: the bytes the writer has written
    fin,    \* fin[s]: the writer has ended the stream
    got,    \* got[s]: the bytes the reader was given
    eof,    \* eof[s]: the reader was told that the stream ended
    cut     \* cut[s]: an end has given the stream up

vars == <<sent, fin, got, eof, cut>>

Init == /\ sent = [s \in Stream |-> <<>>]
        /\ fin = [s \in Stream |-> FALSE]
        /\ got = [s \in Stream |-> <<>>]
        /\ eof = [s \in Stream |-> FALSE]
        /\ cut = [s \in Stream |-> FALSE]

(* f' differs from f at most at s.                                         *)
OnlyAt(s, f, g) == \A t \in Stream \ {s} : f[t] = g[t]

Write(s) ==
    /\ ~fin[s]
    /\ ~cut[s]
    /\ IsPrefix(sent[s], sent'[s])
    /\ sent'[s] \in Seq(Byte)
    /\ OnlyAt(s, sent, sent')
    /\ fin'[s] \in BOOLEAN
    /\ OnlyAt(s, fin, fin')
    /\ UNCHANGED <<got, eof, cut>>

Deliver(s) ==
    /\ ~eof[s]
    /\ IsPrefix(got[s], got'[s])
    /\ IsPrefix(got'[s], sent[s])
    /\ OnlyAt(s, got, got')
    /\ eof'[s] => fin[s] /\ got'[s] = sent[s]
    /\ eof'[s] \in BOOLEAN
    /\ OnlyAt(s, eof, eof')
    /\ UNCHANGED <<sent, fin, cut>>

Cut(s) == /\ cut' = [cut EXCEPT ![s] = TRUE]
          /\ UNCHANGED <<sent, fin, got, eof>>

(* Every stream starts again at once.                                      *)
Restart == /\ \A s \in Stream : got[s] = <<>> /\ ~eof[s]
           /\ sent' = [s \in Stream |-> <<>>]
           /\ fin' = [s \in Stream |-> FALSE]
           /\ cut' = [s \in Stream |-> FALSE]
           /\ UNCHANGED <<got, eof>>

Next == \/ \E s \in Stream : Write(s) \/ Deliver(s) \/ Cut(s)
        \/ Restart

Spec == Init /\ [][Next]_vars

=============================================================================
