-------------------------- MODULE QuicSend_proofs --------------------------
(***************************************************************************)
(* Proofs about QuicSend, for any set of streams, any window and any       *)
(* bounds: types, the memory kept for retransmission, and the refinement   *)
(* of ByteStream.                                                          *)
(*                                                                         *)
(* HeldIntact is not inductive: that a chunk may be released follows from  *)
(* where the chunks lie relative to stream_acked_offset_, and that what is *)
(* read again are the right bytes from where the queue stands relative to  *)
(* what ngtcp2 has taken.  The invariant says both, stream by stream, and  *)
(* what is on the network and at the peer.                                 *)
(***************************************************************************)
EXTENDS QuicSend, TLAPS, WellFoundedInduction

(* The chunks of a stream are not empty and in the order they were taken:  *)
(* those of rejected early data first, then those of the stream as it is   *)
(* now, apart from each other, with their own bytes, and within what       *)
(* ngtcp2 has taken.                                                       *)
Retained(s) ==
    LET q == stream_unacked[s]
    IN  /\ \A i \in 1..Len(q) :
              /\ q[i].n > 0
              /\ q[i].era <= era
              /\ q[i].era = era => /\ q[i].first = q[i].off
                                   /\ q[i].off + q[i].n <= ng[s].tx
        /\ \A i \in 1..Len(q) : \A j \in 1..Len(q) :
              i < j => /\ q[i].era <= q[j].era
                       /\ q[i].era = q[j].era => q[i].off + q[i].n <= q[j].off

(* stream_acked_offset_ counts released bytes. It is a stream offset,      *)
(* unless chunks of rejected early data were released along with others.   *)
AtMost(a, b) == IF early = "rejected" THEN a <= b ELSE a = b

(* The chunks of the stream as it is now follow each other without a gap,  *)
(* up to what ngtcp2 has taken, and the first of them begins where         *)
(* stream_acked_offset_ says, or before. After stream_close_cb there are   *)
(* none.                                                                   *)
Aligned(s) ==
    LET q == stream_unacked[s]
        n == Len(stream_unacked[s])
    IN  IF ng[s].st = "gone" THEN q = <<>>
        ELSE /\ n = 0 => AtMost(ng[s].tx, stream_acked_offset[s])
             /\ n > 0 /\ q[1].era = era => AtMost(q[1].off, stream_acked_offset[s])
             /\ n > 0 => IF q[n].era = era THEN q[n].off + q[n].n = ng[s].tx
                                           ELSE ng[s].tx = 0
             /\ \A i \in 1..n - 1 :
                   q[i + 1].era = era =>
                       q[i + 1].off = IF q[i].era = era THEN q[i].off + q[i].n ELSE 0

(* A frame ngtcp2 may send again is of the stream as it is now, within     *)
(* what ngtcp2 has taken, and within one chunk; if it carries FIN it ends  *)
(* where the application ended the stream.                                 *)
Outstanding(s) ==
    \A f \in ng[s].una :
        /\ f.era = era
        /\ f.off + f.n <= ng[s].tx
        /\ f.n > 0 => \E i \in 1..Len(stream_unacked[s]) :
                          Holds(stream_unacked[s][i], f)
        /\ f.fin => f.off + f.n = finAt[s]

(* While the acknowledgement callback runs, nothing it may release is      *)
(* needed: what ngtcp2 may send again begins behind the reported prefix.   *)
Releasing ==
    pc.at = "release" =>
        /\ pc.upto = ng[pc.s].base
        /\ ng[pc.s].st # "gone"
        /\ \A f \in ng[pc.s].una : f.n > 0 => pc.upto <= f.off

(* Outside of the callback no chunk lies within the reported prefix.       *)
Freeable(s) ==
    /\ ng[s].base <= ng[s].tx
    /\ early # "rejected" /\ ~(pc.at = "release" /\ pc.s = s) =>
           \A i \in 1..Len(stream_unacked[s]) :
               stream_unacked[s][i].off + stream_unacked[s][i].n > ng[s].base

(* No buffer before the i-th has FIN.                                      *)
Live(b, i) == \A j \in 1..i - 1 : ~b[j].fin

(* The queue of an open stream continues what ngtcp2 has taken and goes on *)
(* without a gap to its first FIN, or to the end of what was written.      *)
Queued(s) ==
    LET b == stream_buffers[s]
    IN  ng[s].st = "open" =>
        /\ IF b = <<>> THEN ng[s].tx = wrote[s] /\ finAt[s] = NoFin
                       ELSE b[1].first = ng[s].tx
        /\ \A i \in 1..Len(b) :
              Live(b, i) =>
                  /\ b[i].first + b[i].n <= wrote[s]
                  /\ b[i].fin => b[i].first + b[i].n = finAt[s]
                  /\ ~b[i].fin /\ i = Len(b) => b[i].first + b[i].n = wrote[s]
                  /\ ~b[i].fin /\ i < Len(b) => b[i + 1].first = b[i].first + b[i].n
        /\ IF finAt[s] = NoFin THEN \A i \in 1..Len(b) : ~b[i].fin
                               ELSE \E i \in 1..Len(b) : b[i].fin

(* What ngtcp2 has taken was written; the end of the stream is the end of  *)
(* what was written; an id that is not open has no history.                *)
Written(s) ==
    /\ ng[s].tx <= wrote[s]
    /\ finAt[s] # NoFin => finAt[s] = wrote[s]
    /\ ng[s].st = "shut" => finAt[s] # NoFin
    /\ ng[s].st \in {"none", "open"} => ~aborted[s]
    /\ ng[s].st = "none" => /\ ng[s].tx = 0 /\ ng[s].una = {} /\ ng[s].base = 0
                            /\ wrote[s] = 0 /\ finAt[s] = NoFin

(* A packet of the stream as it is now carries the bytes its offset says;  *)
(* the peer has read frames of its own era only.                           *)
Carried ==
    /\ \A f \in net \cup rcvd :
          /\ f.era <= era
          /\ f.era = era => /\ f.n > 0 => f.first = f.off
                            /\ f.off + f.n <= ng[f.s].tx
                            /\ f.fin => f.off + f.n = finAt[f.s]
    /\ \A f \in rcvd : f.era = PeerEra

(* The peer's application has the first bytes of the stream, as many as    *)
(* are there without a gap, and was told of the end at a FIN.              *)
Delivered(s) ==
    /\ \A i \in 1..Len(got[s]) : got[s][i] = i - 1
    /\ \A i \in 0..Len(got[s]) - 1 : \E f \in rcvd : f.s = s /\ Covers(f, i)
    /\ \A f \in rcvd : f.s = s => ~Covers(f, Len(got[s]))
    /\ eof[s] => \E f \in rcvd : f.s = s /\ f.fin /\ f.off + f.n = Len(got[s])

Sound(s) == /\ Retained(s) /\ Aligned(s) /\ Outstanding(s) /\ Freeable(s)
            /\ Queued(s) /\ Written(s) /\ Delivered(s)

(* The invariant.                                                          *)
Inv == /\ \A s \in StreamIds : Sound(s)
       /\ Releasing
       /\ Carried

-----------------------------------------------------------------------------
(* Min and Max are what they are meant to be, of a set of numbers that is  *)
(* not empty, and bounded.                                                 *)
LEMMA LeastExists ==
    ASSUME NEW S, S \subseteq Nat, S # {}
    PROVE  Min(S) \in S /\ \A y \in S : Min(S) <= y
<1>1. PICK x \in S : \A y \in S : ~(<<y, x>> \in OpToRel(<, Nat))
  BY NatLessThanWellFounded, WFMin
<1>2. \A y \in S : ~(y < x)
  BY <1>1, Zenon DEF OpToRel
<1>3. \A y \in S : x <= y
  BY <1>2
<1> QED
  BY <1>3 DEF Min

LEMMA GreatestExists ==
    ASSUME NEW S, S \subseteq Nat, NEW x \in S, NEW b \in Nat, \A y \in S : y <= b
    PROVE  Max(S) \in S /\ \A y \in S : Max(S) >= y
<1> DEFINE U == {u \in Nat : \A y \in S : y <= u}
<1>1. U # {} /\ U \subseteq Nat
  OBVIOUS
<1>2. Min(U) \in U /\ \A u \in U : Min(U) <= u
  BY <1>1, LeastExists
<1>3. Min(U) \in S
  <2> SUFFICES ASSUME Min(U) \notin S PROVE FALSE
    OBVIOUS
  <2>1. \A y \in S : y <= Min(U) - 1
    BY <1>2
  <2>2. Min(U) - 1 \in Nat
    BY <1>2, <2>1
  <2> QED
    BY <1>2, <2>1, <2>2
<1>4. \A y \in S : Min(U) >= y
  BY <1>2
<1> HIDE DEF U
<1> QED
  BY <1>3, <1>4 DEF Max

-----------------------------------------------------------------------------
(* Type correctness.                                                       *)

LEMMA TypeInit == Init => TypeOK
<1> SUFFICES ASSUME Init PROVE TypeOK
  OBVIOUS
<1>1. NoStream \in StreamRecord
  BY WindowAssumption DEF NoStream, StreamRecord, StreamState
<1>2. ng \in [StreamIds -> StreamRecord]
  BY <1>1 DEF Init
<1>3. pc \in PC /\ pc.at # "release"
  BY DEF Init, Idle, PC
<1>4. early \in Verdicts /\ stream_buffers \in [StreamIds -> Seq(Buffer)]
      /\ stream_unacked \in [StreamIds -> Seq(Chunk)]
      /\ datagram_queue \in Seq(DatagramKinds)
      /\ got \in [StreamIds -> Seq(Nat \cup {Freed})]
  BY DEF Init
<1> QED
  BY <1>2, <1>3, <1>4 DEF Init, TypeOK, NoFin

(* A step of the bookkeeping of ngtcp2 or of the bounds keeps the types.   *)
LEMMA SpentType ==
    ASSUME TypeOK
    PROVE  /\ [spent EXCEPT !.writes = @ + 1] \in [writes : Nat, datagrams : Nat, losses : Nat]
           /\ [spent EXCEPT !.datagrams = @ + 1] \in [writes : Nat, datagrams : Nat, losses : Nat]
           /\ [spent EXCEPT !.losses = @ + 1] \in [writes : Nat, datagrams : Nat, losses : Nat]
<1>1. spent \in [writes : Nat, datagrams : Nat, losses : Nat]
  BY DEF TypeOK
<1> QED
  BY <1>1

LEMMA NgType ==
    ASSUME TypeOK, NEW s \in StreamIds
    PROVE  /\ ng \in [StreamIds -> StreamRecord]
           /\ ng[s] \in StreamRecord
           /\ ng[s].st \in StreamState
           /\ ng[s].tx \in Nat /\ ng[s].max \in Nat /\ ng[s].base \in Nat
           /\ ng[s].una \subseteq Frame
<1>1. ng \in [StreamIds -> StreamRecord]
  BY DEF TypeOK
<1> QED
  BY <1>1 DEF StreamRecord

LEMMA EraType == TypeOK => era \in {0, 1}
  BY DEF era

LEMMA TypeOpen ==
    ASSUME TypeOK, NEW s \in StreamIds, open_stream(s)
    PROVE  TypeOK'
<1>0. ng \in [StreamIds -> StreamRecord] /\ ng' = [ng EXCEPT ![s].st = "open"]
  BY DEF TypeOK, open_stream
<1>1. ng' \in [StreamIds -> StreamRecord]
  BY <1>0 DEF StreamRecord, StreamState
<1>2. stream_buffers' \in [StreamIds -> Seq(Buffer)]
  BY DEF TypeOK, open_stream
<1> QED
  BY <1>1, <1>2 DEF TypeOK, open_stream, peer, history

LEMMA TypeSendStreamData ==
    ASSUME TypeOK, NEW s \in StreamIds, NEW n \in WriteSizes, NEW f \in BOOLEAN,
           send_stream_data(s, n, f)
    PROVE  TypeOK'
<1> DEFINE b == [first |-> wrote[s], n |-> n, fin |-> f]
<1>1. b \in Buffer /\ n \in Nat
  BY SizeAssumption DEF TypeOK, Buffer
<1>2. stream_buffers' \in [StreamIds -> Seq(Buffer)]
  BY <1>1 DEF TypeOK, send_stream_data
<1>3. wrote' \in [StreamIds -> Nat] /\ finAt' \in [StreamIds -> Nat \cup {NoFin}]
  <2>1. wrote \in [StreamIds -> Nat] /\ finAt \in [StreamIds -> Nat \cup {NoFin}]
    BY DEF TypeOK
  <2>2. \/ /\ wrote' = [wrote EXCEPT ![s] = @ + n]
           /\ finAt' = [finAt EXCEPT ![s] = IF f THEN wrote[s] + n ELSE @]
        \/ UNCHANGED <<wrote, finAt>>
    BY DEF send_stream_data
  <2> QED
    BY <1>1, <2>1, <2>2
<1>4. spent' \in [writes : Nat, datagrams : Nat, losses : Nat]
  BY SpentType DEF send_stream_data
<1> HIDE DEF b
<1> QED
  BY <1>2, <1>3, <1>4 DEF TypeOK, send_stream_data, peer

LEMMA TypeSendDatagram ==
    ASSUME TypeOK, NEW k \in DatagramKinds, send_datagram(k)
    PROVE  TypeOK'
<1>1. datagram_queue' \in Seq(DatagramKinds)
  BY DEF TypeOK, send_datagram
<1>2. spent' \in [writes : Nat, datagrams : Nat, losses : Nat]
  BY SpentType DEF send_datagram
<1> QED
  BY <1>1, <1>2 DEF TypeOK, send_datagram, peer, binding, history

LEMMA TypeResetStream ==
    ASSUME TypeOK, NEW s \in StreamIds, reset_stream(s)
    PROVE  TypeOK'
<1>0. /\ ng \in [StreamIds -> StreamRecord]
      /\ ng' = [ng EXCEPT ![s].st = IF @ \in {"open", "shut"} THEN "flush" ELSE @]
  BY DEF TypeOK, reset_stream
<1>1. ng' \in [StreamIds -> StreamRecord]
  BY <1>0 DEF StreamRecord, StreamState
<1>2. stream_buffers' \in [StreamIds -> Seq(Buffer)] /\ aborted' \in [StreamIds -> BOOLEAN]
  BY DEF TypeOK, reset_stream
<1> QED
  BY <1>1, <1>2 DEF TypeOK, reset_stream, peer

LEMMA TypeShutdown ==
    ASSUME TypeOK, NEW s \in StreamIds, Shutdown(s)
    PROVE  ng' \in [StreamIds -> StreamRecord] /\ aborted' \in [StreamIds -> BOOLEAN]
<1>0. /\ ng \in [StreamIds -> StreamRecord]
      /\ ng' = [ng EXCEPT ![s].st = "cut", ![s].una = {}]
  BY DEF TypeOK, Shutdown
<1>1. ng' \in [StreamIds -> StreamRecord]
  BY <1>0 DEF StreamRecord, StreamState
<1> QED
  BY <1>1 DEF TypeOK, Shutdown

LEMMA TypeCloseStream ==
    ASSUME TypeOK, NEW s \in StreamIds, close_stream(s)
    PROVE  TypeOK'
<1>1. ng' \in [StreamIds -> StreamRecord] /\ aborted' \in [StreamIds -> BOOLEAN]
  BY TypeShutdown DEF close_stream
<1>2. stream_buffers' \in [StreamIds -> Seq(Buffer)]
  BY DEF TypeOK, close_stream
<1> QED
  BY <1>1, <1>2 DEF TypeOK, close_stream, peer

LEMMA TypeSendCall == ASSUME TypeOK, SendCall PROVE TypeOK'
<1>1. pc' \in PC /\ pc'.at # "release"
  BY DEF SendCall, PC, Streams
<1> QED
  BY <1>1 DEF TypeOK, SendCall, peer, binding, history

(* The stream whose turn it is has something queued.                       *)
LEMMA TurnWaits ==
    ASSUME TypeOK, NEW s, Turn(s)
    PROVE  s \in StreamIds /\ s \in pc.todo /\ stream_buffers[s] # <<>>
           /\ pc = Streams(pc.todo) /\ pc.todo \subseteq StreamIds
<1>1. pc = Streams(pc.todo) /\ pc.todo \subseteq StreamIds
  BY DEF TypeOK, PC, Turn, Streams, Idle
<1>2. Waiting(pc.todo) \subseteq Nat /\ Waiting(pc.todo) # {}
  BY <1>1, StreamAssumption DEF Waiting, Turn
<1>3. s \in Waiting(pc.todo)
  BY <1>2, LeastExists DEF Turn
<1> QED
  BY <1>1, <1>3 DEF Waiting

LEMMA TypeNextStream ==
    ASSUME TypeOK, NEW s, Turn(s)
    PROVE  NextStream(s) \in PC /\ NextStream(s).at # "release"
  BY TurnWaits DEF NextStream, PC, Streams

LEMMA TypeDropWrites ==
    ASSUME TypeOK, NEW s \in StreamIds, DropWrites(s)
    PROVE  TypeOK'
<1>1. pc' \in PC /\ pc'.at # "release"
  BY TypeNextStream DEF DropWrites
<1>2. stream_buffers' \in [StreamIds -> Seq(Buffer)]
  BY DEF TypeOK, DropWrites
<1> QED
  BY <1>1, <1>2 DEF TypeOK, DropWrites, peer, history

LEMMA TypeNoRoom ==
    ASSUME TypeOK, NEW s \in StreamIds, NoRoom(s)
    PROVE  TypeOK'
<1>1. pc' \in PC /\ pc'.at # "release"
  BY TypeNextStream DEF NoRoom
<1> QED
  BY <1>1 DEF TypeOK, NoRoom, peer, history, binding

(* What send() leaves of the queue of a stream.                            *)
LEMMA ConsumedShape ==
    ASSUME NEW b \in Seq(Buffer), b # <<>>, NEW k \in Nat, k <= b[1].n
    PROVE  /\ consumed(b, k) \in Seq(Buffer)
           /\ k = 0 => consumed(b, k) = b
           /\ k > 0 /\ b[1].n = k => consumed(b, k) = Tail(b)
           /\ k > 0 /\ b[1].n > k =>
                 /\ Len(consumed(b, k)) = Len(b)
                 /\ consumed(b, k)[1] = [b[1] EXCEPT !.first = @ + k, !.n = @ - k]
                 /\ \A i \in 2..Len(b) : consumed(b, k)[i] = b[i]
<1>0. Head(b) = b[1] /\ b[1] \in Buffer /\ Tail(b) \in Seq(Buffer) /\ Len(Tail(b)) = Len(b) - 1
      /\ Len(b) \in Nat /\ Len(b) > 0 /\ \A i \in 1..Len(b) - 1 : Tail(b)[i] = b[i + 1]
  OBVIOUS
<1>a. b[1].first \in Nat /\ b[1].n \in Nat /\ b[1].fin \in BOOLEAN
      /\ b[1] = [first |-> b[1].first, n |-> b[1].n, fin |-> b[1].fin]
  BY <1>0 DEF Buffer
<1>1. CASE k = 0
  BY <1>0, <1>1 DEF consumed
<1>2. CASE k > 0 /\ b[1].n = k
  <2>2. ~(k = 0) /\ ~(b[1].n > k)
    BY <1>2
  <2>1. consumed(b, k) = Tail(b)
    BY <1>0, <1>2, <2>2, Zenon DEF consumed
  <2> QED
    BY <1>0, <2>1, <2>2, Zenon
<1>3. CASE k > 0 /\ b[1].n > k
  <2> DEFINE r == [b[1] EXCEPT !.first = @ + k, !.n = @ - k]
  <2>1. r \in Buffer
    <3>1. b[1].first + k \in Nat /\ b[1].n - k \in Nat
      BY <1>a, <1>3
    <3> QED
      BY <1>0, <3>1 DEF Buffer
  <2>0. ~(k = 0) /\ ~(b[1].n = k)
    BY <1>a, <1>3
  <2>2. consumed(b, k) = <<r>> \o Tail(b)
    BY <1>0, <2>0, Zenon DEF consumed
  <2> HIDE DEF r
  <2>3. /\ <<r>> \o Tail(b) \in Seq(Buffer)
        /\ Len(<<r>> \o Tail(b)) = Len(b)
        /\ (<<r>> \o Tail(b))[1] = r
        /\ \A i \in 2..Len(b) : (<<r>> \o Tail(b))[i] = Tail(b)[i - 1]
    BY <1>0, <2>1
  <2>4. \A i \in 2..Len(b) : consumed(b, k)[i] = b[i]
    BY <1>0, <2>2, <2>3
  <2> QED
    BY <2>0, <2>2, <2>3, <2>4, Zenon DEF r
<1> QED
  BY <1>a, <1>1, <1>2, <1>3

(* What a step of send() that writes a frame does to stream s.             *)
LEMMA WriteFrameStep ==
    ASSUME TypeOK, NEW s \in StreamIds, NEW k \in 0..Credit(s), NEW full \in BOOLEAN,
           WriteFrame(s, k, full)
    PROVE  LET b == stream_buffers[s]
               f == b[1].fin /\ k = b[1].n
               frame == [era |-> era, off |-> ng[s].tx, n |-> k, fin |-> f]
               chunk == [era |-> era, off |-> ng[s].tx, first |-> b[1].first, n |-> k]
               sent == IF k > 0 \/ f THEN {frame} ELSE {}
           IN  /\ k \in Nat /\ b \in Seq(Buffer) /\ b # <<>> /\ b[1] \in Buffer
               /\ ng[s].st = "open" /\ k <= b[1].n /\ (k = 0 => b[1].n = 0)
               /\ frame \in Frame /\ chunk \in Chunk
               /\ ng' = [ng EXCEPT ![s].tx = @ + k,
                                   ![s].st = IF f THEN "shut" ELSE @,
                                   ![s].una = @ \cup sent]
               /\ net' = net \cup {InPacket(s, g, b[1].first) : g \in sent}
               /\ stream_unacked' =
                      [stream_unacked EXCEPT ![s] = IF k > 0 THEN Append(@, chunk) ELSE @]
               /\ stream_buffers' = [stream_buffers EXCEPT ![s] = consumed(@, k)]
               /\ pc.at = "streams" /\ pc' \in PC /\ pc'.at # "release"
               /\ UNCHANGED <<handshake_completed, early, stream_acked_offset,
                              datagram_queue, peer, history, spent>>
<1>1. Turn(s) /\ ng[s].st = "open" /\ pc.at = "streams"
  BY DEF WriteFrame, Turn
<1>2. stream_buffers[s] # <<>> /\ stream_buffers[s] \in Seq(Buffer) /\ pc \in PC
  BY <1>1, TurnWaits DEF TypeOK
<1>3. /\ Head(stream_buffers[s]) = stream_buffers[s][1] /\ stream_buffers[s][1] \in Buffer
  BY <1>2
<1>4. k \in Nat /\ ng[s].tx \in Nat
  BY NgType DEF Credit
<1>5. era \in {0, 1}
  BY EraType
<1>6. pc' \in PC /\ pc'.at # "release"
  <2>1. pc' = Idle \/ pc' = pc \/ pc' = NextStream(s)
    BY DEF WriteFrame
  <2>2. Idle \in PC /\ Idle.at # "release"
    BY DEF Idle, PC
  <2> QED
    BY <1>1, <1>2, <2>1, <2>2, TypeNextStream
<1>7. stream_buffers[s][1].first \in Nat /\ stream_buffers[s][1].fin \in BOOLEAN
      /\ stream_buffers[s][1].n \in Nat
  BY <1>3 DEF Buffer
<1> QED
  BY <1>1, <1>2, <1>3, <1>4, <1>5, <1>6, <1>7 DEF WriteFrame, held, Frame, Chunk

LEMMA TypeWriteFrame ==
    ASSUME TypeOK, NEW s \in StreamIds, NEW k \in 0..Credit(s), NEW full \in BOOLEAN,
           WriteFrame(s, k, full)
    PROVE  TypeOK'
<1> DEFINE b == stream_buffers[s]
           f == b[1].fin /\ k = b[1].n
           frame == [era |-> era, off |-> ng[s].tx, n |-> k, fin |-> f]
           chunk == [era |-> era, off |-> ng[s].tx, first |-> b[1].first, n |-> k]
           sent == IF k > 0 \/ f THEN {frame} ELSE {}
<1>1. /\ k \in Nat /\ b \in Seq(Buffer) /\ b # <<>> /\ b[1] \in Buffer
      /\ ng[s].st = "open" /\ k <= b[1].n /\ (k = 0 => b[1].n = 0)
      /\ frame \in Frame /\ chunk \in Chunk
      /\ ng' = [ng EXCEPT ![s].tx = @ + k,
                          ![s].st = IF f THEN "shut" ELSE @,
                          ![s].una = @ \cup sent]
      /\ net' = net \cup {InPacket(s, g, b[1].first) : g \in sent}
      /\ stream_unacked' =
             [stream_unacked EXCEPT ![s] = IF k > 0 THEN Append(@, chunk) ELSE @]
      /\ stream_buffers' = [stream_buffers EXCEPT ![s] = consumed(@, k)]
      /\ pc.at = "streams" /\ pc' \in PC /\ pc'.at # "release"
      /\ UNCHANGED <<handshake_completed, early, stream_acked_offset,
                     datagram_queue, peer, history, spent>>
  BY WriteFrameStep
<1>2. sent \subseteq Frame
  BY <1>1
<1>3. b[1].first \in Nat /\ b[1].fin \in BOOLEAN
  BY <1>1 DEF Buffer
<1> HIDE DEF f, frame, chunk, sent
<1>4. ng' \in [StreamIds -> StreamRecord]
  <2>1. ng \in [StreamIds -> StreamRecord]
    BY DEF TypeOK
  <2>2. [ng[s] EXCEPT !.tx = @ + k, !.st = IF f THEN "shut" ELSE @, !.una = @ \cup sent]
            \in StreamRecord
    <3>1. /\ ng[s].tx + k \in Nat
          /\ (IF f THEN "shut" ELSE ng[s].st) \in StreamState
          /\ ng[s].una \cup sent \in SUBSET Frame
      BY <1>1, <1>2, NgType DEF StreamState
    <3> QED
      BY <2>1, <3>1 DEF StreamRecord
  <2> QED
    BY <1>1, <2>1, <2>2
<1>5. stream_unacked' \in [StreamIds -> Seq(Chunk)]
  BY <1>1 DEF TypeOK
<1>6. stream_buffers' \in [StreamIds -> Seq(Buffer)]
  <2>1. consumed(b, k) \in Seq(Buffer)
    BY <1>1, ConsumedShape
  <2>2. stream_buffers \in [StreamIds -> Seq(Buffer)]
    BY DEF TypeOK
  <2> QED
    BY <1>1, <2>1, <2>2
<1>7. net' \subseteq NetFrame
  <2>1. \A g \in sent : InPacket(s, g, b[1].first) \in NetFrame
    BY <1>2, <1>3 DEF InPacket, NetFrame, Frame
  <2>2. net \subseteq NetFrame
    BY DEF TypeOK
  <2> QED
    BY <1>1, <2>1, <2>2
<1> QED
  BY <1>1, <1>4, <1>5, <1>6, <1>7 DEF TypeOK, peer, history

LEMMA TypeDropDatagram == ASSUME TypeOK, DropDatagram PROVE TypeOK'
<1>1. datagram_queue' \in Seq(DatagramKinds)
  BY DEF TypeOK, DropDatagram, dropped
<1> QED
  BY <1>1 DEF TypeOK, DropDatagram, peer, binding, history

LEMMA TypeWriteDatagram ==
    ASSUME TypeOK, NEW full \in BOOLEAN, WriteDatagram(full)
    PROVE  TypeOK'
<1>1. datagram_queue' \in Seq(DatagramKinds)
  BY DEF TypeOK, WriteDatagram
<1>2. pc' \in PC /\ pc'.at # "release"
  BY DEF TypeOK, WriteDatagram, InDatagrams, PC, Idle
<1> QED
  BY <1>1, <1>2 DEF TypeOK, WriteDatagram, peer, binding, history

LEMMA TypeSendDone == ASSUME TypeOK, SendDone PROVE TypeOK'
<1>1. pc' \in PC /\ pc'.at # "release"
  BY DEF SendDone, PC, Idle
<1> QED
  BY <1>1 DEF TypeOK, SendDone, peer, binding, history

(* The chunk a frame is read from, if there is one, holds it.              *)
LEMMA MemoryOf ==
    ASSUME TypeOK, NEW s \in StreamIds, NEW f \in Frame
    PROVE  /\ Memory(s, f) \in Nat \cup {Freed}
           /\ (\E i \in 1..Len(stream_unacked[s]) : Holds(stream_unacked[s][i], f))
              => \E i \in 1..Len(stream_unacked[s]) :
                    LET c == stream_unacked[s][i]
                    IN  Holds(c, f) /\ Memory(s, f) = c.first + (f.off - c.off)
<1> DEFINE q == stream_unacked[s]
           at == {i \in 1..Len(q) : Holds(q[i], f)}
<1>1. q \in Seq(Chunk)
  BY DEF TypeOK
<1>a. Memory(s, f) = IF at = {} THEN Freed
                     ELSE q[Min(at)].first + (f.off - q[Min(at)].off)
  BY Zenon DEF Memory
<1>b. at \subseteq 1..Len(q) /\ \A i \in 1..Len(q) : Holds(q[i], f) <=> i \in at
  OBVIOUS
<1>c. at \subseteq Nat
  BY <1>1, <1>b
<1> HIDE DEF at
<1>2. CASE at = {}
  BY <1>2, <1>a, <1>b
<1>3. CASE at # {}
  <2>1. Min(at) \in at
    BY <1>c, <1>3, LeastExists
  <2>2. Memory(s, f) = q[Min(at)].first + (f.off - q[Min(at)].off)
    BY <1>3, <1>a
  <2> DEFINE m == Min(at)
  <2>3. m \in 1..Len(q) /\ Holds(q[m], f) /\ Memory(s, f) = q[m].first + (f.off - q[m].off)
    BY <2>1, <2>2, <1>b
  <2> HIDE DEF m
  <2>4. q[m].first \in Nat /\ q[m].off \in Nat /\ f.off \in Nat /\ q[m].off <= f.off
    <3>1. q[m] \in Chunk
      BY <1>1, <2>3
    <3>2. f.off \in Nat /\ q[m].off <= f.off
      BY <2>3 DEF Frame, Holds
    <3> QED
      BY <3>1, <3>2 DEF Chunk
  <2>5. Memory(s, f) \in Nat
    BY <2>3, <2>4
  <2> QED
    BY <2>3, <2>5
<1> QED
  BY <1>2, <1>3

LEMMA TypeRetransmit ==
    ASSUME TypeOK, NEW s \in StreamIds, NEW f \in ng[s].una, Retransmit(s, f)
    PROVE  TypeOK'
<1> DEFINE first == IF f.n = 0 THEN f.off ELSE Memory(s, f)
<1>1. f \in Frame
  BY NgType
<1>2. first \in Nat \cup {Freed}
  BY <1>1, MemoryOf DEF Frame
<1>3. net' = net \cup {InPacket(s, f, first)}
  BY DEF Retransmit
<1> HIDE DEF first
<1>4. InPacket(s, f, first) \in NetFrame
  BY <1>1, <1>2 DEF InPacket, NetFrame, Frame
<1>5. net' \subseteq NetFrame
  BY <1>3, <1>4 DEF TypeOK
<1> QED
  BY <1>5 DEF TypeOK, Retransmit, peer, binding, history

LEMMA TypeSplit ==
    ASSUME TypeOK, NEW s \in StreamIds, NEW f \in ng[s].una, NEW k \in 1..f.n,
           Split(s, f, k)
    PROVE  TypeOK'
<1> DEFINE a == [f EXCEPT !.n = k, !.fin = FALSE]
           b == [f EXCEPT !.off = @ + k, !.n = @ - k]
<1>1. f \in Frame
  BY NgType
<1>2. k \in Nat /\ f.off + k \in Nat /\ f.n - k \in Nat
  BY <1>1 DEF Frame
<1>3. a \in Frame /\ b \in Frame
  BY <1>1, <1>2 DEF Frame
<1>4. ng' = [ng EXCEPT ![s].una = (@ \ {f}) \cup {a, b}]
  BY DEF Split
<1> HIDE DEF a, b
<1>5. ng' \in [StreamIds -> StreamRecord]
  <2>1. (ng[s].una \ {f}) \cup {a, b} \in SUBSET Frame
    BY <1>3, NgType
  <2>2. [ng[s] EXCEPT !.una = (@ \ {f}) \cup {a, b}] \in StreamRecord
    BY <2>1, NgType DEF StreamRecord
  <2> QED
    BY <1>4, <2>2, NgType
<1> QED
  BY <1>5 DEF TypeOK, Split, peer, binding, history

LEMMA AckedPrefixBound ==
    ASSUME NEW una \in SUBSET Frame, NEW tx \in Nat
    PROVE  /\ AckedPrefix(una, tx) \in Nat
           /\ AckedPrefix(una, tx) <= tx
           /\ \A f \in una : f.n > 0 => AckedPrefix(una, tx) <= f.off
<1> DEFINE S == {f.off : f \in {g \in una : g.n > 0}} \cup {tx}
<1>1. S \subseteq Nat /\ S # {} /\ tx \in S
  BY DEF Frame
<1>2. \A f \in una : f.n > 0 => f.off \in S
  OBVIOUS
<1>3. AckedPrefix(una, tx) = Min(S)
  BY DEF AckedPrefix
<1> HIDE DEF S
<1>4. Min(S) \in S /\ \A y \in S : Min(S) <= y
  BY <1>1, LeastExists
<1> QED
  BY <1>1, <1>2, <1>3, <1>4

LEMMA TypeAck ==
    ASSUME TypeOK, NEW s \in StreamIds, NEW f \in ng[s].una, Ack(s, f)
    PROVE  TypeOK'
<1> DEFINE una == ng[s].una \ {f}
           base == AckedPrefix(una, ng[s].tx)
<1>1. una \in SUBSET Frame /\ base \in Nat
  BY NgType, AckedPrefixBound
<1>2. /\ ng' = [ng EXCEPT ![s].una = una, ![s].base = base]
      /\ pc' = IF stream_unacked[s] = <<>> THEN pc ELSE Release(s, base)
  BY DEF Ack
<1> HIDE DEF una, base
<1>3. ng' \in [StreamIds -> StreamRecord]
  <2>1. [ng[s] EXCEPT !.una = una, !.base = base] \in StreamRecord
    BY <1>1, NgType DEF StreamRecord
  <2> QED
    BY <1>2, <2>1, NgType
<1>4. pc' \in PC /\ (pc'.at = "release" => stream_unacked'[pc'.s] # <<>>)
  <2>1. pc = Idle /\ pc \in PC /\ stream_unacked' = stream_unacked
    BY DEF Ack, idle, TypeOK, binding
  <2>2. Idle.at # "release" /\ Release(s, base) \in PC /\ Release(s, base).s = s
    BY <1>1 DEF Release, PC, Idle
  <2> QED
    BY <1>2, <2>1, <2>2
<1> QED
  BY <1>3, <1>4 DEF TypeOK, Ack, peer, binding, history

LEMMA TailNonEmpty ==
    ASSUME NEW S, NEW q \in Seq(S), Len(q) > 1
    PROVE  Tail(q) # <<>>
<1>1. Len(Tail(q)) = Len(q) - 1 /\ Len(q) \in Nat
  OBVIOUS
<1> DEFINE a == Len(Tail(q))
           b == Len(q)
<1>2. b \in Nat /\ b > 1 /\ a = b - 1
  BY <1>1
<1> HIDE DEF a, b
<1>3. a # 0
  BY <1>2
<1>4. Len(<<>>) = 0
  OBVIOUS
<1> QED
  BY <1>3, <1>4, Zenon DEF a

LEMMA TailOfOne ==
    ASSUME NEW S, NEW q \in Seq(S), q # <<>>, ~(Len(q) > 1)
    PROVE  Tail(q) = <<>>
<1>1. Len(q) \in Nat /\ Len(q) # 0
  OBVIOUS
<1>2. Len(q) = 1
  BY <1>1, SMTT(30)
<1>3. Tail(q) \in Seq(S) /\ Len(Tail(q)) = 0
  BY <1>2
<1> QED
  BY <1>3

LEMMA TypeReleaseChunk ==
    ASSUME TypeOK, ReleaseChunk
    PROVE  TypeOK'
<1> DEFINE s == pc.s
           q == stream_unacked[s]
<1>1. /\ pc.at = "release" /\ s \in StreamIds /\ pc.upto \in Nat
      /\ q \in Seq(Chunk) /\ q # <<>>
  <2>1. pc.at = "release" /\ pc \in PC
    BY DEF TypeOK, ReleaseChunk
  <2>2. pc \in [at : {"release"}, s : StreamIds, upto : Nat]
    BY <2>1 DEF PC, Idle, Streams
  <2> QED
    BY <2>1, <2>2 DEF TypeOK
<1>2. /\ Head(q) \in Chunk /\ Tail(q) \in Seq(Chunk) /\ Len(Tail(q)) = Len(q) - 1
      /\ Len(q) \in Nat
  BY <1>1
<1>3. Head(q).n \in Nat
  BY <1>2 DEF Chunk
<1>4. /\ stream_acked_offset \in [StreamIds -> Nat]
      /\ stream_unacked \in [StreamIds -> Seq(Chunk)]
  BY DEF TypeOK
<1>5. Idle \in PC /\ Idle.at # "release"
  BY DEF PC, Idle
<1>6. CASE /\ stream_acked_offset' = [stream_acked_offset EXCEPT ![s] = @ + Head(q).n]
           /\ stream_unacked' = [stream_unacked EXCEPT ![s] = Tail(@)]
           /\ pc' = release_next(s, pc.upto)
  <2>1. stream_acked_offset' \in [StreamIds -> Nat]
    BY <1>1, <1>3, <1>4, <1>6
  <2>2. stream_unacked' \in [StreamIds -> Seq(Chunk)] /\ stream_unacked'[s] = Tail(q)
    BY <1>1, <1>2, <1>4, <1>6
  <2>3. pc' \in PC /\ (pc'.at = "release" => stream_unacked'[pc'.s] # <<>>)
    <3>1. CASE Len(q) > 1
      <4>1. pc' = Release(s, pc.upto)
        BY <1>6, <3>1 DEF release_next
      <4>2. pc' \in PC /\ pc'.s = s
        BY <1>1, <4>1 DEF Release, PC
      <4>3. Tail(q) # <<>>
        BY <1>1, <3>1, TailNonEmpty, Zenon
      <4> QED
        BY <2>2, <4>2, <4>3
    <3>2. CASE ~(Len(q) > 1)
      BY <1>5, <1>6, <3>2 DEF release_next
    <3> QED
      BY <3>1, <3>2
  <2> HIDE DEF s, q
  <2> QED
    BY <2>1, <2>2, <2>3 DEF TypeOK, ReleaseChunk, peer, history
<1>7. CASE pc' = Idle /\ UNCHANGED <<stream_acked_offset, stream_unacked>>
  <2> HIDE DEF s, q
  <2> QED
    BY <1>5, <1>7 DEF TypeOK, ReleaseChunk, peer, history
<1> QED
  BY <1>6, <1>7 DEF ReleaseChunk

LEMMA TypeStreamClosed ==
    ASSUME TypeOK, NEW s \in StreamIds, StreamClosed(s)
    PROVE  TypeOK'
<1>0. ng \in [StreamIds -> StreamRecord] /\ ng' = [ng EXCEPT ![s].st = "gone"]
  BY DEF TypeOK, StreamClosed
<1>1. ng' \in [StreamIds -> StreamRecord]
  BY <1>0 DEF StreamRecord, StreamState
<1>2. /\ stream_buffers' \in [StreamIds -> Seq(Buffer)]
      /\ stream_unacked' \in [StreamIds -> Seq(Chunk)]
      /\ stream_acked_offset' \in [StreamIds -> Nat]
  BY DEF TypeOK, StreamClosed
<1>3. pc' \in PC /\ pc'.at # "release"
  BY DEF TypeOK, StreamClosed, idle, Idle
<1> QED
  BY <1>1, <1>2, <1>3 DEF TypeOK, StreamClosed, peer, history

LEMMA TypeStopSending ==
    ASSUME TypeOK, NEW s \in StreamIds, StopSending(s)
    PROVE  TypeOK'
<1>1. ng' \in [StreamIds -> StreamRecord] /\ aborted' \in [StreamIds -> BOOLEAN]
  BY TypeShutdown DEF StopSending
<1> QED
  BY <1>1 DEF TypeOK, StopSending, peer, binding

LEMMA TypeMaxStreamData ==
    ASSUME TypeOK, NEW s \in StreamIds, MaxStreamData(s)
    PROVE  TypeOK'
<1>1. ng' = [ng EXCEPT ![s].max = Len(got[s]) + Window] /\ Len(got[s]) + Window \in Nat
  BY WindowAssumption DEF MaxStreamData, TypeOK
<1>2. ng' \in [StreamIds -> StreamRecord]
  BY <1>1, NgType DEF StreamRecord
<1> QED
  BY <1>2 DEF TypeOK, MaxStreamData, peer, binding, history

LEMMA TypeHandshakeCompleted == ASSUME TypeOK, HandshakeCompleted PROVE TypeOK'
<1>1. NoStream \in StreamRecord
  BY WindowAssumption DEF NoStream, StreamRecord, StreamState
<1>2. /\ ng' \in [StreamIds -> StreamRecord]
      /\ wrote' \in [StreamIds -> Nat]
      /\ finAt' \in [StreamIds -> Nat \cup {NoFin}]
      /\ aborted' \in [StreamIds -> BOOLEAN]
  <2>1. CASE early = "rejected"
    <3>1. /\ ng' = [s \in StreamIds |-> NoStream]
          /\ wrote' = [s \in StreamIds |-> 0]
          /\ finAt' = [s \in StreamIds |-> NoFin]
          /\ aborted' = [s \in StreamIds |-> FALSE]
      BY <2>1 DEF HandshakeCompleted
    <3>2. ng' \in [StreamIds -> StreamRecord]
      BY <1>1, <3>1
    <3>3. finAt' \in [StreamIds -> Nat \cup {NoFin}]
      BY <3>1
    <3> QED
      BY <3>1, <3>2, <3>3
  <2>2. CASE early # "rejected"
    BY <2>2 DEF HandshakeCompleted, TypeOK, history
  <2> QED
    BY <2>1, <2>2
<1> QED
  BY <1>2 DEF TypeOK, HandshakeCompleted, peer, binding

LEMMA TypeLose == ASSUME TypeOK, NEW f \in net, Lose(f) PROVE TypeOK'
<1>1. spent' \in [writes : Nat, datagrams : Nat, losses : Nat]
  BY SpentType DEF Lose
<1>2. net' \subseteq NetFrame
  BY DEF TypeOK, Lose
<1> QED
  BY <1>1, <1>2 DEF TypeOK, Lose, peer, binding, history

LEMMA TypePeerReset ==
    ASSUME TypeOK, NEW s \in StreamIds, PeerReset(s)
    PROVE  TypeOK'
<1>1. rst' \in [StreamIds -> BOOLEAN]
  BY DEF TypeOK, PeerReset
<1> QED
  BY <1>1 DEF TypeOK, PeerReset, binding, history

LEMMA TypeStutter == ASSUME TypeOK, UNCHANGED vars PROVE TypeOK'
  BY DEF TypeOK, vars, peer, binding, history

-----------------------------------------------------------------------------
(* What the peer puts together from the frames it has.                     *)

LEMMA AssembledShape ==
    ASSUME NEW s \in StreamIds, NEW fs \in SUBSET NetFrame, NEW b \in Nat,
           \A f \in fs : f.s = s => f.off + f.n <= b
    PROVE  LET a == Assembled(s, fs)
           IN  /\ a \in Seq(Nat \cup {Freed})
               /\ Len(a) <= b
               /\ \A i \in 1..Len(a) :
                     \E f \in fs : f.s = s /\ Covers(f, i - 1) /\ a[i] = ByteOf(f, i - 1)
               /\ \A f \in fs : f.s = s => ~Covers(f, Len(a))
<1> DEFINE mine == {f \in fs : f.s = s}
           E    == {0} \cup {f.off + f.n : f \in mine}
           end  == Max(E)
           G    == {i \in 0..end : \A f \in mine : ~Covers(f, i)}
           len  == Min(G)
<1>0. \A f \in mine : /\ f \in fs /\ f.s = s /\ f.off \in Nat /\ f.n \in Nat
                      /\ f.first \in Nat \cup {Freed} /\ f.off + f.n \in Nat
  BY DEF NetFrame
<1>1. E \subseteq Nat /\ 0 \in E /\ (\A y \in E : y <= b) /\ \A f \in mine : f.off + f.n \in E
  BY <1>0
<1>2. end \in Nat /\ end <= b /\ \A f \in mine : f.off + f.n <= end
  <2> HIDE DEF E, mine
  <2>1. Max(E) \in E /\ \A y \in E : Max(E) >= y
    BY <1>1, GreatestExists
  <2> QED
    BY <1>1, <2>1
<1> HIDE DEF end, E
<1>3. end \in G
  BY <1>0, <1>2 DEF Covers
<1>4. len \in G /\ \A y \in G : len <= y
  <2>1. G \subseteq Nat
    BY <1>2
  <2> HIDE DEF G
  <2> QED
    BY <1>3, <2>1, LeastExists
<1>5. len \in Nat /\ len <= b /\ \A f \in mine : ~Covers(f, len)
  BY <1>2, <1>4
<1>6. \A i \in 0..len - 1 : \E f \in mine : Covers(f, i)
  <2> SUFFICES ASSUME NEW i \in 0..len - 1, \A f \in mine : ~Covers(f, i)
               PROVE  FALSE
    OBVIOUS
  <2>1. i \in 0..end
    BY <1>2, <1>4
  <2>2. i \in G
    BY <2>1
  <2> QED
    BY <1>4, <1>5, <2>2
<1> DEFINE pick(i) == CHOOSE f \in mine : Covers(f, i - 1)
           a == [i \in 1..len |-> ByteOf(pick(i), i - 1)]
<1>7. Assembled(s, fs) = a
  BY Zenon DEF Assembled, end, E
<1> HIDE DEF len, G, mine
<1>8. \A i \in 1..len : /\ pick(i) \in mine /\ Covers(pick(i), i - 1)
                        /\ ByteOf(pick(i), i - 1) \in Nat \cup {Freed}
  <2> TAKE i \in 1..len
  <2>1. \E f \in mine : Covers(f, i - 1)
    BY <1>5, <1>6
  <2>2. pick(i) \in mine /\ Covers(pick(i), i - 1)
    BY <2>1, Zenon
  <2> HIDE DEF pick
  <2>3. ByteOf(pick(i), i - 1) \in Nat \cup {Freed}
    BY <1>0, <1>5, <2>2 DEF ByteOf, Covers
  <2> QED
    BY <2>2, <2>3
<1> HIDE DEF pick
<1>9. a \in Seq(Nat \cup {Freed}) /\ Len(a) = len /\ \A i \in 1..len : a[i] = ByteOf(pick(i), i - 1)
  BY <1>5, <1>8
<1> HIDE DEF a
<1>10. \A f \in fs : f.s = s => f \in mine
  BY DEF mine
<1> QED
  BY <1>0, <1>5, <1>7, <1>8, <1>9, <1>10

(* The peer is ahead of this end in giving up early data, never behind.    *)
LEMMA EraBound == TypeOK => era <= PeerEra /\ era \in {0, 1} /\ PeerEra \in {0, 1}
  BY DEF era, PeerEra

LEMMA PeerFrames ==
    ASSUME TypeOK, Carried, NEW f \in net \cup rcvd, f.era = PeerEra
    PROVE  /\ f \in NetFrame /\ f.s \in StreamIds /\ era = PeerEra
           /\ f.n > 0 => f.first = f.off
           /\ f.off + f.n <= ng[f.s].tx
           /\ f.fin => f.off + f.n = finAt[f.s]
<1>1. f \in NetFrame /\ f.s \in StreamIds
  BY DEF TypeOK, NetFrame
<1>2. f.era <= era
  BY DEF Carried
<1>3. era = PeerEra
  BY <1>2, EraBound
<1> QED
  BY <1>1, <1>3 DEF Carried

(* The step of the peer that takes a frame it does not have yet.           *)
LEMMA PeerReceiveStep ==
    ASSUME TypeOK, Carried, NEW f \in net, PeerReceive(f)
    PROVE  /\ f \in NetFrame /\ f.s \in StreamIds /\ era = PeerEra
           /\ \A g \in rcvd \cup {f} : /\ g \in NetFrame
                                       /\ g.n > 0 => g.first = g.off
                                       /\ g.off + g.n <= ng[g.s].tx
                                       /\ g.fin => g.off + g.n = finAt[g.s]
<1>1. f.era = PeerEra /\ \A g \in rcvd : g.era = PeerEra
  BY DEF PeerReceive, Carried
<1> QED
  BY <1>1, PeerFrames

LEMMA TypePeerReceive ==
    ASSUME TypeOK, Carried, NEW f \in net, PeerReceive(f)
    PROVE  TypeOK'
<1> DEFINE s == f.s
           fs == rcvd \cup {f}
<1>1. s \in StreamIds /\ fs \in SUBSET NetFrame /\ \A g \in fs : g.s = s => g.off + g.n <= ng[s].tx
  <2>1. /\ f \in NetFrame /\ f.s \in StreamIds /\ era = PeerEra
        /\ \A g \in rcvd \cup {f} : /\ g \in NetFrame
                                    /\ g.n > 0 => g.first = g.off
                                    /\ g.off + g.n <= ng[g.s].tx
                                    /\ g.fin => g.off + g.n = finAt[g.s]
    BY PeerReceiveStep, Zenon
  <2> QED
    BY <2>1
<1>2. ng[s].tx \in Nat
  BY <1>1, NgType
<1>3. Assembled(s, fs) \in Seq(Nat \cup {Freed})
  BY <1>1, <1>2, AssembledShape
<1>4. net' \subseteq NetFrame
  BY DEF TypeOK, PeerReceive
<1>5. CASE UNCHANGED peer
  BY <1>4, <1>5 DEF TypeOK, PeerReceive, binding, history, peer
<1>6. CASE ~UNCHANGED peer
  <2>1. /\ rcvd' = fs
        /\ got' = [got EXCEPT ![s] = Assembled(s, fs)]
        /\ rst' = rst
    BY <1>6 DEF PeerReceive
  <2>2. \E x \in BOOLEAN : eof' = [eof EXCEPT ![s] = x]
    <3>1. eof' = [eof EXCEPT ![s] = \E g \in fs : /\ g.s = s
                                                  /\ g.fin
                                                  /\ g.off + g.n = Len(Assembled(s, fs))]
      BY <1>6 DEF PeerReceive
    <3> QED
      BY <3>1, Zenon
  <2> HIDE DEF s, fs
  <2>3. rcvd' \subseteq NetFrame
    BY <1>1, <2>1
  <2>4. got' \in [StreamIds -> Seq(Nat \cup {Freed})]
    BY <1>1, <1>3, <2>1 DEF TypeOK
  <2>5. eof' \in [StreamIds -> BOOLEAN]
    BY <1>1, <2>2 DEF TypeOK
  <2> QED
    BY <1>4, <2>1, <2>3, <2>4, <2>5 DEF TypeOK, PeerReceive, binding, history
<1> QED
  BY <1>5, <1>6

-----------------------------------------------------------------------------
(* What each part of the invariant depends on.                             *)

(* A step other than the one that finds early data rejected.               *)
SameEra == early' = early /\ era' = era

LEMMA EraKept == SameEra => era' = era /\ PeerEra' = PeerEra
  BY DEF SameEra, PeerEra

LEMMA RetainedKept ==
    ASSUME NEW t \in StreamIds, Retained(t), SameEra,
           stream_unacked'[t] = stream_unacked[t], ng'[t].tx = ng[t].tx
    PROVE  Retained(t)'
  BY EraKept DEF Retained

LEMMA AlignedKept ==
    ASSUME NEW t \in StreamIds, Aligned(t), SameEra,
           stream_unacked'[t] = stream_unacked[t],
           stream_acked_offset'[t] = stream_acked_offset[t],
           ng'[t].tx = ng[t].tx, ng[t].st = "gone" <=> ng'[t].st = "gone"
    PROVE  Aligned(t)'
  BY EraKept DEF Aligned, AtMost, SameEra

LEMMA OutstandingKept ==
    ASSUME TypeOK, NEW t \in StreamIds, Outstanding(t), SameEra,
           stream_unacked'[t] = stream_unacked[t],
           ng'[t].tx = ng[t].tx, ng'[t].una \subseteq ng[t].una,
           finAt[t] # NoFin => finAt'[t] = finAt[t]
    PROVE  Outstanding(t)'
<1>1. \A f \in ng[t].una : f.off + f.n \in Nat /\ f.off + f.n # NoFin
  <2>1. ng[t].una \subseteq Frame
    BY NgType
  <2> QED
    BY <2>1 DEF Frame, NoFin
<1> QED
  BY <1>1, EraKept DEF Outstanding

LEMMA FreeableKept ==
    ASSUME NEW t \in StreamIds, Freeable(t), SameEra,
           stream_unacked'[t] = stream_unacked[t],
           ng'[t].tx = ng[t].tx, ng'[t].base = ng[t].base,
           pc.at = "release" /\ pc.s = t => pc'.at = "release" /\ pc'.s = t
    PROVE  Freeable(t)'
  BY DEF Freeable, SameEra

LEMMA QueuedKept ==
    ASSUME NEW t \in StreamIds, Queued(t),
           ng'[t].st = "open" => /\ ng[t].st = "open" /\ ng'[t].tx = ng[t].tx
                                 /\ stream_buffers'[t] = stream_buffers[t]
                                 /\ wrote'[t] = wrote[t] /\ finAt'[t] = finAt[t]
    PROVE  Queued(t)'
  BY DEF Queued, Live

LEMMA WrittenKept ==
    ASSUME NEW t \in StreamIds, Written(t),
           ng'[t].st = ng[t].st, ng'[t].tx = ng[t].tx, ng'[t].una = ng[t].una,
           ng'[t].base = ng[t].base,
           wrote'[t] = wrote[t], finAt'[t] = finAt[t], aborted'[t] = aborted[t]
    PROVE  Written(t)'
  BY DEF Written

LEMMA DeliveredKept ==
    ASSUME NEW t \in StreamIds, Delivered(t), UNCHANGED <<rcvd, got, eof>>
    PROVE  Delivered(t)'
  BY DEF Delivered, Covers

LEMMA CarriedKept ==
    ASSUME TypeOK, Carried, SameEra, net' \cup rcvd' \subseteq net \cup rcvd,
           \A f \in rcvd' : f.era = PeerEra,
           \A t \in StreamIds : /\ ng'[t].tx \in Nat /\ ng[t].tx <= ng'[t].tx
                                /\ finAt[t] # NoFin => finAt'[t] = finAt[t]
    PROVE  Carried'
<1>1. \A f \in net \cup rcvd : /\ f.s \in StreamIds /\ f.off + f.n \in Nat /\ f.off + f.n # NoFin
                               /\ ng[f.s].tx \in Nat
  <2>1. \A f \in net \cup rcvd : f.s \in StreamIds /\ f.off \in Nat /\ f.n \in Nat
    BY DEF TypeOK, NetFrame
  <2> QED
    BY <2>1, NgType DEF NoFin
<1>2. era' = era /\ PeerEra' = PeerEra
  BY EraKept
<1> QED
  BY <1>1, <1>2 DEF Carried

LEMMA ReleasingIdle == pc'.at # "release" => Releasing'
  BY DEF Releasing

-----------------------------------------------------------------------------
(* Every step keeps the invariant.                                         *)

LEMMA InvInit == Init => Inv
<1> SUFFICES ASSUME Init PROVE Inv
  OBVIOUS
<1>1. era = 0 /\ pc.at # "release" /\ net = {} /\ rcvd = {}
  BY DEF Init, era, Idle
<1>2. ASSUME NEW s \in StreamIds
      PROVE  Sound(s)
  <2>1. /\ stream_buffers[s] = <<>> /\ stream_unacked[s] = <<>> /\ stream_acked_offset[s] = 0
        /\ ng[s] = NoStream /\ got[s] = <<>> /\ eof[s] = FALSE /\ wrote[s] = 0
        /\ finAt[s] = NoFin /\ aborted[s] = FALSE
    BY DEF Init
  <2>2. /\ ng[s].st = "none" /\ ng[s].tx = 0 /\ ng[s].una = {} /\ ng[s].base = 0
    BY <2>1 DEF NoStream
  <2>3. Retained(s) /\ Aligned(s) /\ Outstanding(s) /\ Freeable(s)
    BY <2>1, <2>2 DEF Retained, Aligned, AtMost, Outstanding, Freeable
  <2>4. Queued(s) /\ Written(s) /\ Delivered(s)
    BY <1>1, <2>1, <2>2 DEF Queued, Written, Delivered
  <2> QED
    BY <2>3, <2>4 DEF Sound
<1> QED
  BY <1>1, <1>2 DEF Inv, Releasing, Carried

(* A step that leaves stream t alone.                                      *)
LEMMA Elsewhere ==
    ASSUME TypeOK, Inv, SameEra, NEW t \in StreamIds,
           ng'[t] = ng[t], stream_buffers'[t] = stream_buffers[t],
           stream_unacked'[t] = stream_unacked[t],
           stream_acked_offset'[t] = stream_acked_offset[t],
           wrote'[t] = wrote[t], finAt'[t] = finAt[t], aborted'[t] = aborted[t],
           UNCHANGED <<rcvd, got, eof>>,
           pc.at = "release" /\ pc.s = t => pc'.at = "release" /\ pc'.s = t
    PROVE  Sound(t)'
<1>1. Retained(t) /\ Aligned(t) /\ Outstanding(t) /\ Freeable(t) /\ Queued(t)
      /\ Written(t) /\ Delivered(t)
  BY DEF Inv, Sound
<1>2. Retained(t)' /\ Aligned(t)'
  BY <1>1, RetainedKept, AlignedKept
<1>3. Outstanding(t)' /\ Freeable(t)'
  BY <1>1, OutstandingKept, FreeableKept
<1>4. Queued(t)' /\ Written(t)' /\ Delivered(t)'
  BY <1>1, QueuedKept, WrittenKept, DeliveredKept
<1> QED
  BY <1>2, <1>3, <1>4 DEF Sound

(* A step that leaves the streams and the network alone.                   *)
LEMMA QuietStep ==
    ASSUME TypeOK, Inv, SameEra, UNCHANGED <<binding, ng, net, rcvd, got, eof, history>>,
           pc' = pc \/ (pc.at # "release" /\ pc'.at # "release")
    PROVE  Inv'
<1>1. UNCHANGED <<stream_buffers, stream_unacked, stream_acked_offset, wrote, finAt, aborted>>
  BY DEF binding, history
<1>2. ASSUME NEW t \in StreamIds
      PROVE  Sound(t)'
  BY <1>1, Elsewhere
<1>3. Carried'
  <2>1. Carried /\ \A f \in rcvd : f.era = PeerEra
    BY DEF Inv, Carried
  <2>2. \A t \in StreamIds : ng[t].tx \in Nat
    BY NgType
  <2> QED
    BY <1>1, <2>1, <2>2, CarriedKept
<1>4. Releasing'
  BY DEF Inv, Releasing
<1> QED
  BY <1>2, <1>3, <1>4 DEF Inv

LEMMA InvQuiet ==
    ASSUME TypeOK, Inv,
           \/ \E k \in DatagramKinds : send_datagram(k)
           \/ SendCall \/ DropDatagram \/ SendDone
           \/ \E s \in StreamIds : NoRoom(s) \/ PeerReset(s)
           \/ \E full \in BOOLEAN : WriteDatagram(full)
           \/ UNCHANGED vars
    PROVE  Inv'
<1>0. Idle.at # "release" /\ \A todo : Streams(todo).at # "release"
  BY DEF Idle, Streams
<1>1. CASE \E k \in DatagramKinds : send_datagram(k)
  BY <1>0, <1>1, QuietStep DEF send_datagram, idle, SameEra, era, peer
<1>2. CASE SendCall
  BY <1>0, <1>2, QuietStep DEF SendCall, idle, SameEra, era, peer
<1>3. CASE DropDatagram
  BY <1>0, <1>3, QuietStep DEF DropDatagram, InDatagrams, SameEra, era, peer
<1>4. CASE SendDone
  BY <1>0, <1>4, QuietStep DEF SendDone, InDatagrams, SameEra, era, peer
<1>5. ASSUME NEW s \in StreamIds, NoRoom(s) PROVE Inv'
  BY <1>0, <1>5, QuietStep DEF NoRoom, Turn, NextStream, SameEra, era, peer
<1>6. ASSUME NEW s \in StreamIds, PeerReset(s) PROVE Inv'
  BY <1>0, <1>6, QuietStep DEF PeerReset, idle, SameEra, era
<1>7. CASE \E full \in BOOLEAN : WriteDatagram(full)
  BY <1>0, <1>7, QuietStep DEF WriteDatagram, InDatagrams, SameEra, era, peer
<1>8. CASE UNCHANGED vars
  <2>1. SameEra /\ UNCHANGED <<binding, ng, net, rcvd, got, eof, history>> /\ pc' = pc
    BY <1>8 DEF vars, SameEra, era, peer
  <2> QED
    BY <2>1, QuietStep, Zenon
<1> QED
  BY <1>1, <1>2, <1>3, <1>4, <1>5, <1>6, <1>7, <1>8

(* A step that changes one stream and takes nothing off the network.       *)
LEMMA StreamStep ==
    ASSUME TypeOK, Inv, SameEra, NEW s \in StreamIds,
           NEW r \in StreamRecord, ng' = [ng EXCEPT ![s] = r], ng[s].tx <= r.tx,
           \A t \in StreamIds \ {s} :
              /\ stream_buffers'[t] = stream_buffers[t]
              /\ stream_unacked'[t] = stream_unacked[t]
              /\ stream_acked_offset'[t] = stream_acked_offset[t]
              /\ wrote'[t] = wrote[t] /\ finAt'[t] = finAt[t] /\ aborted'[t] = aborted[t],
           finAt[s] # NoFin => finAt'[s] = finAt[s],
           UNCHANGED <<net, rcvd, got, eof>>,
           pc.at # "release", pc'.at # "release", Sound(s)'
    PROVE  Inv'
<1>1. ng'[s] = r /\ \A t \in StreamIds \ {s} : ng'[t] = ng[t]
  BY NgType
<1>2. ASSUME NEW t \in StreamIds \ {s} PROVE Sound(t)'
  BY <1>1, Elsewhere
<1>3. Carried'
  <2>1. Carried /\ \A f \in rcvd : f.era = PeerEra
    BY DEF Inv, Carried
  <2>2. \A t \in StreamIds : ng[t].tx \in Nat /\ ng'[t].tx \in Nat /\ ng[t].tx <= ng'[t].tx
    <3>1. r.tx \in Nat
      BY DEF StreamRecord
    <3> QED
      BY <1>1, <3>1, NgType
  <2> QED
    BY <2>1, <2>2, CarriedKept
<1> QED
  BY <1>2, <1>3, ReleasingIdle DEF Inv

(* The invariant, part by part.                                            *)
LEMMA SoundParts ==
    ASSUME Inv, NEW s \in StreamIds
    PROVE  Retained(s) /\ Aligned(s) /\ Outstanding(s) /\ Freeable(s) /\ Queued(s)
           /\ Written(s) /\ Delivered(s)
  BY DEF Inv, Sound

LEMMA InvOpenStream ==
    ASSUME TypeOK, Inv, NEW s \in StreamIds, open_stream(s)
    PROVE  Inv'
<1> DEFINE r == [ng[s] EXCEPT !.st = "open"]
<1>1. /\ r \in StreamRecord /\ r.st = "open" /\ r.tx = ng[s].tx /\ r.una = ng[s].una
      /\ r.base = ng[s].base
  BY NgType DEF StreamRecord, StreamState
<1>2. ng' = [ng EXCEPT ![s] = r] /\ ng[s].st = "none"
  BY NgType DEF open_stream
<1>3. /\ pc.at # "release" /\ pc'.at # "release" /\ SameEra
      /\ UNCHANGED <<net, rcvd, got, eof, stream_unacked, stream_acked_offset, wrote, finAt, aborted>>
      /\ stream_buffers' = [stream_buffers EXCEPT ![s] = <<>>]
  BY DEF open_stream, idle, Idle, SameEra, era, peer, history
<1>4. /\ stream_buffers'[s] = <<>> /\ ng'[s] = r
      /\ \A t \in StreamIds \ {s} : stream_buffers'[t] = stream_buffers[t]
  BY <1>2, <1>3, NgType DEF TypeOK
<1>5. ng[s].tx <= r.tx
  BY <1>1, NgType
<1> HIDE DEF r
<1>6. Sound(s)'
  <2>1. Retained(s)' /\ Aligned(s)'
    BY <1>1, <1>2, <1>3, <1>4, SoundParts, RetainedKept, AlignedKept
  <2>2. Outstanding(s)' /\ Freeable(s)'
    BY <1>1, <1>2, <1>3, <1>4, SoundParts, OutstandingKept, FreeableKept
  <2>3. Delivered(s)'
    BY <1>3, SoundParts, DeliveredKept
  <2>4. Written(s)
    BY SoundParts
  <2>5. Written(s)'
    BY <1>1, <1>2, <1>3, <1>4, <2>4 DEF Written
  <2>6. Queued(s)'
    BY <1>1, <1>2, <1>3, <1>4, <2>4 DEF Written, Queued
  <2> QED
    BY <2>1, <2>2, <2>3, <2>5, <2>6 DEF Sound
<1> QED
  BY <1>1, <1>2, <1>3, <1>4, <1>5, <1>6, StreamStep

(* A write to an open stream that has not ended goes to the end of its     *)
(* queue and continues what is there.                                      *)
LEMMA QueuedGrows ==
    ASSUME TypeOK, NEW s \in StreamIds, NEW n \in Nat, NEW f \in BOOLEAN,
           Queued(s), Written(s), ng' = ng,
           stream_buffers'[s] = Append(stream_buffers[s], [first |-> wrote[s], n |-> n, fin |-> f]),
           IF ng[s].st = "open" /\ finAt[s] = NoFin
           THEN wrote'[s] = wrote[s] + n /\ finAt'[s] = (IF f THEN wrote[s] + n ELSE finAt[s])
           ELSE wrote'[s] = wrote[s] /\ finAt'[s] = finAt[s]
    PROVE  Queued(s)'
<1> DEFINE b == stream_buffers[s]
           x == [first |-> wrote[s], n |-> n, fin |-> f]
           c == Append(b, x)
           L == Len(b)
<1> SUFFICES ASSUME ng[s].st = "open" PROVE Queued(s)'
  BY DEF Queued
<1>1. /\ b \in Seq(Buffer) /\ wrote[s] \in Nat /\ ng[s].tx \in Nat
      /\ finAt[s] \in Nat \cup {NoFin}
  BY NgType DEF TypeOK
<1>2. x.first = wrote[s] /\ x.n = n /\ x.fin = f
  OBVIOUS
<1> HIDE DEF x
<1>3. /\ L \in Nat /\ Len(c) = L + 1 /\ (\A i \in 1..L : c[i] = b[i]) /\ c[L + 1] = x
      /\ c # <<>> /\ (b # <<>> <=> L > 0) /\ c = stream_buffers'[s]
  <2>1. x \in Buffer
    BY <1>1 DEF x, Buffer
  <2>2. L \in Nat /\ Len(c) = L + 1 /\ (\A i \in 1..L : c[i] = b[i]) /\ c[L + 1] = x
    BY <1>1, <2>1
  <2>3. c # <<>> /\ (b # <<>> <=> L > 0)
    BY <1>1, <2>1
  <2> QED
    BY <2>2, <2>3, Zenon DEF x
<1>4. \A i \in 1..L : b[i].first \in Nat /\ b[i].n \in Nat /\ b[i].fin \in BOOLEAN
  <2>1. \A i \in 1..L : b[i] \in Buffer
    BY <1>1
  <2> QED
    BY <2>1 DEF Buffer
<1>5. /\ IF b = <<>> THEN ng[s].tx = wrote[s] /\ finAt[s] = NoFin
                     ELSE b[1].first = ng[s].tx
      /\ \A i \in 1..L :
            Live(b, i) =>
                /\ b[i].first + b[i].n <= wrote[s]
                /\ b[i].fin => b[i].first + b[i].n = finAt[s]
                /\ ~b[i].fin /\ i = L => b[i].first + b[i].n = wrote[s]
                /\ ~b[i].fin /\ i < L => b[i + 1].first = b[i].first + b[i].n
      /\ IF finAt[s] = NoFin THEN \A i \in 1..L : ~b[i].fin
                             ELSE \E i \in 1..L : b[i].fin
  BY DEF Queued
<1> HIDE DEF b, c, L
<1>6. c[1].first = ng[s].tx
  BY <1>1, <1>2, <1>3, <1>5
<1>7. \A i \in 1..L : Live(c, i) <=> Live(b, i)
  <2>1. \A i \in 1..L : \A j \in 1..i - 1 : c[j] = b[j]
    BY <1>3
  <2> QED
    BY <2>1 DEF Live
<1>8. CASE finAt[s] = NoFin
  <2>1. wrote'[s] = wrote[s] + n /\ finAt'[s] = IF f THEN wrote[s] + n ELSE NoFin
    BY <1>8
  <2>2. \A i \in 1..L : Live(b, i) /\ ~b[i].fin
    BY <1>3, <1>5, <1>8 DEF Live
  <2>3. \A i \in 1..L : /\ c[i].first + c[i].n <= wrote'[s] /\ ~c[i].fin
                        /\ c[i + 1].first = c[i].first + c[i].n
    <3> TAKE i \in 1..L
    <3>1. c[i] = b[i] /\ b[i].first + b[i].n <= wrote[s] /\ ~b[i].fin
      BY <1>3, <1>5, <2>2
    <3>2. CASE i = L
      <4>1. b[i].first + b[i].n = wrote[s] /\ c[i + 1] = x
        BY <1>3, <1>5, <2>2, <3>2
      <4> QED
        BY <1>1, <1>2, <2>1, <3>1, <4>1
    <3>3. CASE i < L
      <4>1. i + 1 \in 1..L /\ c[i + 1] = b[i + 1]
        BY <1>3, <3>3
      <4>2. b[i + 1].first = b[i].first + b[i].n
        BY <1>5, <2>2, <3>1, <3>3
      <4>3. b[i].first + b[i].n \in Nat /\ wrote[s] \in Nat
        <5>1. b[i].first \in Nat /\ b[i].n \in Nat
          BY <1>4, Zenon
        <5>2. \A j, k \in Nat : j + k \in Nat
          OBVIOUS
        <5> QED
          BY <5>1, <5>2, <1>1, Zenon
      <4> QED
        BY <1>1, <2>1, <3>1, <4>1, <4>2, <4>3
    <3> QED
      BY <1>3, <3>2, <3>3
  <2>4. /\ c[L + 1].first + c[L + 1].n = wrote'[s]
        /\ c[L + 1].fin => c[L + 1].first + c[L + 1].n = finAt'[s]
        /\ c[L + 1].fin = f
    BY <1>2, <1>3, <2>1
  <2>5. \A i \in 1..L + 1 : i \in 1..L \/ i = L + 1
    BY <1>3
  <2>6. IF finAt'[s] = NoFin THEN \A i \in 1..L + 1 : ~c[i].fin
                             ELSE \E i \in 1..L + 1 : c[i].fin
    <3>1. CASE f
      <4>1. finAt'[s] # NoFin
        BY <1>1, <2>1, <3>1 DEF NoFin
      <4>2. L + 1 \in 1..L + 1 /\ c[L + 1].fin
        BY <1>3, <2>4, <3>1
      <4> QED
        BY <4>1, <4>2
    <3>2. CASE ~f
      BY <2>1, <2>3, <2>4, <2>5, <3>2
    <3> QED
      BY <3>1, <3>2
  <2>7. \A i \in 1..L + 1 :
            /\ c[i].first + c[i].n <= wrote'[s]
            /\ c[i].fin => c[i].first + c[i].n = finAt'[s]
            /\ ~c[i].fin /\ i = L + 1 => c[i].first + c[i].n = wrote'[s]
            /\ ~c[i].fin /\ i < L + 1 => c[i + 1].first = c[i].first + c[i].n
    <3>1. wrote'[s] \in Nat
      BY <1>1, <2>1
    <3> TAKE i \in 1..L + 1
    <3>2. CASE i \in 1..L
      BY <1>3, <2>3, <3>2, SMTT(60)
    <3>3. CASE i = L + 1
      BY <1>3, <2>4, <3>1, <3>3
    <3> QED
      BY <2>5, <3>2, <3>3
  <2> QED
    BY <1>3, <1>6, <2>6, <2>7 DEF Queued
<1>9. CASE finAt[s] # NoFin
  <2>1. wrote'[s] = wrote[s] /\ finAt'[s] = finAt[s]
    BY <1>9
  <2>2. PICK j \in 1..L : b[j].fin
    BY <1>5, <1>9
  <2>3. ~Live(c, L + 1) /\ (Live(b, L) => b[L].fin)
    <3>1. j \in 1..(L + 1) - 1 /\ c[j].fin
      BY <1>3, <2>2
    <3>2. ASSUME Live(b, L) PROVE b[L].fin
      <4>1. \A i \in 1..L - 1 : ~b[i].fin
        BY <3>2 DEF Live
      <4>2. j = L
        BY <1>3, <2>2, <4>1
      <4> QED
        BY <2>2, <4>2
    <3> QED
      BY <3>1, <3>2 DEF Live
  <2>4. \A i \in 1..L + 1 : i \in 1..L \/ i = L + 1
    BY <1>3
  <2>5. \A i \in 1..L + 1 :
           Live(c, i) =>
            /\ i \in 1..L
            /\ c[i].first + c[i].n <= wrote[s]
            /\ c[i].fin => c[i].first + c[i].n = finAt[s]
            /\ ~c[i].fin => i < L /\ c[i + 1].first = c[i].first + c[i].n
    <3> SUFFICES ASSUME NEW i \in 1..L + 1, Live(c, i)
                 PROVE  /\ i \in 1..L
                        /\ c[i].first + c[i].n <= wrote[s]
                        /\ c[i].fin => c[i].first + c[i].n = finAt[s]
                        /\ ~c[i].fin => i < L /\ c[i + 1].first = c[i].first + c[i].n
      BY Zenon
    <3>1. i \in 1..L /\ Live(b, i) /\ c[i] = b[i]
      BY <1>3, <1>7, <2>3, <2>4
    <3>2. ~b[i].fin => i < L
      BY <1>3, <2>3, <3>1
    <3>3. i < L => c[i + 1] = b[i + 1]
      BY <1>3, <3>1
    <3> QED
      BY <1>5, <3>1, <3>2, <3>3
  <2>6. \E i \in 1..L + 1 : c[i].fin
    <3>1. PICK i \in 1..L : b[i].fin
      BY <2>2
    <3>2. i \in 1..L + 1 /\ c[i].fin
      BY <1>3, <3>1
    <3> QED
      BY <3>2
  <2> QED
    BY <1>3, <1>6, <1>9, <2>1, <2>5, <2>6 DEF Queued
<1> QED
  BY <1>8, <1>9

LEMMA InvSendStreamData ==
    ASSUME TypeOK, Inv, NEW s \in StreamIds, NEW n \in WriteSizes, NEW f \in BOOLEAN,
           send_stream_data(s, n, f)
    PROVE  Inv'
<1> DEFINE x == [first |-> wrote[s], n |-> n, fin |-> f]
<1>1. n \in Nat /\ wrote \in [StreamIds -> Nat] /\ finAt \in [StreamIds -> Nat \cup {NoFin}]
  BY SizeAssumption DEF TypeOK
<1>2. /\ pc.at # "release" /\ pc'.at # "release" /\ SameEra
      /\ UNCHANGED <<net, rcvd, got, eof, stream_unacked, stream_acked_offset, ng, aborted>>
      /\ stream_buffers' = [stream_buffers EXCEPT ![s] = Append(@, x)]
  BY DEF send_stream_data, idle, Idle, SameEra, era, peer
<1>3. /\ stream_buffers'[s] = Append(stream_buffers[s], x)
      /\ \A t \in StreamIds \ {s} : stream_buffers'[t] = stream_buffers[t]
  BY <1>2 DEF TypeOK
<1>4. /\ IF ng[s].st = "open" /\ finAt[s] = NoFin
         THEN wrote'[s] = wrote[s] + n /\ finAt'[s] = (IF f THEN wrote[s] + n ELSE finAt[s])
         ELSE wrote'[s] = wrote[s] /\ finAt'[s] = finAt[s]
      /\ \A t \in StreamIds \ {s} : wrote'[t] = wrote[t] /\ finAt'[t] = finAt[t]
  BY <1>1 DEF send_stream_data
<1>5. ng' = [ng EXCEPT ![s] = ng[s]] /\ ng[s] \in StreamRecord /\ ng[s].tx \in Nat
      /\ ng[s].tx <= ng[s].tx
  BY <1>2, NgType
<1>6. Sound(s)'
  <2>1. Retained(s)' /\ Aligned(s)'
    BY <1>2, SoundParts, RetainedKept, AlignedKept
  <2>2. Outstanding(s)' /\ Freeable(s)'
    BY <1>2, <1>4, SoundParts, OutstandingKept, FreeableKept
  <2>3. Delivered(s)'
    BY <1>2, SoundParts, DeliveredKept
  <2>4. Written(s) /\ Queued(s)
    BY SoundParts
  <2>5. Written(s)'
    BY <1>1, <1>2, <1>4, <1>5, <2>4 DEF Written
  <2>6. Queued(s)'
    BY <1>1, <1>2, <1>3, <1>4, <2>4, QueuedGrows
  <2> QED
    BY <2>1, <2>2, <2>3, <2>5, <2>6 DEF Sound
<1> QED
  BY <1>2, <1>3, <1>4, <1>5, <1>6, StreamStep

(* A step that takes stream s out of use for writes, or finds it so: the   *)
(* queue may go, and ngtcp2 may forget frames, but the chunks stay.        *)
LEMMA GivenUp ==
    ASSUME TypeOK, Inv, SameEra, NEW s \in StreamIds, NEW r \in StreamRecord,
           ng' = [ng EXCEPT ![s] = r],
           r.tx = ng[s].tx, r.base = ng[s].base, r.una \subseteq ng[s].una,
           ng[s].st # "open" => r = ng[s] \/ aborted'[s],
           r.st \notin {"open", "gone"}, ng[s].st # "gone",
           r.st = "none" => r = ng[s] /\ aborted'[s] = aborted[s],
           r.st = "shut" => r = ng[s],
           \A t \in StreamIds \ {s} :
              stream_buffers'[t] = stream_buffers[t] /\ aborted'[t] = aborted[t],
           UNCHANGED <<net, rcvd, got, eof, stream_unacked, stream_acked_offset, wrote, finAt>>,
           pc.at # "release", pc'.at # "release"
    PROVE  Inv'
<1>1. ng'[s] = r
  BY NgType
<1>2. Sound(s)'
  <2>1. Retained(s)' /\ Aligned(s)'
    BY <1>1, SoundParts, RetainedKept, AlignedKept
  <2>2. Outstanding(s)' /\ Freeable(s)'
    BY <1>1, SoundParts, OutstandingKept, FreeableKept
  <2>3. Delivered(s)'
    BY SoundParts, DeliveredKept
  <2>4. Written(s) /\ Queued(s)
    BY SoundParts
  <2>5. Written(s)'
    BY <1>1, <2>4 DEF Written
  <2>6. Queued(s)'
    BY <1>1, <2>4, QueuedKept
  <2> QED
    BY <2>1, <2>2, <2>3, <2>5, <2>6 DEF Sound
<1>3. ng[s].tx <= r.tx
  BY NgType
<1> QED
  BY <1>1, <1>2, <1>3, StreamStep

LEMMA InvResetStream ==
    ASSUME TypeOK, Inv, NEW s \in StreamIds, reset_stream(s)
    PROVE  Inv'
<1>1. /\ pc.at # "release" /\ pc'.at # "release" /\ SameEra /\ ng[s].st # "none"
      /\ UNCHANGED <<net, rcvd, got, eof, stream_unacked, stream_acked_offset, wrote, finAt>>
  BY DEF reset_stream, idle, Idle, SameEra, era, peer
<1>2. /\ aborted'[s]
      /\ \A t \in StreamIds \ {s} :
            stream_buffers'[t] = stream_buffers[t] /\ aborted'[t] = aborted[t]
  BY DEF TypeOK, reset_stream
<1>3. CASE ng[s].st \in {"open", "shut"}
  <2> DEFINE r == [ng[s] EXCEPT !.st = "flush"]
  <2>1. /\ r \in StreamRecord /\ r.st = "flush" /\ r.tx = ng[s].tx /\ r.una = ng[s].una
        /\ r.base = ng[s].base
    BY NgType DEF StreamRecord, StreamState
  <2>2. ng' = [ng EXCEPT ![s] = r]
    <3>1. ng' = [ng EXCEPT ![s].st = "flush"]
      BY <1>3, Zenon DEF reset_stream
    <3> QED
      BY <3>1, NgType
  <2> HIDE DEF r
  <2> QED
    <3>1. /\ r.una \subseteq ng[s].una
          /\ ng[s].st # "open" => r = ng[s] \/ aborted'[s]
          /\ r.st \notin {"open", "gone"} /\ ng[s].st # "gone"
          /\ r.st = "none" => r = ng[s] /\ aborted'[s] = aborted[s]
          /\ r.st = "shut" => r = ng[s]
      BY <1>1, <1>2, <1>3, <2>1
    <3> QED
      BY <1>1, <1>2, <2>1, <2>2, <3>1, GivenUp
<1>4. CASE ng[s].st \notin {"open", "shut"}
  <2>1. ng' = [ng EXCEPT ![s] = ng[s]] /\ ng[s] \in StreamRecord /\ ng[s].tx <= ng[s].tx /\ ng' = ng
    <3>1. ng' = [ng EXCEPT ![s].st = ng[s].st]
      BY <1>4, Zenon DEF reset_stream
    <3>2. ng[s] = [ng[s] EXCEPT !.st = ng[s].st]
      BY NgType DEF StreamRecord
    <3>3. ng' = ng
      BY <3>1, <3>2, NgType
    <3> QED
      BY <3>3, NgType
  <2>2. Sound(s)'
    <3>1. Retained(s)' /\ Aligned(s)'
      BY <1>1, <2>1, SoundParts, RetainedKept, AlignedKept
    <3>2. Outstanding(s)' /\ Freeable(s)'
      BY <1>1, <2>1, SoundParts, OutstandingKept, FreeableKept
    <3>3. Delivered(s)' /\ Queued(s)'
      BY <1>1, <1>4, <2>1, SoundParts, DeliveredKept, QueuedKept
    <3>4. Written(s)
      BY SoundParts
    <3>5. Written(s)'
      BY <1>1, <1>4, <2>1, <3>4 DEF Written
    <3> QED
      BY <3>1, <3>2, <3>3, <3>5 DEF Sound
  <2> QED
    BY <1>1, <1>2, <2>1, <2>2, StreamStep
<1> QED
  BY <1>3, <1>4

LEMMA InvShutdown ==
    ASSUME TypeOK, Inv, SameEra, NEW s \in StreamIds, Shutdown(s),
           ng[s].st \in {"open", "shut", "flush"},
           \A t \in StreamIds \ {s} : stream_buffers'[t] = stream_buffers[t],
           UNCHANGED <<net, rcvd, got, eof, stream_unacked, stream_acked_offset, wrote, finAt>>,
           pc.at # "release", pc'.at # "release"
    PROVE  Inv'
<1> DEFINE r == [ng[s] EXCEPT !.st = "cut", !.una = {}]
<1>1. /\ r \in StreamRecord /\ r.st = "cut" /\ r.tx = ng[s].tx /\ r.una = {}
      /\ r.base = ng[s].base
  BY NgType DEF StreamRecord, StreamState
<1>2. ng' = [ng EXCEPT ![s] = r]
  BY NgType DEF Shutdown
<1>3. aborted'[s] /\ \A t \in StreamIds \ {s} : aborted'[t] = aborted[t]
  BY DEF Shutdown, TypeOK
<1> HIDE DEF r
<1> QED
  BY <1>1, <1>2, <1>3, GivenUp

LEMMA InvCloseStream ==
    ASSUME TypeOK, Inv, NEW s \in StreamIds, close_stream(s)
    PROVE  Inv'
<1>1. /\ pc.at # "release" /\ pc'.at # "release" /\ SameEra
      /\ ng[s].st \in {"open", "shut", "flush"} /\ Shutdown(s)
      /\ UNCHANGED <<net, rcvd, got, eof, stream_unacked, stream_acked_offset, wrote, finAt>>
      /\ stream_buffers' = [stream_buffers EXCEPT ![s] = <<>>]
  BY DEF close_stream, idle, Idle, SameEra, era, peer
<1>2. \A t \in StreamIds \ {s} : stream_buffers'[t] = stream_buffers[t]
  BY <1>1 DEF TypeOK
<1> QED
  BY <1>1, <1>2, InvShutdown

LEMMA InvStopSending ==
    ASSUME TypeOK, Inv, NEW s \in StreamIds, StopSending(s)
    PROVE  Inv'
<1>1. /\ pc.at # "release" /\ pc'.at # "release" /\ SameEra
      /\ ng[s].st \in {"open", "shut", "flush"} /\ Shutdown(s)
      /\ UNCHANGED <<net, rcvd, got, eof, stream_unacked, stream_acked_offset, wrote, finAt,
                     stream_buffers>>
  BY DEF StopSending, idle, Idle, SameEra, era, peer, binding
<1> QED
  BY <1>1, InvShutdown

LEMMA InvDropWrites ==
    ASSUME TypeOK, Inv, NEW s \in StreamIds, DropWrites(s)
    PROVE  Inv'
<1>1. /\ pc.at # "release" /\ pc'.at # "release" /\ SameEra /\ ng[s].st # "open"
      /\ UNCHANGED <<net, rcvd, got, eof, stream_unacked, stream_acked_offset, wrote, finAt,
                     aborted, ng>>
      /\ stream_buffers' = [stream_buffers EXCEPT ![s] = <<>>]
  BY DEF DropWrites, Turn, NextStream, Streams, SameEra, era, peer, history
<1>2. \A t \in StreamIds \ {s} : stream_buffers'[t] = stream_buffers[t]
  BY <1>1 DEF TypeOK
<1>3. ng' = [ng EXCEPT ![s] = ng[s]] /\ ng[s] \in StreamRecord /\ ng[s].tx <= ng[s].tx
  BY <1>1, NgType
<1>4. Sound(s)'
  <2>1. Retained(s)' /\ Aligned(s)'
    BY <1>1, SoundParts, RetainedKept, AlignedKept
  <2>2. Outstanding(s)' /\ Freeable(s)'
    BY <1>1, SoundParts, OutstandingKept, FreeableKept
  <2>3. Delivered(s)' /\ Queued(s)' /\ Written(s)'
    BY <1>1, SoundParts, DeliveredKept, QueuedKept, WrittenKept
  <2> QED
    BY <2>1, <2>2, <2>3 DEF Sound
<1> QED
  BY <1>1, <1>2, <1>3, <1>4, StreamStep

LEMMA InvMaxStreamData ==
    ASSUME TypeOK, Inv, NEW s \in StreamIds, MaxStreamData(s)
    PROVE  Inv'
<1> DEFINE m == Len(got[s]) + Window
           r == [ng[s] EXCEPT !.max = m]
<1>1. m \in Nat
  BY WindowAssumption DEF TypeOK
<1>2. ng' = [ng EXCEPT ![s] = r]
  BY NgType DEF MaxStreamData
<1> HIDE DEF m
<1>3. /\ r \in StreamRecord /\ r.st = ng[s].st /\ r.tx = ng[s].tx /\ r.una = ng[s].una
      /\ r.base = ng[s].base
  BY <1>1, NgType DEF StreamRecord
<1>4. /\ pc.at # "release" /\ pc'.at # "release" /\ SameEra
      /\ UNCHANGED <<net, rcvd, got, eof, stream_unacked, stream_acked_offset, wrote, finAt,
                     aborted, stream_buffers>>
  BY DEF MaxStreamData, idle, Idle, SameEra, era, peer, history, binding
<1>5. ng'[s] = r /\ ng[s].tx <= r.tx
  BY <1>2, <1>3, NgType
<1> HIDE DEF r
<1>6. Sound(s)'
  <2>1. Retained(s)' /\ Aligned(s)'
    BY <1>3, <1>4, <1>5, SoundParts, RetainedKept, AlignedKept
  <2>2. Outstanding(s)' /\ Freeable(s)'
    BY <1>3, <1>4, <1>5, SoundParts, OutstandingKept, FreeableKept
  <2>3. Delivered(s)' /\ Queued(s)' /\ Written(s)'
    BY <1>3, <1>4, <1>5, SoundParts, DeliveredKept, QueuedKept, WrittenKept
  <2> QED
    BY <2>1, <2>2, <2>3 DEF Sound
<1> QED
  BY <1>2, <1>3, <1>4, <1>5, <1>6, StreamStep

LEMMA InvStreamClosed ==
    ASSUME TypeOK, Inv, NEW s \in StreamIds, StreamClosed(s)
    PROVE  Inv'
<1> DEFINE r == [ng[s] EXCEPT !.st = "gone"]
<1>1. /\ r \in StreamRecord /\ r.st = "gone" /\ r.tx = ng[s].tx /\ r.una = ng[s].una
      /\ r.base = ng[s].base
  BY NgType DEF StreamRecord, StreamState
<1>2. ng' = [ng EXCEPT ![s] = r] /\ ng[s].una = {}
  BY NgType DEF StreamClosed
<1>3. /\ pc.at # "release" /\ pc'.at # "release" /\ SameEra
      /\ UNCHANGED <<net, rcvd, got, eof, wrote, finAt, aborted>>
      /\ stream_buffers' = [stream_buffers EXCEPT ![s] = <<>>]
      /\ stream_unacked' = [stream_unacked EXCEPT ![s] = <<>>]
      /\ stream_acked_offset' = [stream_acked_offset EXCEPT ![s] = 0]
  BY DEF StreamClosed, idle, Idle, SameEra, era, peer, history
<1> HIDE DEF r
<1>4. /\ ng'[s] = r /\ ng[s].tx <= r.tx /\ stream_unacked'[s] = <<>>
      /\ \A t \in StreamIds \ {s} : /\ stream_buffers'[t] = stream_buffers[t]
                                    /\ stream_unacked'[t] = stream_unacked[t]
                                    /\ stream_acked_offset'[t] = stream_acked_offset[t]
  <2>1. /\ DOMAIN stream_buffers = StreamIds
        /\ DOMAIN stream_unacked = StreamIds
        /\ DOMAIN stream_acked_offset = StreamIds
    BY DEF TypeOK
  <2>2. ng'[s] = r /\ ng[s].tx <= r.tx
    BY <1>1, <1>2, NgType DEF StreamRecord
  <2>3. /\ stream_unacked'[s] = <<>>
        /\ \A t \in StreamIds \ {s} : /\ stream_buffers'[t] = stream_buffers[t]
                                      /\ stream_unacked'[t] = stream_unacked[t]
                                      /\ stream_acked_offset'[t] = stream_acked_offset[t]
    BY <2>1, <1>3
  <2> QED
    BY <2>2, <2>3
<1>5. Sound(s)'
  <2>1. Retained(s)' /\ Aligned(s)' /\ Outstanding(s)'
    BY <1>1, <1>2, <1>4 DEF Retained, Aligned, Outstanding
  <2>2. Freeable(s)'
    <3>1. Freeable(s)
      BY SoundParts
    <3> QED
      BY <1>1, <1>4, <3>1 DEF Freeable
  <2>3. Delivered(s)' /\ Queued(s)'
    BY <1>1, <1>3, <1>4, SoundParts, DeliveredKept, QueuedKept
  <2>4. Written(s)'
    <3>1. Written(s)
      BY SoundParts
    <3> QED
      BY <1>1, <1>3, <1>4, <3>1 DEF Written
  <2> QED
    BY <2>1, <2>2, <2>3, <2>4 DEF Sound
<1> QED
  BY <1>1, <1>2, <1>3, <1>4, <1>5, StreamStep

LEMMA InvLose == ASSUME TypeOK, Inv, NEW f \in net, Lose(f) PROVE Inv'
<1>1. /\ UNCHANGED <<stream_buffers, stream_unacked, stream_acked_offset, wrote, finAt, aborted,
                     ng, rcvd, got, eof>>
      /\ pc.at # "release" /\ pc'.at # "release" /\ SameEra /\ net' \subseteq net
  BY DEF Lose, binding, history, idle, Idle, SameEra, era, peer
<1>2. ASSUME NEW t \in StreamIds PROVE Sound(t)'
  BY <1>1, Elsewhere
<1>3. Carried'
  <2>1. Carried /\ \A g \in rcvd : g.era = PeerEra
    BY DEF Inv, Carried
  <2>2. \A t \in StreamIds : ng[t].tx \in Nat
    BY NgType
  <2>3. net' \cup rcvd' \subseteq net \cup rcvd
    BY <1>1
  <2> QED
    BY <1>1, <2>1, <2>2, <2>3, CarriedKept
<1> QED
  BY <1>1, <1>2, <1>3, ReleasingIdle DEF Inv

(* A new packet carries the bytes its frame stands for.                    *)
LEMMA CarriedGrows ==
    ASSUME TypeOK, Carried, SameEra, NEW p \in NetFrame, net' \subseteq net \cup {p},
           rcvd' = rcvd,
           \A t \in StreamIds : /\ ng'[t].tx \in Nat /\ ng[t].tx <= ng'[t].tx
                                /\ finAt[t] # NoFin => finAt'[t] = finAt[t],
           p.era = era, p.n > 0 => p.first = p.off,
           p.off + p.n <= ng'[p.s].tx, p.fin => p.off + p.n = finAt'[p.s]
    PROVE  Carried'
<1>1. \A f \in net \cup rcvd : /\ f.s \in StreamIds /\ f.off + f.n \in Nat /\ f.off + f.n # NoFin
                               /\ ng[f.s].tx \in Nat
  <2>1. \A f \in net \cup rcvd : f.s \in StreamIds /\ f.off \in Nat /\ f.n \in Nat
    BY DEF TypeOK, NetFrame
  <2> QED
    BY <2>1, NgType DEF NoFin
<1>2. era' = era /\ PeerEra' = PeerEra /\ era \in {0, 1}
  BY EraKept, EraBound
<1>3. ASSUME NEW f \in net \cup rcvd
      PROVE  /\ f.era <= era
             /\ f.era = era => /\ f.n > 0 => f.first = f.off
                               /\ f.off + f.n <= ng'[f.s].tx
                               /\ f.fin => f.off + f.n = finAt'[f.s]
  BY <1>1 DEF Carried
<1>4. \A f \in rcvd' : f.era = PeerEra'
  BY <1>2 DEF Carried
<1>5. p.era <= era
  BY <1>2
<1>6. \A f \in net' \cup rcvd' : f \in net \cup rcvd \/ f = p
  OBVIOUS
<1> QED
  BY <1>2, <1>3, <1>4, <1>5, <1>6 DEF Carried

(* Memory that is read again holds what was first sent.                    *)
LEMMA MemoryIntact ==
    ASSUME TypeOK, NEW s \in StreamIds, Retained(s), Outstanding(s),
           NEW f \in ng[s].una, f.n > 0
    PROVE  Memory(s, f) = f.off
<1>1. f \in Frame /\ f.era = era
  BY NgType DEF Outstanding
<1>2. PICK i \in 1..Len(stream_unacked[s]) :
         /\ Holds(stream_unacked[s][i], f)
         /\ Memory(s, f) = stream_unacked[s][i].first + (f.off - stream_unacked[s][i].off)
  BY <1>1, MemoryOf DEF Outstanding
<1> DEFINE c == stream_unacked[s][i]
<1>3. c \in Chunk
  BY DEF TypeOK
<1>4. c.era = era /\ c.first = c.off
  BY <1>1, <1>2 DEF Holds, Retained
<1>5. Memory(s, f) = c.first + (f.off - c.off)
  BY <1>2
<1> HIDE DEF c
<1>6. c.off \in Nat /\ f.off \in Nat
  BY <1>1, <1>3 DEF Chunk, Frame
<1> QED
  BY <1>4, <1>5, <1>6

LEMMA InvRetransmit ==
    ASSUME TypeOK, Inv, NEW s \in StreamIds, NEW f \in ng[s].una, Retransmit(s, f)
    PROVE  Inv'
<1> DEFINE first == IF f.n = 0 THEN f.off ELSE Memory(s, f)
           p == InPacket(s, f, first)
<1>1. /\ UNCHANGED <<stream_buffers, stream_unacked, stream_acked_offset, wrote, finAt, aborted,
                     ng, rcvd, got, eof>>
      /\ pc.at # "release" /\ pc'.at # "release" /\ SameEra
      /\ net' = net \cup {p}
  BY DEF Retransmit, binding, history, idle, Idle, SameEra, era, peer
<1>2. f \in Frame /\ f.off \in Nat /\ f.n \in Nat
  <2>1. f \in Frame
    BY NgType
  <2> QED
    BY <2>1 DEF Frame
<1>3. first = f.off
  BY <1>2, SoundParts, MemoryIntact
<1> HIDE DEF first
<1>4. /\ p \in NetFrame /\ p.s = s /\ p.era = f.era /\ p.off = f.off /\ p.n = f.n
      /\ p.fin = f.fin /\ p.first = f.off
  BY <1>2, <1>3 DEF InPacket, NetFrame, Frame
<1> HIDE DEF p
<1>5. ASSUME NEW t \in StreamIds PROVE Sound(t)'
  BY <1>1, Elsewhere
<1>6. Carried'
  <2>1. Carried
    BY DEF Inv
  <2>2. \A t \in StreamIds : ng[t].tx \in Nat
    BY NgType
  <2>3. f.era = era /\ f.off + f.n <= ng[s].tx /\ (f.fin => f.off + f.n = finAt[s])
    BY SoundParts DEF Outstanding
  <2> QED
    BY <1>1, <1>4, <2>1, <2>2, <2>3, CarriedGrows
<1> QED
  BY <1>1, <1>5, <1>6, ReleasingIdle DEF Inv

LEMMA InvSplit ==
    ASSUME TypeOK, Inv, NEW s \in StreamIds, NEW f \in ng[s].una, NEW k \in 1..f.n,
           Split(s, f, k)
    PROVE  Inv'
<1> DEFINE a == [f EXCEPT !.n = k, !.fin = FALSE]
           b == [f EXCEPT !.off = @ + k, !.n = @ - k]
           una == (ng[s].una \ {f}) \cup {a, b}
           r == [ng[s] EXCEPT !.una = una]
<1>1. f \in Frame /\ f.off \in Nat /\ f.n \in Nat /\ k \in Nat /\ k < f.n /\ k > 0
  <2>1. f \in Frame
    BY NgType
  <2> QED
    BY <2>1 DEF Frame, Split
<1>2. /\ a \in Frame /\ a.era = f.era /\ a.off = f.off /\ a.n = k /\ ~a.fin
      /\ b \in Frame /\ b.era = f.era /\ b.off = f.off + k /\ b.n = f.n - k /\ b.fin = f.fin
  <2>1. f.off + k \in Nat /\ f.n - k \in Nat
    BY <1>1
  <2>2. a \in Frame /\ a.era = f.era /\ a.off = f.off /\ a.n = k /\ ~a.fin
    BY <1>1 DEF Frame
  <2>3. b \in Frame
    BY <1>1, <2>1 DEF Frame
  <2>4. b.era = f.era /\ b.off = f.off + k /\ b.n = f.n - k /\ b.fin = f.fin
    BY <1>1 DEF Frame
  <2> QED
    BY <2>2, <2>3, <2>4, Zenon
<1>3. /\ UNCHANGED <<stream_buffers, stream_unacked, stream_acked_offset, wrote, finAt, aborted,
                     net, rcvd, got, eof>>
      /\ pc.at # "release" /\ pc'.at # "release" /\ SameEra
  BY DEF Split, binding, history, idle, Idle, SameEra, era, peer
<1>4. ng' = [ng EXCEPT ![s] = r]
  BY NgType DEF Split
<1> HIDE DEF a, b
<1>5. una \in SUBSET Frame
  BY <1>2, NgType
<1>6. /\ r \in StreamRecord /\ r.st = ng[s].st /\ r.tx = ng[s].tx /\ r.una = una
      /\ r.base = ng[s].base
  <2> HIDE DEF una
  <2> QED
    BY <1>5, NgType DEF StreamRecord
<1> HIDE DEF r, una
<1>7. ng'[s] = r /\ ng[s].tx <= r.tx
  BY <1>4, <1>6, NgType
<1>8. Sound(s)'
  <2>1. Retained(s)' /\ Aligned(s)'
    BY <1>3, <1>6, <1>7, SoundParts, RetainedKept, AlignedKept
  <2>2. Freeable(s)'
    BY <1>3, <1>6, <1>7, SoundParts, FreeableKept
  <2>3. Delivered(s)' /\ Queued(s)'
    BY <1>3, <1>6, <1>7, SoundParts, DeliveredKept, QueuedKept
  <2>4. Written(s)'
    <3>1. Written(s)
      BY SoundParts
    <3> QED
      BY <1>3, <1>6, <1>7, <3>1 DEF Written
  <2>5. Outstanding(s)'
    <3>1. Outstanding(s)
      BY SoundParts
    <3>2. PICK i \in 1..Len(stream_unacked[s]) : Holds(stream_unacked[s][i], f)
      BY <1>1, <3>1 DEF Outstanding
    <3>3. stream_unacked[s][i] \in Chunk
      BY DEF TypeOK
    <3>4. Holds(stream_unacked[s][i], a) /\ Holds(stream_unacked[s][i], b)
      <4> DEFINE c == stream_unacked[s][i]
      <4>1. c.off \in Nat /\ c.n \in Nat
        BY <3>3 DEF Chunk
      <4>2. c.era = f.era /\ c.off <= f.off /\ f.off + f.n <= c.off + c.n
        BY <3>2 DEF Holds
      <4> HIDE DEF c
      <4>3. c.off <= f.off + k /\ f.off + k <= c.off + c.n /\ (f.off + k) + (f.n - k) <= c.off + c.n
        BY <1>1, <4>1, <4>2, SMTT(30)
      <4>4. Holds(c, a)
        BY <1>2, <4>2, <4>3 DEF Holds
      <4>5. Holds(c, b)
        BY <1>2, <4>2, <4>3 DEF Holds
      <4> QED
        BY <4>4, <4>5 DEF c
    <3>5. f.era = era /\ f.off + f.n <= ng[s].tx /\ (f.fin => f.off + f.n = finAt[s])
      BY <3>1 DEF Outstanding
    <3>6. /\ a.era = era /\ a.off + a.n <= ng[s].tx
          /\ b.era = era /\ b.off + b.n <= ng[s].tx /\ (b.fin => b.off + b.n = finAt[s])
      <4>1. f.off + k <= ng[s].tx /\ (f.off + k) + (f.n - k) = f.off + f.n
        BY <1>1, <3>5, NgType
      <4> QED
        BY <1>2, <3>5, <4>1
    <3>7. \A g \in una : g \in ng[s].una \/ g = a \/ g = b
      BY DEF una
    <3>8. era' = era
      BY <1>3, EraKept
    <3> QED
      BY <1>2, <1>3, <1>6, <1>7, <3>1, <3>4, <3>6, <3>7, <3>8 DEF Outstanding
  <2> QED
    BY <2>1, <2>2, <2>3, <2>4, <2>5 DEF Sound
<1> QED
  BY <1>3, <1>4, <1>6, <1>7, <1>8, StreamStep

LEMMA InvAck ==
    ASSUME TypeOK, Inv, NEW s \in StreamIds, NEW f \in ng[s].una, Ack(s, f)
    PROVE  Inv'
<1> DEFINE una == ng[s].una \ {f}
           base == AckedPrefix(una, ng[s].tx)
           r == [ng[s] EXCEPT !.una = una, !.base = base]
<1>1. una \in SUBSET Frame /\ una \subseteq ng[s].una
  BY NgType
<1>2. base \in Nat /\ base <= ng[s].tx /\ \A g \in una : g.n > 0 => base <= g.off
  <2> HIDE DEF una
  <2> QED
    BY <1>1, NgType, AckedPrefixBound
<1>3. /\ UNCHANGED <<stream_buffers, stream_unacked, stream_acked_offset, wrote, finAt, aborted,
                     net, rcvd, got, eof>>
      /\ pc = Idle /\ pc.at # "release" /\ SameEra
      /\ pc' = IF stream_unacked[s] = <<>> THEN pc ELSE Release(s, base)
  BY DEF Ack, binding, history, idle, Idle, SameEra, era, peer
<1>4. ng' = [ng EXCEPT ![s] = r]
  BY NgType DEF Ack
<1> HIDE DEF una, base
<1>5. /\ r \in StreamRecord /\ r.st = ng[s].st /\ r.tx = ng[s].tx /\ r.una = una
      /\ r.base = base
  BY <1>1, <1>2, NgType DEF StreamRecord
<1> HIDE DEF r
<1>6. ng'[s] = r /\ ng[s].tx <= r.tx /\ \A t \in StreamIds \ {s} : ng'[t] = ng[t]
  BY <1>4, <1>5, NgType
<1>7. /\ Release(s, base).at = "release" /\ Release(s, base).s = s
      /\ Release(s, base).upto = base
  BY DEF Release
<1>8. Sound(s)'
  <2>1. Retained(s)' /\ Aligned(s)' /\ Outstanding(s)'
    BY <1>1, <1>3, <1>5, <1>6, SoundParts, RetainedKept, AlignedKept, OutstandingKept
  <2>2. Freeable(s)'
    <3>1. CASE stream_unacked[s] = <<>>
      BY <1>2, <1>3, <1>5, <1>6, <3>1 DEF Freeable
    <3>2. CASE stream_unacked[s] # <<>>
      BY <1>2, <1>3, <1>5, <1>6, <1>7, <3>2 DEF Freeable
    <3> QED
      BY <3>1, <3>2
  <2>3. Delivered(s)' /\ Queued(s)'
    BY <1>3, <1>5, <1>6, SoundParts, DeliveredKept, QueuedKept
  <2>4. Written(s)'
    <3>1. Written(s) /\ ng[s].una # {}
      BY SoundParts
    <3> QED
      BY <1>3, <1>5, <1>6, <3>1 DEF Written
  <2> QED
    BY <2>1, <2>2, <2>3, <2>4 DEF Sound
<1>9. ASSUME NEW t \in StreamIds \ {s} PROVE Sound(t)'
  BY <1>3, <1>6, Elsewhere
<1>10. Carried'
  <2>1. Carried /\ \A g \in rcvd : g.era = PeerEra
    BY DEF Inv, Carried
  <2>2. \A t \in StreamIds : ng[t].tx \in Nat /\ ng'[t].tx = ng[t].tx
    BY <1>5, <1>6, NgType
  <2> QED
    BY <1>3, <2>1, <2>2, CarriedKept
<1>11. Releasing'
  <2>1. CASE stream_unacked[s] = <<>>
    BY <1>3, <2>1, ReleasingIdle
  <2>2. CASE stream_unacked[s] # <<>>
    <3>1. ng[s].st # "gone"
      BY <2>2, SoundParts DEF Aligned
    <3>2. pc'.at = "release" /\ pc'.s = s /\ pc'.upto = base
      BY <1>3, <1>7, <2>2
    <3> QED
      BY <1>2, <1>5, <1>6, <3>1, <3>2 DEF Releasing
  <2> QED
    BY <2>1, <2>2
<1> QED
  BY <1>8, <1>9, <1>10, <1>11 DEF Inv

LEMMA InvHandshakeCompleted == ASSUME TypeOK, Inv, HandshakeCompleted PROVE Inv'
<1>1. /\ UNCHANGED <<stream_buffers, stream_unacked, stream_acked_offset, net, rcvd, got, eof, early>>
      /\ pc.at # "release" /\ pc' = pc
  BY DEF HandshakeCompleted, binding, idle, Idle, peer
<1>2. CASE early # "rejected"
  <2>1. UNCHANGED <<ng, wrote, finAt, aborted>> /\ SameEra
    BY <1>1, <1>2 DEF HandshakeCompleted, history, SameEra, era
  <2> QED
    BY <1>1, <2>1, QuietStep DEF binding, history
<1>3. CASE early = "rejected"
  <2>1. /\ ng' = [s \in StreamIds |-> NoStream]
        /\ wrote' = [s \in StreamIds |-> 0]
        /\ finAt' = [s \in StreamIds |-> NoFin]
        /\ aborted' = [s \in StreamIds |-> FALSE]
        /\ era = 0 /\ era' = 1 /\ PeerEra' = PeerEra
    BY <1>1, <1>3 DEF HandshakeCompleted, era, PeerEra
  <2>2. ASSUME NEW s \in StreamIds PROVE Sound(s)'
    <3>1. /\ ng'[s].st = "none" /\ ng'[s].tx = 0 /\ ng'[s].una = {} /\ ng'[s].base = 0
          /\ wrote'[s] = 0 /\ finAt'[s] = NoFin /\ aborted'[s] = FALSE
      BY <2>1 DEF NoStream
    <3> DEFINE q == stream_unacked[s]
    <3>2. q \in Seq(Chunk) /\ q = stream_unacked'[s] /\ stream_acked_offset'[s] \in Nat
      BY <1>1 DEF TypeOK
    <3>3. \A i \in 1..Len(q) : q[i].era = 0 /\ q[i].n > 0
      <4>1. \A i \in 1..Len(q) : q[i].era <= 0 /\ q[i].n > 0
        BY <2>1, SoundParts DEF Retained
      <4>2. \A i \in 1..Len(q) : q[i] \in Chunk
        BY <3>2
      <4> QED
        BY <4>1, <4>2 DEF Chunk
    <3>4. Retained(s)'
      <4>1. Retained(s)
        BY SoundParts
      <4> QED
        BY <2>1, <3>2, <3>3, <4>1, SMTT(30) DEF Retained
    <3>5. Aligned(s)'
      <4>1. Len(q) \in Nat
        BY <3>2
      <4>2. \A i \in 1..Len(q) : q[i].era # 1
        BY <3>3
      <4>3. \A i \in 1..Len(q) - 1 : q[i + 1].era # 1
        BY <4>1, <4>2
      <4>4. Len(q) > 0 => q[1].era # 1 /\ q[Len(q)].era # 1
        BY <4>1, <4>2
      <4>5. AtMost(0, stream_acked_offset[s])'
        BY <1>1, <1>3, <3>2 DEF AtMost
      <4> HIDE DEF q
      <4> QED
        BY <1>1, <2>1, <3>1, <3>2, <4>3, <4>4, <4>5 DEF Aligned, AtMost
    <3>6. Outstanding(s)' /\ Freeable(s)' /\ Queued(s)' /\ Written(s)'
      BY <1>1, <1>3, <3>1 DEF Outstanding, Freeable, Queued, Written
    <3>7. Delivered(s)'
      BY <1>1, SoundParts, DeliveredKept
    <3> QED
      BY <3>4, <3>5, <3>6, <3>7 DEF Sound
  <2>3. Carried'
    <3>1. \A f \in net \cup rcvd : f.era <= 0 /\ f.era \in {0, 1}
      BY <2>1 DEF Inv, Carried, TypeOK, NetFrame
    <3>2. \A f \in rcvd : f.era = PeerEra
      BY DEF Inv, Carried
    <3> QED
      BY <1>1, <2>1, <3>1, <3>2 DEF Carried
  <2> QED
    BY <1>1, <2>2, <2>3, ReleasingIdle DEF Inv
<1> QED
  BY <1>2, <1>3

(* The bytes the peer puts together are the first bytes of the stream.     *)
LEMMA DeliveredGrows ==
    ASSUME TypeOK, Inv, NEW f \in net, PeerReceive(f), ~UNCHANGED peer,
           NEW t \in StreamIds
    PROVE  Delivered(t)'
<1> DEFINE s == f.s
           fs == rcvd \cup {f}
           a == Assembled(s, fs)
<1>1. /\ rcvd' = fs
      /\ got' = [got EXCEPT ![s] = a]
      /\ eof' = [eof EXCEPT ![s] = \E g \in fs : /\ g.s = s
                                                 /\ g.fin
                                                 /\ g.off + g.n = Len(a)]
  BY DEF PeerReceive
<1>2. s \in StreamIds /\ \A g \in fs : /\ g \in NetFrame
                                       /\ g.n > 0 => g.first = g.off
                                       /\ g.off + g.n <= ng[g.s].tx
  <2>1. Carried
    BY DEF Inv
  <2> QED
    BY <2>1, PeerReceiveStep
<1>3. CASE t # s
  <2>1. got'[t] = got[t] /\ eof'[t] = eof[t]
    BY <1>1, <1>2, <1>3 DEF TypeOK
  <2>2. Delivered(t)
    BY SoundParts
  <2>3. rcvd \subseteq rcvd' /\ \A g \in rcvd' : g.s = t => g \in rcvd
    BY <1>1, <1>3
  <2> QED
    BY <2>1, <2>2, <2>3 DEF Delivered, Covers
<1>4. CASE t = s
  <2>1. got'[t] = a
    BY <1>1, <1>2, <1>4 DEF TypeOK
  <2>2. eof'[t] => \E g \in fs : g.s = s /\ g.fin /\ g.off + g.n = Len(a)
    <3> DEFINE e == \E g \in fs : g.s = s /\ g.fin /\ g.off + g.n = Len(a)
    <3>1. eof \in [StreamIds -> BOOLEAN]
      BY DEF TypeOK
    <3>2. eof' = [eof EXCEPT ![s] = e]
      BY <1>1
    <3> HIDE DEF e
    <3>3. eof'[s] = e
      BY <1>2, <3>1, <3>2
    <3> QED
      BY <1>4, <3>3, Zenon DEF e
  <2> HIDE DEF a
  <2>3. /\ a \in Seq(Nat \cup {Freed})
        /\ \A i \in 1..Len(a) :
              \E g \in fs : g.s = s /\ Covers(g, i - 1) /\ a[i] = ByteOf(g, i - 1)
        /\ \A g \in fs : g.s = s => ~Covers(g, Len(a))
    <3>1. fs \in SUBSET NetFrame /\ ng[s].tx \in Nat /\ \A g \in fs : g.s = s => g.off + g.n <= ng[s].tx
      BY <1>2, NgType
    <3>2. s \in StreamIds
      BY <1>2
    <3> HIDE DEF fs, s
    <3> QED
      BY <3>1, <3>2, AssembledShape DEF a
  <2> HIDE DEF fs
  <2>4. Len(a) \in Nat
    BY <2>3
  <2>5. \A i \in 1..Len(a) : a[i] = i - 1
    <3> TAKE i \in 1..Len(a)
    <3>1. PICK g \in fs : g.s = s /\ Covers(g, i - 1) /\ a[i] = ByteOf(g, i - 1)
      BY <2>3
    <3>2. g.off \in Nat /\ g.n \in Nat /\ (g.n > 0 => g.first = g.off)
      BY <1>2 DEF NetFrame
    <3>3. g.first = g.off
      BY <2>4, <3>1, <3>2 DEF Covers
    <3> QED
      BY <2>4, <3>1, <3>2, <3>3 DEF ByteOf, Freed
  <2>6. \A i \in 0..Len(a) - 1 : \E g \in fs : g.s = s /\ Covers(g, i)
    <3> TAKE i \in 0..Len(a) - 1
    <3>1. i + 1 \in 1..Len(a) /\ (i + 1) - 1 = i
      BY <2>4
    <3> QED
      BY <2>3, <3>1
  <2> QED
    BY <1>1, <1>4, <2>1, <2>2, <2>3, <2>5, <2>6 DEF Delivered, Covers
<1> QED
  BY <1>3, <1>4

LEMMA InvPeerReceive ==
    ASSUME TypeOK, Inv, NEW f \in net, PeerReceive(f)
    PROVE  Inv'
<1>1. /\ UNCHANGED <<stream_buffers, stream_unacked, stream_acked_offset, wrote, finAt, aborted, ng>>
      /\ pc.at # "release" /\ pc'.at # "release" /\ SameEra /\ net' \subseteq net
      /\ f.era = PeerEra
  BY DEF PeerReceive, binding, history, idle, Idle, SameEra, era
<1>2. rcvd' \subseteq rcvd \cup {f}
  BY DEF PeerReceive, peer
<1>3. Carried'
  <2>1. Carried /\ \A g \in rcvd : g.era = PeerEra
    BY DEF Inv, Carried
  <2>2. \A t \in StreamIds : ng[t].tx \in Nat
    BY NgType
  <2>3. net' \cup rcvd' \subseteq net \cup rcvd /\ \A g \in rcvd' : g.era = PeerEra
    BY <1>1, <1>2, <2>1
  <2> QED
    BY <1>1, <2>1, <2>2, <2>3, CarriedKept
<1>4. ASSUME NEW t \in StreamIds PROVE Sound(t)'
  <2>1. Retained(t)' /\ Aligned(t)'
    BY <1>1, SoundParts, RetainedKept, AlignedKept
  <2>2. Outstanding(t)' /\ Freeable(t)'
    BY <1>1, SoundParts, OutstandingKept, FreeableKept
  <2>3. Queued(t)' /\ Written(t)'
    BY <1>1, SoundParts, QueuedKept, WrittenKept
  <2>4. Delivered(t)'
    <3>1. CASE UNCHANGED peer
      BY <3>1, SoundParts, DeliveredKept DEF peer
    <3>2. CASE ~UNCHANGED peer
      BY <3>2, DeliveredGrows
    <3> QED
      BY <3>1, <3>2
  <2> QED
    BY <2>1, <2>2, <2>3, <2>4 DEF Sound
<1> QED
  BY <1>1, <1>3, <1>4, ReleasingIdle DEF Inv

-----------------------------------------------------------------------------
(* The chunks kept, as send() adds to them and the callback releases them. *)

LEMMA ChunkTypes ==
    ASSUME TypeOK, NEW s \in StreamIds
    PROVE  /\ stream_unacked[s] \in Seq(Chunk) /\ Len(stream_unacked[s]) \in Nat
           /\ \A i \in 1..Len(stream_unacked[s]) :
                 LET c == stream_unacked[s][i]
                 IN  /\ c \in Chunk /\ c.era \in {0, 1} /\ c.off \in Nat /\ c.first \in Nat
                     /\ c.n \in Nat
<1>1. stream_unacked[s] \in Seq(Chunk) /\ Len(stream_unacked[s]) \in Nat
  BY DEF TypeOK
<1>2. \A i \in 1..Len(stream_unacked[s]) : stream_unacked[s][i] \in Chunk
  BY <1>1
<1> QED
  BY <1>1, <1>2 DEF Chunk

LEMMA AtMostAdd ==
    ASSUME NEW a \in Nat, NEW b \in Nat, NEW n \in Nat, AtMost(a, b)
    PROVE  AtMost(a + n, b + n)
  BY DEF AtMost

(* Only rejected early data leaves chunks of an earlier era behind.        *)
LEMMA OldChunk ==
    ASSUME TypeOK, NEW s \in StreamIds, Retained(s), NEW i \in 1..Len(stream_unacked[s]),
           stream_unacked[s][i].era # era
    PROVE  early = "rejected"
<1>1. stream_unacked[s][i].era <= era /\ stream_unacked[s][i].era \in {0, 1}
  BY ChunkTypes DEF Retained
<1>2. era = 1
  BY <1>1, EraType
<1> QED
  BY <1>2 DEF era

(* One chunk less: the parts of the invariant about the chunks of the      *)
(* stream the callback is at.                                              *)
LEMMA ReleaseHead ==
    ASSUME TypeOK, NEW s \in StreamIds, SameEra, ng' = ng, finAt' = finAt,
           Retained(s), Aligned(s), Outstanding(s), ng[s].st # "gone",
           stream_unacked[s] # <<>>, stream_unacked'[s] = Tail(stream_unacked[s]),
           stream_acked_offset'[s] = stream_acked_offset[s] + stream_unacked[s][1].n,
           NEW upto \in Nat, stream_acked_offset'[s] <= upto,
           \A f \in ng[s].una : f.n > 0 => upto <= f.off
    PROVE  Retained(s)' /\ Aligned(s)' /\ Outstanding(s)'
<1> DEFINE q == stream_unacked[s]
           r == stream_unacked'[s]
           n == Len(q)
           acked == stream_acked_offset[s]
<1>1. /\ q \in Seq(Chunk) /\ n \in Nat /\ n > 0 /\ r \in Seq(Chunk) /\ Len(r) = n - 1
      /\ \A i \in 1..n - 1 : r[i] = q[i + 1]
  <2>1. q \in Seq(Chunk) /\ q # <<>> /\ r = Tail(q)
    BY ChunkTypes
  <2> HIDE DEF q, r
  <2>2. n \in Nat /\ n > 0
    BY <2>1
  <2>3. Tail(q) \in Seq(Chunk) /\ Len(Tail(q)) = n - 1 /\ \A i \in 1..n - 1 : Tail(q)[i] = q[i + 1]
    BY <2>1
  <2> QED
    BY <2>1, <2>2, <2>3
<1>2. \A i \in 1..n : /\ q[i].era \in {0, 1} /\ q[i].off \in Nat /\ q[i].first \in Nat
                      /\ q[i].n \in Nat
  BY ChunkTypes
<1>3. \A i \in 1..n - 1 : i + 1 \in 1..n
  BY <1>1
<1>4. era' = era /\ early' = early
  BY DEF SameEra
<1>5. 1 \in 1..n /\ acked \in Nat /\ ng[s].tx \in Nat
  <2>1. acked \in Nat
    BY DEF TypeOK
  <2> HIDE DEF n, acked
  <2> QED
    BY <1>1, <2>1, NgType
<1>6. stream_acked_offset'[s] = acked + q[1].n
  OBVIOUS
<1>7. Retained(s)'
  <2>1. Retained(s)
    OBVIOUS
  <2>2. \A i \in 1..n - 1 : /\ r[i].n > 0
                            /\ r[i].era <= era
                            /\ r[i].era = era => r[i].first = r[i].off /\ r[i].off + r[i].n <= ng[s].tx
    BY <1>1, <1>3, <2>1 DEF Retained
  <2>3. \A i \in 1..n - 1 : \A j \in 1..n - 1 :
            i < j => /\ r[i].era <= r[j].era
                     /\ r[i].era = r[j].era => r[i].off + r[i].n <= r[j].off
    <3> SUFFICES ASSUME NEW i \in 1..n - 1, NEW j \in 1..n - 1, i < j
                 PROVE  /\ r[i].era <= r[j].era
                        /\ r[i].era = r[j].era => r[i].off + r[i].n <= r[j].off
      BY Zenon
    <3>1. i + 1 \in 1..n /\ j + 1 \in 1..n /\ i + 1 < j + 1 /\ r[i] = q[i + 1] /\ r[j] = q[j + 1]
      BY <1>1, <1>3
    <3> QED
      BY <2>1, <3>1 DEF Retained
  <2> HIDE DEF q, n
  <2> QED
    BY <1>1, <1>4, <2>2, <2>3 DEF Retained
<1>8. /\ n = 0 => AtMost(ng[s].tx, acked)
      /\ n > 0 /\ q[1].era = era => AtMost(q[1].off, acked)
      /\ n > 0 => IF q[n].era = era THEN q[n].off + q[n].n = ng[s].tx
                                    ELSE ng[s].tx = 0
      /\ \A i \in 1..n - 1 :
            q[i + 1].era = era =>
                q[i + 1].off = IF q[i].era = era THEN q[i].off + q[i].n ELSE 0
  BY DEF Aligned
<1>9. \A i \in 1..n : q[i].era # era => early = "rejected"
  BY OldChunk
<1>10. \A x \in Nat : /\ q[1].era = era /\ x = q[1].off + q[1].n => AtMost(x, acked + q[1].n)
                      /\ q[1].era # era /\ x = 0 => AtMost(x, acked + q[1].n)
  <2>1. q[1].era = era => AtMost(q[1].off + q[1].n, acked + q[1].n)
    BY <1>1, <1>2, <1>5, <1>8, AtMostAdd
  <2>2. q[1].era # era => AtMost(0, acked + q[1].n)
    BY <1>2, <1>5, <1>9 DEF AtMost
  <2> QED
    BY <2>1, <2>2, Zenon
<1> HIDE DEF q, r, n, acked
<1>11. Aligned(s)'
  <2>1. n - 1 = 0 => AtMost(ng[s].tx, acked + q[1].n)
    BY <1>1, <1>2, <1>5, <1>8, <1>10
  <2>2. n - 1 > 0 /\ r[1].era = era => AtMost(r[1].off, acked + q[1].n)
    <3> SUFFICES ASSUME n - 1 > 0, r[1].era = era PROVE AtMost(r[1].off, acked + q[1].n)
      BY Zenon
    <3>1. 1 \in 1..n - 1 /\ r[1] = q[2] /\ 2 \in 1..n /\ 1 + 1 = 2
      BY <1>1
    <3>2. r[1].off = IF q[1].era = era THEN q[1].off + q[1].n ELSE 0
      BY <1>8, <3>1
    <3>3. r[1].off \in Nat
      BY <1>2, <3>1
    <3> QED
      BY <1>10, <3>2, <3>3
  <2>3. n - 1 > 0 => IF r[n - 1].era = era THEN r[n - 1].off + r[n - 1].n = ng[s].tx
                                          ELSE ng[s].tx = 0
    <3>1. n - 1 > 0 => r[n - 1] = q[n]
      <4>1. n - 1 > 0 => n - 1 \in 1..n - 1 /\ (n - 1) + 1 = n
        BY <1>1
      <4> QED
        BY <1>1, <4>1
    <3> QED
      BY <1>1, <1>8, <3>1
  <2>4. \A i \in 1..(n - 1) - 1 :
            r[i + 1].era = era =>
                r[i + 1].off = IF r[i].era = era THEN r[i].off + r[i].n ELSE 0
    <3> TAKE i \in 1..(n - 1) - 1
    <3>1. i \in 1..n - 1 /\ i + 1 \in 1..n - 1
      BY <1>1
    <3>2. r[i] = q[i + 1] /\ r[i + 1] = q[(i + 1) + 1]
      BY <1>1, <3>1
    <3> QED
      BY <1>8, <3>1, <3>2
  <2> QED
    BY <1>1, <1>4, <1>6, <2>1, <2>2, <2>3, <2>4 DEF Aligned, AtMost, r
<1>12. Outstanding(s)'
  <2>1. \A f \in ng[s].una : f.off \in Nat /\ f.n \in Nat
    <3>1. ng[s].una \subseteq Frame
      BY NgType
    <3> QED
      BY <3>1 DEF Frame
  <2>2. ASSUME NEW f \in ng[s].una, f.n > 0 PROVE \E i \in 1..Len(r) : Holds(r[i], f)
    <3>1. PICK i \in 1..n : Holds(q[i], f)
      BY <2>2 DEF Outstanding, q, n
    <3>2. i # 1
      <4> SUFFICES ASSUME i = 1 PROVE FALSE
        OBVIOUS
      <4>1. q[1].era = f.era /\ f.era = era /\ f.off + f.n <= q[1].off + q[1].n
        BY <3>1 DEF Holds, Outstanding
      <4>2. q[1].off <= acked
        BY <1>1, <1>2, <1>5, <1>8, <4>1 DEF AtMost
      <4>3. upto <= f.off /\ acked + q[1].n <= upto
        BY <1>6, <2>2
      <4> QED
        BY <1>2, <1>5, <2>1, <2>2, <4>1, <4>2, <4>3
    <3>3. i - 1 \in 1..Len(r) /\ r[i - 1] = q[i]
      <4>1. i - 1 \in 1..n - 1 /\ (i - 1) + 1 = i
        BY <1>1, <3>2
      <4> QED
        BY <1>1, <4>1
    <3> QED
      BY <3>1, <3>3
  <2> QED
    BY <1>4, <2>2 DEF Outstanding, r
<1> QED
  BY <1>7, <1>11, <1>12

(* The callback stops at the first chunk that is not acknowledged whole:   *)
(* none of the ones left lies within the acknowledged prefix.              *)
LEMMA KeptAreFresh ==
    ASSUME TypeOK, NEW s \in StreamIds, Retained(s), Aligned(s), ng[s].st # "gone",
           early # "rejected", stream_unacked[s] # <<>>, NEW upto \in Nat,
           ~(stream_acked_offset[s] + stream_unacked[s][1].n <= upto),
           NEW i \in 1..Len(stream_unacked[s])
    PROVE  stream_unacked[s][i].off + stream_unacked[s][i].n > upto
<1> DEFINE q == stream_unacked[s]
           n == Len(q)
           acked == stream_acked_offset[s]
<1>1. q \in Seq(Chunk) /\ n \in Nat /\ q # <<>>
  BY ChunkTypes
<1>2. n > 0 /\ 1 \in 1..n
  <2> HIDE DEF q
  <2> QED
    BY <1>1
<1>3. \A j \in 1..n : q[j].off \in Nat /\ q[j].n \in Nat /\ q[j].era = era
  BY ChunkTypes, OldChunk
<1>4. q[1].off = acked
  <2>1. n > 0 /\ q[1].era = era => AtMost(q[1].off, acked)
    BY DEF Aligned
  <2> HIDE DEF q, n, acked
  <2> QED
    BY <1>2, <1>3, <2>1 DEF AtMost
<1>5. acked \in Nat
  BY DEF TypeOK
<1>6. 1 < i => q[1].off + q[1].n <= q[i].off
  BY <1>2, <1>3 DEF Retained
<1>7. ~(acked + q[1].n <= upto)
  OBVIOUS
<1> HIDE DEF q, n, acked
<1>8. i = 1 \/ 1 < i
  OBVIOUS
<1>9. q[i].off + q[i].n > upto
  <2>1. i \in 1..n
    BY DEF n, q
  <2> QED
    BY <1>2, <1>3, <1>4, <1>5, <1>6, <1>7, <1>8, <2>1, SMTT(30)
<1> QED
  BY <1>9 DEF q

LEMMA InvReleaseChunkOf ==
    ASSUME TypeOK, Inv, ReleaseChunk, NEW s \in StreamIds, s = pc.s
    PROVE  Inv'
<1> DEFINE q == stream_unacked[s]
<1>1. /\ pc.at = "release" /\ s \in StreamIds /\ pc.upto \in Nat
      /\ q \in Seq(Chunk) /\ q # <<>>
  <2>1. pc.at = "release" /\ pc \in PC
    BY DEF TypeOK, ReleaseChunk
  <2>2. pc \in [at : {"release"}, s : StreamIds, upto : Nat]
    BY <2>1 DEF PC, Idle, Streams
  <2> QED
    BY <2>1, <2>2 DEF TypeOK
<1>2. /\ UNCHANGED <<stream_buffers, ng, net, rcvd, got, eof, wrote, finAt, aborted>> /\ SameEra
  BY DEF ReleaseChunk, SameEra, era, peer, history
<1>3. /\ pc.upto = ng[s].base
      /\ ng[s].st # "gone"
      /\ \A f \in ng[s].una : f.n > 0 => pc.upto <= f.off
  BY <1>1 DEF Inv, Releasing
<1>4. Head(q) = q[1]
  BY <1>1
<1>5. \/ /\ stream_acked_offset[s] + q[1].n <= pc.upto
         /\ stream_acked_offset' = [stream_acked_offset EXCEPT ![s] = @ + q[1].n]
         /\ stream_unacked' = [stream_unacked EXCEPT ![s] = Tail(@)]
         /\ pc' = release_next(s, pc.upto)
      \/ /\ ~(stream_acked_offset[s] + q[1].n <= pc.upto)
         /\ pc' = Idle
         /\ UNCHANGED <<stream_acked_offset, stream_unacked>>
  BY <1>4 DEF ReleaseChunk, released
<1>6. Retained(s) /\ Aligned(s) /\ Outstanding(s) /\ Freeable(s) /\ Queued(s)
      /\ Written(s) /\ Delivered(s)
  BY <1>1, SoundParts
<1>7. Queued(s)' /\ Written(s)' /\ Delivered(s)'
  BY <1>1, <1>2, <1>6, QueuedKept, WrittenKept, DeliveredKept
<1>8. Carried'
  <2>1. Carried /\ \A g \in rcvd : g.era = PeerEra
    BY DEF Inv, Carried
  <2>2. \A t \in StreamIds : ng[t].tx \in Nat
    BY NgType
  <2> QED
    BY <1>2, <2>1, <2>2, CarriedKept
<1> HIDE DEF q
<1>9. CASE /\ stream_acked_offset[s] + q[1].n <= pc.upto
           /\ stream_acked_offset' = [stream_acked_offset EXCEPT ![s] = @ + q[1].n]
           /\ stream_unacked' = [stream_unacked EXCEPT ![s] = Tail(@)]
           /\ pc' = release_next(s, pc.upto)
  <2>1. /\ stream_acked_offset'[s] = stream_acked_offset[s] + stream_unacked[s][1].n
        /\ stream_unacked'[s] = Tail(stream_unacked[s])
        /\ \A t \in StreamIds \ {s} : /\ stream_acked_offset'[t] = stream_acked_offset[t]
                                      /\ stream_unacked'[t] = stream_unacked[t]
    BY <1>1, <1>9 DEF TypeOK, q
  <2>2. Retained(s)' /\ Aligned(s)' /\ Outstanding(s)'
    <3>1. stream_unacked[s] # <<>> /\ stream_acked_offset'[s] <= pc.upto
      BY <1>1, <1>9, <2>1 DEF q
    <3> QED
      BY <1>1, <1>2, <1>3, <1>6, <2>1, <3>1, ReleaseHead
  <2>3. \/ pc'.at = "release" /\ pc'.s = s /\ pc'.upto = pc.upto
        \/ pc'.at # "release" /\ stream_unacked'[s] = <<>>
    <3>1. CASE Len(q) > 1
      BY <1>9, <3>1 DEF release_next, Release, q
    <3>2. CASE ~(Len(q) > 1)
      <4>1. pc' = Idle
        BY <1>9, <3>2 DEF release_next, q
      <4>3. Tail(q) = <<>>
        BY <1>1, <3>2, TailOfOne, Zenon
      <4> QED
        BY <2>1, <4>1, <4>3 DEF Idle, q
    <3> QED
      BY <3>1, <3>2
  <2>4. Freeable(s)'
    BY <1>2, <1>6, <2>3 DEF Freeable
  <2>5. Releasing'
    BY <1>2, <1>3, <2>3 DEF Releasing
  <2>6. ASSUME NEW t \in StreamIds \ {s} PROVE Sound(t)'
    BY <1>2, <2>1, Elsewhere
  <2>7. Sound(s)'
    BY <1>7, <2>2, <2>4 DEF Sound
  <2> QED
    BY <1>8, <2>5, <2>6, <2>7 DEF Inv
<1>10. CASE /\ ~(stream_acked_offset[s] + q[1].n <= pc.upto)
            /\ pc' = Idle
            /\ UNCHANGED <<stream_acked_offset, stream_unacked>>
  <2>1. Retained(s)' /\ Aligned(s)' /\ Outstanding(s)'
    BY <1>1, <1>2, <1>6, <1>10, RetainedKept, AlignedKept, OutstandingKept
  <2>2. Freeable(s)'
    <3>1. early # "rejected" =>
              \A i \in 1..Len(stream_unacked[s]) :
                  stream_unacked[s][i].off + stream_unacked[s][i].n > pc.upto
      BY <1>1, <1>3, <1>6, <1>10, KeptAreFresh DEF q
    <3> QED
      BY <1>2, <1>3, <1>6, <1>10, <3>1 DEF Freeable, SameEra
  <2>3. ASSUME NEW t \in StreamIds \ {s} PROVE Sound(t)'
    BY <1>2, <1>10, Elsewhere
  <2>4. Sound(s)'
    BY <1>7, <2>1, <2>2 DEF Sound
  <2>5. Releasing'
    BY <1>10, ReleasingIdle DEF Idle
  <2> QED
    BY <1>8, <2>3, <2>4, <2>5 DEF Inv
<1> QED
  BY <1>5, <1>9, <1>10

LEMMA InvReleaseChunk == ASSUME TypeOK, Inv, ReleaseChunk PROVE Inv'
<1>1. pc.at = "release" /\ pc \in PC
  BY DEF TypeOK, ReleaseChunk
<1>2. pc.s \in StreamIds
  BY <1>1 DEF PC, Idle, Streams
<1> QED
  BY <1>2, InvReleaseChunkOf

(* One chunk more, for the bytes ngtcp2 took.                              *)
LEMMA ChunkAdded ==
    ASSUME TypeOK, NEW s \in StreamIds, SameEra, NEW k \in Nat, k > 0,
           Retained(s), Aligned(s), Freeable(s), ng[s].st # "gone", ng'[s].st # "gone",
           pc.at # "release",
           ng'[s].tx = ng[s].tx + k, ng'[s].base = ng[s].base,
           stream_acked_offset'[s] = stream_acked_offset[s],
           stream_unacked'[s] = Append(stream_unacked[s],
               [era |-> era, off |-> ng[s].tx, first |-> ng[s].tx, n |-> k])
    PROVE  Retained(s)' /\ Aligned(s)' /\ Freeable(s)'
<1> DEFINE q == stream_unacked[s]
           c == [era |-> era, off |-> ng[s].tx, first |-> ng[s].tx, n |-> k]
           r == Append(q, c)
           n == Len(q)
           tx == ng[s].tx
           acked == stream_acked_offset[s]
<1>1. era \in {0, 1} /\ tx \in Nat /\ ng[s].base \in Nat /\ acked \in Nat
  BY EraType, NgType DEF TypeOK
<1>2. c \in Chunk /\ c.era = era /\ c.off = tx /\ c.first = tx /\ c.n = k
  BY <1>1 DEF Chunk
<1>3. r = stream_unacked'[s]
  OBVIOUS
<1> HIDE DEF c
<1>4. /\ n \in Nat /\ Len(r) = n + 1 /\ (\A i \in 1..n : r[i] = q[i]) /\ r[n + 1] = c
  <2>1. q \in Seq(Chunk)
    BY ChunkTypes
  <2> HIDE DEF q
  <2> QED
    BY <1>2, <2>1
<1>5. \A i \in 1..n : /\ q[i].era \in {0, 1} /\ q[i].off \in Nat /\ q[i].first \in Nat
                      /\ q[i].n \in Nat
  BY ChunkTypes
<1>6. /\ \A i \in 1..n :
            /\ q[i].n > 0
            /\ q[i].era <= era
            /\ q[i].era = era => /\ q[i].first = q[i].off
                                 /\ q[i].off + q[i].n <= tx
      /\ \A i \in 1..n : \A j \in 1..n :
            i < j => /\ q[i].era <= q[j].era
                     /\ q[i].era = q[j].era => q[i].off + q[i].n <= q[j].off
  BY DEF Retained
<1>7. /\ n = 0 => AtMost(tx, acked)
      /\ n > 0 /\ q[1].era = era => AtMost(q[1].off, acked)
      /\ n > 0 => IF q[n].era = era THEN q[n].off + q[n].n = tx
                                    ELSE tx = 0
      /\ \A i \in 1..n - 1 :
            q[i + 1].era = era =>
                q[i + 1].off = IF q[i].era = era THEN q[i].off + q[i].n ELSE 0
  BY DEF Aligned
<1>8. /\ ng[s].base <= tx
      /\ early # "rejected" => \A i \in 1..n : q[i].off + q[i].n > ng[s].base
  BY DEF Freeable
<1>9. ng'[s].tx = tx + k /\ stream_acked_offset'[s] = acked
  OBVIOUS
<1>10. era' = era /\ early' = early
  BY DEF SameEra
<1> HIDE DEF q, n, r, tx, acked
<1>11. \A i \in 1..n + 1 : i \in 1..n \/ i = n + 1
  BY <1>4
<1>12. Retained(s)'
  <2>1. ASSUME NEW i \in 1..n + 1
        PROVE  /\ r[i].n > 0
               /\ r[i].era <= era
               /\ r[i].era = era => r[i].first = r[i].off /\ r[i].off + r[i].n <= tx + k
    <3>1. CASE i \in 1..n
      <4>1. r[i] = q[i] /\ q[i].off \in Nat /\ q[i].n \in Nat
        BY <1>4, <1>5, <3>1
      <4>2. /\ q[i].n > 0
            /\ q[i].era <= era
            /\ q[i].era = era => /\ q[i].first = q[i].off
                                 /\ q[i].off + q[i].n <= tx
        BY <1>6, <3>1
      <4> QED
        BY <1>1, <4>1, <4>2
    <3>2. CASE i = n + 1
      BY <1>1, <1>2, <1>4, <3>2
    <3> QED
      BY <1>11, <3>1, <3>2
  <2>2. ASSUME NEW i \in 1..n + 1, NEW j \in 1..n + 1, i < j
        PROVE  /\ r[i].era <= r[j].era
               /\ r[i].era = r[j].era => r[i].off + r[i].n <= r[j].off
    <3>1. i \in 1..n /\ r[i] = q[i]
      BY <1>4, <1>11, <2>2
    <3>2. CASE j \in 1..n
      BY <1>4, <1>6, <2>2, <3>1, <3>2
    <3>3. CASE j = n + 1
      <4>1. r[j].era = era /\ r[j].off = tx
        BY <1>2, <1>4, <3>3
      <4> QED
        BY <1>6, <3>1, <4>1
    <3> QED
      BY <1>11, <3>2, <3>3
  <2> QED
    BY <1>3, <1>4, <1>9, <1>10, <2>1, <2>2 DEF Retained
<1>13. Aligned(s)'
  <2>1. n + 1 > 0 /\ n + 1 # 0
    BY <1>4
  <2>2. r[1].era = era => AtMost(r[1].off, acked)
    <3>1. CASE n = 0
      BY <1>2, <1>4, <1>7, <3>1
    <3>2. CASE n > 0
      <4>1. r[1] = q[1]
        BY <1>4, <3>2
      <4> QED
        BY <1>7, <3>2, <4>1
    <3> QED
      BY <1>4, <3>1, <3>2
  <2>3. r[n + 1].era = era /\ r[n + 1].off + r[n + 1].n = tx + k
    BY <1>2, <1>4
  <2>4. \A i \in 1..(n + 1) - 1 :
            r[i + 1].era = era =>
                r[i + 1].off = IF r[i].era = era THEN r[i].off + r[i].n ELSE 0
    <3> TAKE i \in 1..(n + 1) - 1
    <3>1. i \in 1..n /\ r[i] = q[i]
      BY <1>4
    <3>2. CASE i < n
      <4>1. i + 1 \in 1..n /\ i \in 1..n - 1
        BY <1>4, <3>1, <3>2
      <4> QED
        BY <1>4, <1>7, <3>1, <4>1
    <3>3. CASE i = n
      <4>1. r[i + 1].off = tx /\ n > 0
        BY <1>2, <1>4, <3>1, <3>3
      <4> QED
        BY <1>7, <3>1, <3>3, <4>1
    <3> QED
      BY <1>4, <3>1, <3>2, <3>3
  <2> QED
    BY <1>3, <1>4, <1>9, <1>10, <2>1, <2>2, <2>3, <2>4 DEF Aligned, AtMost
<1>14. Freeable(s)'
  <2>1. early # "rejected" => \A i \in 1..n + 1 : r[i].off + r[i].n > ng[s].base
    <3>1. c.off + c.n > ng[s].base
      BY <1>1, <1>2, <1>8
    <3> QED
      BY <1>4, <1>8, <1>11, <3>1
  <2>2. ng[s].base <= tx + k
    BY <1>1, <1>8
  <2> QED
    BY <1>3, <1>4, <1>9, <1>10, <2>1, <2>2 DEF Freeable
<1> QED
  BY <1>12, <1>13, <1>14

(* ngtcp2 will send the frame of the new chunk again until it is           *)
(* acknowledged.                                                           *)
LEMMA OutstandingGrows ==
    ASSUME TypeOK, NEW s \in StreamIds, SameEra, Outstanding(s), NEW k \in Nat,
           NEW g \in Frame, ng'[s].una \subseteq ng[s].una \cup {g},
           ng'[s].tx = ng[s].tx + k, finAt'[s] = finAt[s],
           g.era = era, g.off = ng[s].tx, g.n = k, g.fin => g.off + g.n = finAt[s],
           IF k > 0
           THEN stream_unacked'[s] = Append(stream_unacked[s],
                    [era |-> era, off |-> ng[s].tx, first |-> ng[s].tx, n |-> k])
           ELSE stream_unacked'[s] = stream_unacked[s]
    PROVE  Outstanding(s)'
<1> DEFINE q == stream_unacked[s]
           r == stream_unacked'[s]
           c == [era |-> era, off |-> ng[s].tx, first |-> ng[s].tx, n |-> k]
           tx == ng[s].tx
<1>1. era \in {0, 1} /\ tx \in Nat /\ era' = era
  BY EraType, NgType DEF SameEra
<1>2. c \in Chunk /\ c.era = era /\ c.off = tx /\ c.n = k
  BY <1>1 DEF Chunk
<1>3. q \in Seq(Chunk) /\ r = (IF k > 0 THEN Append(q, c) ELSE q)
  BY ChunkTypes
<1> HIDE DEF c, q
<1>4. /\ Len(q) \in Nat /\ Len(r) \in Nat /\ \A i \in 1..Len(q) : i \in 1..Len(r) /\ r[i] = q[i]
  <2>1. CASE k > 0
    <3> DEFINE a == Append(q, c)
    <3>1. Len(q) \in Nat /\ Len(a) = Len(q) + 1 /\ \A i \in 1..Len(q) : a[i] = q[i]
      BY <1>2, <1>3
    <3>2. r = a
      BY <1>3, <2>1
    <3> HIDE DEF a, r
    <3> QED
      BY <3>1, <3>2
  <2>2. CASE ~(k > 0)
    BY <1>3, <2>2
  <2> QED
    BY <2>1, <2>2
<1>5. k > 0 => \E i \in 1..Len(r) : r[i] = c
  <2> SUFFICES ASSUME k > 0 PROVE \E i \in 1..Len(r) : r[i] = c
    OBVIOUS
  <2> DEFINE a == Append(q, c)
  <2>1. Len(q) \in Nat /\ Len(a) = Len(q) + 1 /\ a[Len(q) + 1] = c
    BY <1>2, <1>3
  <2>2. r = a
    BY <1>3
  <2> HIDE DEF a, r
  <2> QED
    BY <2>1, <2>2
<1> HIDE DEF r, tx
<1>6. ASSUME NEW f \in ng[s].una
      PROVE  /\ f.era = era
             /\ f.off + f.n <= tx + k
             /\ f.n > 0 => \E i \in 1..Len(r) : Holds(r[i], f)
             /\ f.fin => f.off + f.n = finAt[s]
  <2>1. f.off \in Nat /\ f.n \in Nat
    <3>1. f \in Frame
      BY NgType
    <3> QED
      BY <3>1 DEF Frame
  <2>2. /\ f.era = era
        /\ f.off + f.n <= tx
        /\ f.n > 0 => \E i \in 1..Len(q) : Holds(q[i], f)
        /\ f.fin => f.off + f.n = finAt[s]
    BY DEF Outstanding, q, tx
  <2>3. f.off + f.n <= tx + k
    BY <1>1, <2>1, <2>2
  <2>4. f.n > 0 => \E i \in 1..Len(r) : Holds(r[i], f)
    BY <1>4, <2>2
  <2> QED
    BY <2>2, <2>3, <2>4
<1>7. /\ g.era = era
      /\ g.off + g.n <= tx + k
      /\ g.n > 0 => \E i \in 1..Len(r) : Holds(r[i], g)
  <2>1. Holds(c, g)
    BY <1>1, <1>2 DEF Holds, tx
  <2>2. g.off + g.n <= tx + k
    BY <1>1 DEF tx
  <2> QED
    BY <1>5, <2>1, <2>2
<1>8. ng'[s].tx = tx + k /\ r = stream_unacked'[s]
  BY DEF tx, r
<1> QED
  BY <1>1, <1>6, <1>7, <1>8 DEF Outstanding

(* The queue after ngtcp2 took k bytes of its front, short of FIN.         *)
LEMMA QueuedShrinks ==
    ASSUME TypeOK, NEW s \in StreamIds, Queued(s), ng[s].st = "open", NEW k \in Nat,
           NEW b, b = stream_buffers[s], b # <<>>, k <= b[1].n, k = 0 => b[1].n = 0,
           ~(b[1].fin /\ k = b[1].n),
           stream_buffers'[s] = consumed(b, k), ng'[s].tx = ng[s].tx + k,
           wrote'[s] = wrote[s], finAt'[s] = finAt[s]
    PROVE  Queued(s)'
<1> DEFINE tx == ng[s].tx
           w == wrote[s]
           n == Len(b)
           c == consumed(b, k)
<1>1. b \in Seq(Buffer) /\ tx \in Nat /\ w \in Nat
  BY NgType DEF TypeOK
<1>2. n \in Nat /\ n > 0 /\ 1 \in 1..n
  BY <1>1
<1>3. \A i \in 1..n : b[i].first \in Nat /\ b[i].n \in Nat /\ b[i].fin \in BOOLEAN
  <2>1. \A i \in 1..n : b[i] \in Buffer
    BY <1>1
  <2> QED
    BY <2>1 DEF Buffer
<1>4. /\ b[1].first = tx
      /\ \A i \in 1..n :
            Live(b, i) =>
                /\ b[i].first + b[i].n <= w
                /\ b[i].fin => b[i].first + b[i].n = finAt[s]
                /\ ~b[i].fin /\ i = n => b[i].first + b[i].n = w
                /\ ~b[i].fin /\ i < n => b[i + 1].first = b[i].first + b[i].n
      /\ IF finAt[s] = NoFin THEN \A i \in 1..n : ~b[i].fin
                             ELSE \E i \in 1..n : b[i].fin
  BY DEF Queued
<1>5. Live(b, 1)
  BY DEF Live
<1>6. /\ c \in Seq(Buffer)
      /\ k = 0 => c = b
      /\ k > 0 /\ b[1].n = k => c = Tail(b)
      /\ k > 0 /\ b[1].n > k =>
            /\ Len(c) = n
            /\ c[1] = [b[1] EXCEPT !.first = @ + k, !.n = @ - k]
            /\ \A i \in 2..n : c[i] = b[i]
  BY <1>1, ConsumedShape
<1>7. c = stream_buffers'[s] /\ ng'[s].tx = tx + k /\ wrote'[s] = w
  OBVIOUS
<1> HIDE DEF tx, w, c, n
<1>8. CASE k = 0
  <2>1. c = b /\ tx + k = tx
    BY <1>1, <1>6, <1>8
  <2> QED
    BY <1>7, <2>1 DEF Queued, Live, tx, w
<1>9. CASE k > 0 /\ b[1].n = k
  <2>1. c = Tail(b) /\ ~b[1].fin
    BY <1>6, <1>9
  <2>2. Len(c) = n - 1 /\ \A i \in 1..n - 1 : c[i] = b[i + 1]
    BY <1>1, <2>1 DEF n
  <2>3. \A i \in 1..n - 1 : i + 1 \in 1..n
    BY <1>2
  <2>4. ASSUME NEW i \in 1..n - 1, Live(c, i) PROVE Live(b, i + 1)
    <3> SUFFICES ASSUME NEW j \in 1..(i + 1) - 1 PROVE ~b[j].fin
      BY DEF Live
    <3>1. CASE j = 1
      BY <2>1, <3>1
    <3>2. CASE j # 1
      <4>1. j - 1 \in 1..i - 1 /\ j - 1 \in 1..n - 1 /\ (j - 1) + 1 = j
        BY <1>2, <3>2
      <4>2. ~c[j - 1].fin
        BY <2>4, <4>1 DEF Live
      <4> QED
        BY <2>2, <4>1, <4>2
    <3> QED
      BY <3>1, <3>2
  <2>5. IF c = <<>> THEN tx + k = w /\ finAt[s] = NoFin ELSE c[1].first = tx + k
    <3>1. CASE n = 1
      <4>1. c = <<>>
        BY <1>6, <2>2, <3>1
      <4>2. tx + k = w
        BY <1>2, <1>4, <1>5, <1>9, <2>1, <3>1
      <4>3. finAt[s] = NoFin
        BY <1>4, <2>1, <3>1
      <4> QED
        BY <4>1, <4>2, <4>3
    <3>2. CASE n > 1
      <4>1. c # <<>>
        BY <1>2, <2>2, <3>2
      <4>2. c[1] = b[2] /\ 1 + 1 = 2
        BY <1>2, <2>2, <3>2
      <4>3. b[2].first = b[1].first + b[1].n
        BY <1>2, <1>4, <1>5, <2>1, <3>2, <4>2
      <4> QED
        BY <1>4, <1>9, <4>1, <4>2, <4>3
    <3> QED
      BY <1>2, <3>1, <3>2
  <2>6. ASSUME NEW i \in 1..n - 1, Live(c, i)
        PROVE  /\ c[i].first + c[i].n <= w
               /\ c[i].fin => c[i].first + c[i].n = finAt[s]
               /\ ~c[i].fin /\ i = n - 1 => c[i].first + c[i].n = w
               /\ ~c[i].fin /\ i < n - 1 => c[i + 1].first = c[i].first + c[i].n
    <3>1. i + 1 \in 1..n /\ c[i] = b[i + 1] /\ Live(b, i + 1)
      BY <2>2, <2>3, <2>4, <2>6
    <3>2. i < n - 1 => c[i + 1] = b[(i + 1) + 1] /\ i + 1 < n
      BY <1>2, <2>2
    <3>3. i = n - 1 => i + 1 = n
      BY <1>2
    <3> QED
      BY <1>4, <3>1, <3>2, <3>3
  <2>7. IF finAt[s] = NoFin THEN \A i \in 1..n - 1 : ~c[i].fin
                            ELSE \E i \in 1..n - 1 : c[i].fin
    <3>1. CASE finAt[s] = NoFin
      BY <1>4, <2>2, <2>3, <3>1
    <3>2. CASE finAt[s] # NoFin
      <4>1. PICK i \in 1..n : b[i].fin
        BY <1>4, <3>2
      <4>2. i - 1 \in 1..n - 1 /\ (i - 1) + 1 = i
        BY <1>2, <2>1, <4>1
      <4> QED
        BY <2>2, <3>2, <4>1, <4>2
    <3> QED
      BY <3>1, <3>2
  <2> QED
    BY <1>7, <2>2, <2>5, <2>6, <2>7 DEF Queued
<1>10. CASE k > 0 /\ b[1].n > k
  <2>1. /\ Len(c) = n
        /\ c[1] = [b[1] EXCEPT !.first = @ + k, !.n = @ - k]
        /\ \A i \in 2..n : c[i] = b[i]
    BY <1>6, <1>10
  <2>2. c[1].first = b[1].first + k /\ c[1].n = b[1].n - k /\ c[1].fin = b[1].fin
    <3>1. b[1] \in Buffer
      BY <1>1, <1>2 DEF n
    <3> QED
      BY <2>1, <3>1 DEF Buffer
  <2>3. \A i \in 1..n : /\ c[i].first + c[i].n = b[i].first + b[i].n
                        /\ c[i].fin = b[i].fin
    <3> TAKE i \in 1..n
    <3>1. CASE i = 1
      <4>1. (b[1].first + k) + (b[1].n - k) = b[1].first + b[1].n
        BY <1>2, <1>3
      <4> QED
        BY <2>2, <3>1, <4>1
    <3>2. CASE i # 1
      <4>1. i \in 2..n
        BY <1>2, <3>2
      <4> QED
        BY <2>1, <4>1
    <3> QED
      BY <3>1, <3>2
  <2>4. ASSUME NEW i \in 1..n, Live(c, i) PROVE Live(b, i)
    <3>1. \A j \in 1..i - 1 : j \in 1..n /\ ~c[j].fin
      BY <1>2, <2>4 DEF Live
    <3> QED
      BY <2>3, <3>1 DEF Live
  <2>5. c # <<>> /\ c[1].first = tx + k
    BY <1>2, <1>4, <2>1, <2>2
  <2>6. ASSUME NEW i \in 1..n, Live(c, i)
        PROVE  /\ c[i].first + c[i].n <= w
               /\ c[i].fin => c[i].first + c[i].n = finAt[s]
               /\ ~c[i].fin /\ i = n => c[i].first + c[i].n = w
               /\ ~c[i].fin /\ i < n => c[i + 1].first = c[i].first + c[i].n
    <3>1. Live(b, i)
      BY <2>4, <2>6
    <3>2. i < n => i + 1 \in 2..n /\ c[i + 1] = b[i + 1]
      BY <1>2, <2>1
    <3> QED
      BY <1>4, <2>3, <3>1, <3>2
  <2>7. IF finAt[s] = NoFin THEN \A i \in 1..n : ~c[i].fin
                            ELSE \E i \in 1..n : c[i].fin
    BY <1>4, <2>3
  <2> QED
    BY <1>7, <2>1, <2>5, <2>6, <2>7 DEF Queued
<1> QED
  BY <1>2, <1>3, <1>8, <1>9, <1>10

LEMMA InvWriteFrame ==
    ASSUME TypeOK, Inv, NEW s \in StreamIds, NEW k \in 0..Credit(s), NEW full \in BOOLEAN,
           WriteFrame(s, k, full)
    PROVE  Inv'
<1> DEFINE b == stream_buffers[s]
           f == b[1].fin /\ k = b[1].n
           frame == [era |-> era, off |-> ng[s].tx, n |-> k, fin |-> f]
           chunk == [era |-> era, off |-> ng[s].tx, first |-> b[1].first, n |-> k]
           sent == IF k > 0 \/ f THEN {frame} ELSE {}
           p == InPacket(s, frame, b[1].first)
           r == [ng[s] EXCEPT !.tx = @ + k, !.st = IF f THEN "shut" ELSE @, !.una = @ \cup sent]
<1>1. /\ k \in Nat /\ b \in Seq(Buffer) /\ b # <<>> /\ b[1] \in Buffer
      /\ ng[s].st = "open" /\ k <= b[1].n /\ (k = 0 => b[1].n = 0)
      /\ frame \in Frame /\ chunk \in Chunk
      /\ ng' = [ng EXCEPT ![s].tx = @ + k,
                          ![s].st = IF f THEN "shut" ELSE @,
                          ![s].una = @ \cup sent]
      /\ net' = net \cup {InPacket(s, g, b[1].first) : g \in sent}
      /\ stream_unacked' =
             [stream_unacked EXCEPT ![s] = IF k > 0 THEN Append(@, chunk) ELSE @]
      /\ stream_buffers' = [stream_buffers EXCEPT ![s] = consumed(@, k)]
      /\ pc.at = "streams" /\ pc' \in PC /\ pc'.at # "release"
      /\ UNCHANGED <<handshake_completed, early, stream_acked_offset,
                     datagram_queue, peer, history, spent>>
  BY WriteFrameStep
<1>2. /\ pc.at # "release" /\ SameEra
      /\ UNCHANGED <<stream_acked_offset, rcvd, got, eof, wrote, finAt, aborted>>
  BY <1>1 DEF SameEra, era, peer, history
<1>3. /\ stream_buffers'[s] = consumed(b, k)
      /\ stream_unacked'[s] = IF k > 0 THEN Append(stream_unacked[s], chunk) ELSE stream_unacked[s]
      /\ \A t \in StreamIds \ {s} : /\ stream_unacked'[t] = stream_unacked[t]
                                    /\ stream_buffers'[t] = stream_buffers[t]
  <2>1. /\ stream_buffers \in [StreamIds -> Seq(Buffer)]
        /\ stream_unacked \in [StreamIds -> Seq(Chunk)]
    BY DEF TypeOK
  <2> HIDE DEF chunk
  <2> QED
    BY <1>1, <2>1
<1>4. b[1].first \in Nat /\ b[1].n \in Nat /\ b[1].fin \in BOOLEAN /\ f \in BOOLEAN
  BY <1>1 DEF Buffer
<1>5. /\ b[1].first = ng[s].tx /\ b[1].first + b[1].n <= wrote[s]
      /\ b[1].fin => b[1].first + b[1].n = finAt[s]
  <2>1. Queued(s)
    BY SoundParts
  <2>2. Live(b, 1) /\ 1 \in 1..Len(b)
    BY <1>1 DEF Live
  <2> QED
    BY <1>1, <2>1, <2>2 DEF Queued
<1>6. /\ frame.era = era /\ frame.off = ng[s].tx /\ frame.n = k /\ frame.fin = f
      /\ chunk = [era |-> era, off |-> ng[s].tx, first |-> ng[s].tx, n |-> k]
      /\ sent \subseteq {frame}
  BY <1>5
<1>7. /\ p \in NetFrame /\ p.s = s /\ p.era = era /\ p.off = ng[s].tx /\ p.n = k
      /\ p.first = ng[s].tx /\ p.fin = f /\ net' \subseteq net \cup {p}
  <2>1. p \in NetFrame /\ p.s = s /\ p.era = era /\ p.off = ng[s].tx /\ p.n = k
        /\ p.first = ng[s].tx /\ p.fin = f
    <3> HIDE DEF frame
    <3> QED
      BY <1>1, <1>4, <1>5, <1>6 DEF InPacket, NetFrame, Frame
  <2>2. net' \subseteq net \cup {p}
    <3> HIDE DEF frame
    <3> QED
      BY <1>1
  <2> QED
    BY <2>1, <2>2
<1>8. ng[s].tx \in Nat /\ wrote[s] \in Nat /\ ng \in [StreamIds -> StreamRecord]
      /\ finAt[s] \in Nat \cup {NoFin}
  BY NgType DEF TypeOK
<1>9. /\ ng[s].tx + k <= wrote[s]
      /\ f => ng[s].tx + k = finAt[s] /\ finAt[s] # NoFin
  BY <1>1, <1>4, <1>5, <1>8, SMTT(20) DEF NoFin
<1> HIDE DEF frame, chunk, p, f, sent
<1>10. /\ r \in StreamRecord /\ r.tx = ng[s].tx + k /\ r.base = ng[s].base
       /\ r.st = (IF f THEN "shut" ELSE "open")
       /\ r.una \subseteq ng[s].una \cup {frame}
  <2>1. /\ ng[s].tx + k \in Nat
        /\ (IF f THEN "shut" ELSE ng[s].st) \in StreamState
        /\ ng[s].una \cup sent \in SUBSET Frame
    BY <1>1, <1>6, <1>8, NgType DEF StreamState
  <2>2. /\ r \in StreamRecord /\ r.tx = ng[s].tx + k /\ r.base = ng[s].base
        /\ r.st = (IF f THEN "shut" ELSE ng[s].st) /\ r.una = ng[s].una \cup sent
    BY <1>8, <2>1 DEF StreamRecord
  <2> HIDE DEF r
  <2> QED
    BY <1>1, <1>6, <2>2
<1>11. ng' = [ng EXCEPT ![s] = r]
  BY <1>1, <1>8
<1> HIDE DEF r
<1>12. ng'[s] = r /\ \A t \in StreamIds \ {s} : ng'[t] = ng[t]
  BY <1>8, <1>11
<1>13. Retained(s) /\ Aligned(s) /\ Outstanding(s) /\ Freeable(s) /\ Queued(s) /\ Written(s)
       /\ Delivered(s)
  BY SoundParts
<1>14. Retained(s)' /\ Aligned(s)' /\ Freeable(s)'
  <2>1. r.st # "gone" /\ ng[s].st # "gone"
    BY <1>1, <1>10
  <2>2. CASE k > 0
    <3>1. stream_unacked'[s] = Append(stream_unacked[s], chunk)
      BY <1>3, <2>2
    <3> QED
      BY <1>1, <1>2, <1>6, <1>10, <1>12, <1>13, <2>1, <2>2, <3>1, ChunkAdded
  <2>3. CASE ~(k > 0)
    <3>1. stream_unacked'[s] = stream_unacked[s] /\ r.tx = ng[s].tx
      BY <1>1, <1>3, <1>8, <1>10, <2>3
    <3> QED
      BY <1>2, <1>10, <1>12, <1>13, <2>1, <3>1, RetainedKept, AlignedKept, FreeableKept
  <2> QED
    BY <2>2, <2>3
<1>15. Outstanding(s)'
  <2>1. frame.fin => frame.off + frame.n = finAt[s]
    BY <1>6, <1>9
  <2>2. IF k > 0
        THEN stream_unacked'[s] = Append(stream_unacked[s],
                 [era |-> era, off |-> ng[s].tx, first |-> ng[s].tx, n |-> k])
        ELSE stream_unacked'[s] = stream_unacked[s]
    BY <1>3, <1>6
  <2> QED
    BY <1>1, <1>2, <1>6, <1>10, <1>12, <1>13, <2>1, <2>2, OutstandingGrows
<1>16. Queued(s)'
  <2>1. CASE f
    BY <1>10, <1>12, <1>13, <2>1, QueuedKept
  <2>2. CASE ~f
    BY <1>1, <1>2, <1>3, <1>10, <1>12, <1>13, <2>2, QueuedShrinks DEF f
  <2> QED
    BY <2>1, <2>2
<1>17. Written(s)'
  BY <1>1, <1>2, <1>9, <1>10, <1>12, <1>13 DEF Written
<1>18. Delivered(s)'
  BY <1>2, <1>13, DeliveredKept
<1>19. Sound(s)'
  BY <1>14, <1>15, <1>16, <1>17, <1>18 DEF Sound
<1>20. ASSUME NEW t \in StreamIds \ {s} PROVE Sound(t)'
  BY <1>2, <1>3, <1>12, Elsewhere
<1>21. Carried'
  <2>1. Carried
    BY DEF Inv
  <2>2. \A t \in StreamIds : ng[t].tx \in Nat /\ ng'[t].tx \in Nat /\ ng[t].tx <= ng'[t].tx
    BY <1>1, <1>8, <1>10, <1>12, NgType
  <2>3. p.off + p.n <= ng'[p.s].tx /\ (p.fin => p.off + p.n = finAt'[p.s])
        /\ (p.n > 0 => p.first = p.off)
    BY <1>1, <1>2, <1>7, <1>8, <1>9, <1>10, <1>12
  <2> QED
    BY <1>2, <1>7, <2>1, <2>2, <2>3, CarriedGrows
<1> QED
  BY <1>1, <1>19, <1>20, <1>21, ReleasingIdle DEF Inv

-----------------------------------------------------------------------------
(* Every step of the specification keeps types and invariant.              *)
LEMMA InvNext ==
    ASSUME TypeOK, Inv, [Next]_vars
    PROVE  TypeOK' /\ Inv'
<1>0. Carried
  BY DEF Inv
<1>1. CASE UNCHANGED vars
  BY <1>1, TypeStutter, InvQuiet
<1>2. ASSUME NEW s \in StreamIds, open_stream(s) PROVE TypeOK' /\ Inv'
  BY <1>2, TypeOpen, InvOpenStream
<1>3. ASSUME NEW s \in StreamIds, reset_stream(s) PROVE TypeOK' /\ Inv'
  BY <1>3, TypeResetStream, InvResetStream
<1>4. ASSUME NEW s \in StreamIds, close_stream(s) PROVE TypeOK' /\ Inv'
  BY <1>4, TypeCloseStream, InvCloseStream
<1>5. ASSUME NEW s \in StreamIds, NEW n \in WriteSizes, NEW f \in BOOLEAN, send_stream_data(s, n, f)
      PROVE  TypeOK' /\ Inv'
  BY <1>5, TypeSendStreamData, InvSendStreamData
<1>6. ASSUME NEW k \in DatagramKinds, send_datagram(k) PROVE TypeOK' /\ Inv'
  BY <1>6, TypeSendDatagram, InvQuiet
<1>7. CASE Call
  BY <1>2, <1>3, <1>4, <1>5, <1>6, <1>7 DEF Call
<1>8. CASE SendCall \/ DropDatagram \/ SendDone
  BY <1>8, TypeSendCall, TypeDropDatagram, TypeSendDone, InvQuiet
<1>9. ASSUME NEW s \in StreamIds, DropWrites(s) PROVE TypeOK' /\ Inv'
  BY <1>9, TypeDropWrites, InvDropWrites
<1>10. ASSUME NEW s \in StreamIds, NoRoom(s) PROVE TypeOK' /\ Inv'
  BY <1>10, TypeNoRoom, InvQuiet
<1>11. ASSUME NEW s \in StreamIds, NEW k \in 0..Credit(s), NEW full \in BOOLEAN, WriteFrame(s, k, full)
       PROVE  TypeOK' /\ Inv'
  BY <1>11, TypeWriteFrame, InvWriteFrame
<1>12. ASSUME NEW full \in BOOLEAN, WriteDatagram(full) PROVE TypeOK' /\ Inv'
  BY <1>12, TypeWriteDatagram, InvQuiet
<1>13. ASSUME NEW s \in StreamIds, NEW f \in ng[s].una, Retransmit(s, f) PROVE TypeOK' /\ Inv'
  BY <1>13, TypeRetransmit, InvRetransmit
<1>14. ASSUME NEW s \in StreamIds, NEW f \in ng[s].una, NEW k \in 1..f.n, Split(s, f, k)
       PROVE  TypeOK' /\ Inv'
  BY <1>14, TypeSplit, InvSplit
<1>15. CASE Send
  BY <1>8, <1>9, <1>10, <1>11, <1>12, <1>13, <1>14, <1>15 DEF Send, Write
<1>16. CASE ReleaseChunk \/ HandshakeCompleted
  BY <1>16, TypeReleaseChunk, InvReleaseChunk, TypeHandshakeCompleted, InvHandshakeCompleted
<1>17. ASSUME NEW s \in StreamIds, StreamClosed(s) PROVE TypeOK' /\ Inv'
  BY <1>17, TypeStreamClosed, InvStreamClosed
<1>18. ASSUME NEW s \in StreamIds, StopSending(s) PROVE TypeOK' /\ Inv'
  BY <1>18, TypeStopSending, InvStopSending
<1>19. ASSUME NEW s \in StreamIds, MaxStreamData(s) PROVE TypeOK' /\ Inv'
  BY <1>19, TypeMaxStreamData, InvMaxStreamData
<1>20. ASSUME NEW s \in StreamIds, NEW f \in ng[s].una, Ack(s, f) PROVE TypeOK' /\ Inv'
  BY <1>20, TypeAck, InvAck
<1>21. CASE Receive
  BY <1>16, <1>17, <1>18, <1>19, <1>20, <1>21 DEF Receive
<1>22. ASSUME NEW f \in net, Lose(f) PROVE TypeOK' /\ Inv'
  BY <1>22, TypeLose, InvLose
<1>23. ASSUME NEW f \in net, PeerReceive(f) PROVE TypeOK' /\ Inv'
  BY <1>0, <1>23, TypePeerReceive, InvPeerReceive
<1>24. ASSUME NEW s \in StreamIds, PeerReset(s) PROVE TypeOK' /\ Inv'
  BY <1>24, TypePeerReset, InvQuiet
<1>25. CASE World
  BY <1>22, <1>23, <1>24, <1>25 DEF World
<1> QED
  BY <1>1, <1>7, <1>15, <1>21, <1>25 DEF Next

(* Types and invariant hold in every reachable state, for any streams,     *)
(* window, sizes of writes and number of losses.                           *)
THEOREM Invariance == Spec => [](TypeOK /\ Inv)
<1>1. Init => TypeOK /\ Inv
  BY TypeInit, InvInit
<1>2. (TypeOK /\ Inv) /\ [Next]_vars => (TypeOK /\ Inv)'
  BY InvNext
<1> QED
  BY <1>1, <1>2, PTL DEF Spec

(* Every queue, chunk, offset and frame of the binding keeps its type: no  *)
(* length send() cuts from a buffer becomes negative, and the release loop *)
(* of acked_stream_data_offset_cb never runs on an empty list.             *)
THEOREM TypeCorrect == Spec => []TypeOK
  BY Invariance, PTL

LEMMA InvHeld == TypeOK /\ Inv => HeldIntact
<1> SUFFICES ASSUME TypeOK, Inv, NEW s \in StreamIds
             PROVE  /\ \A f \in ng[s].una : f.n > 0 => Backed(s, f)
                    /\ pc.at # "release" /\ early # "rejected" /\ ng[s].st # "cut" =>
                          \A i \in 1..Len(stream_unacked[s]) :
                              LET c == stream_unacked[s][i]
                              IN  c.off + c.n > ng[s].base
  BY DEF HeldIntact
<1>1. Retained(s) /\ Outstanding(s) /\ Freeable(s)
  BY SoundParts
<1>2. ASSUME NEW f \in ng[s].una, f.n > 0 PROVE Backed(s, f)
  <2>1. f.era = era
    BY <1>1 DEF Outstanding
  <2>2. PICK i \in 1..Len(stream_unacked[s]) : Holds(stream_unacked[s][i], f)
    BY <1>1, <1>2 DEF Outstanding
  <2>3. stream_unacked[s][i].era = era
    BY <2>1, <2>2 DEF Holds
  <2>4. stream_unacked[s][i].first = stream_unacked[s][i].off
    BY <1>1, <2>3 DEF Retained
  <2> QED
    BY <2>2, <2>4 DEF Backed
<1> QED
  BY <1>1, <1>2 DEF Freeable

(* Memory ngtcp2 may read again has not been freed and holds the bytes     *)
(* first sent, whatever order acknowledgements come in and however often a *)
(* frame is split, and outside the callback nothing within the             *)
(* acknowledged prefix is kept.                                            *)
THEOREM HeldAlwaysIntact == Spec => []HeldIntact
  BY Invariance, InvHeld, PTL

-----------------------------------------------------------------------------
(* The refinement of the byte stream.                                      *)

(* The first n bytes of a stream.                                          *)
Count(n) == [i \in 1..n |-> i - 1]

LEMMA CountSeq ==
    ASSUME NEW n \in Nat
    PROVE  /\ Count(n) \in Seq(Nat \cup {Freed}) /\ Len(Count(n)) = n
           /\ \A i \in 1..n : Count(n)[i] = i - 1
<1>1. \A i \in 1..n : i - 1 \in Nat \cup {Freed}
  OBVIOUS
<1> QED
  BY <1>1 DEF Count

LEMMA CountPrefix ==
    ASSUME NEW m \in Nat, NEW n \in Nat, m <= n
    PROVE  BS!IsPrefix(Count(m), Count(n))
<1>1. SubSeq(Count(m), 1, m) = Count(m)
  BY CountSeq DEF Count
<1>2. SubSeq(Count(n), 1, m) = Count(m)
  BY CountSeq DEF Count
<1> QED
  BY <1>1, <1>2, CountSeq DEF BS!IsPrefix

LEMMA CountEmpty == Count(0) = <<>>
  BY CountSeq DEF Count

LEMMA SentCount == \A s \in StreamIds : SentBytes[s] = Count(wrote[s])
  BY DEF SentBytes, Count

LEMMA GotCount ==
    ASSUME TypeOK, NEW s \in StreamIds, Delivered(s)
    PROVE  Len(got[s]) \in Nat /\ got[s] = Count(Len(got[s]))
<1>1. got[s] \in Seq(Nat \cup {Freed}) /\ Len(got[s]) \in Nat
  BY DEF TypeOK
<1>2. \A i \in 1..Len(got[s]) : got[s][i] = i - 1
  BY DEF Delivered
<1>3. got[s] = [i \in 1..Len(got[s]) |-> got[s][i]]
  BY <1>1
<1> QED
  BY <1>1, <1>2, <1>3 DEF Count

LEMMA RefInit == Init => BS!Init
<1> SUFFICES ASSUME Init PROVE BS!Init
  OBVIOUS
<1>1. SentBytes = [s \in StreamIds |-> <<>>]
  <2>1. \A s \in StreamIds : wrote[s] = 0
    BY DEF Init
  <2>2. SentBytes = [s \in StreamIds |-> Count(0)]
    BY <2>1 DEF SentBytes, Count
  <2> QED
    BY <2>2, CountEmpty
<1>2. [s \in StreamIds |-> finAt[s] # NoFin] = [s \in StreamIds |-> FALSE]
  BY DEF Init
<1> QED
  BY <1>1, <1>2 DEF Init, BS!Init

LEMMA RefStutter ==
    UNCHANGED <<wrote, finAt, aborted, got, eof>> => UNCHANGED BS!vars
  BY DEF BS!vars, SentBytes

LEMMA RefSendStreamData ==
    ASSUME TypeOK, Inv, NEW s \in StreamIds, NEW n \in WriteSizes, NEW f \in BOOLEAN,
           send_stream_data(s, n, f)
    PROVE  BS!Write(s) \/ UNCHANGED BS!vars
<1> DEFINE ended == [t \in StreamIds |-> finAt[t] # NoFin]
<1>1. /\ UNCHANGED <<got, eof, aborted>>
      /\ n \in Nat /\ wrote \in [StreamIds -> Nat] /\ finAt \in [StreamIds -> Nat \cup {NoFin}]
  BY SizeAssumption DEF send_stream_data, peer, TypeOK
<1>2. CASE ng[s].st = "open" /\ finAt[s] = NoFin
  <2>1. /\ wrote' = [wrote EXCEPT ![s] = @ + n]
        /\ finAt' = [finAt EXCEPT ![s] = IF f THEN wrote[s] + n ELSE @]
    BY <1>2 DEF send_stream_data
  <2>2. wrote'[s] = wrote[s] + n /\ wrote[s] \in Nat
        /\ \A t \in StreamIds \ {s} : wrote'[t] = wrote[t] /\ finAt'[t] = finAt[t]
    BY <1>1, <2>1
  <2>3. ~aborted[s]
    BY <1>2, SoundParts DEF Written
  <2>4. SentBytes[s] = Count(wrote[s]) /\ SentBytes'[s] = Count(wrote'[s])
        /\ \A t \in StreamIds \ {s} : SentBytes[t] = SentBytes'[t]
    BY <2>2 DEF SentBytes, Count
  <2>5. wrote'[s] \in Nat /\ wrote[s] <= wrote'[s]
    BY <1>1, <2>2
  <2>6. BS!IsPrefix(SentBytes[s], SentBytes'[s]) /\ SentBytes'[s] \in Seq(Nat \cup {Freed})
    BY <2>2, <2>4, <2>5, CountPrefix, CountSeq
  <2>7. /\ ~ended[s] /\ ended'[s] \in BOOLEAN
        /\ \A t \in StreamIds \ {s} : ended[t] = ended'[t]
    BY <1>2, <2>2
  <2> QED
    BY <1>1, <2>3, <2>4, <2>6, <2>7 DEF BS!Write, BS!OnlyAt
<1>3. CASE ~(ng[s].st = "open" /\ finAt[s] = NoFin)
  <2>1. UNCHANGED <<wrote, finAt>>
    BY <1>3 DEF send_stream_data
  <2> QED
    BY <1>1, <2>1, RefStutter
<1> QED
  BY <1>2, <1>3

LEMMA RefCut ==
    ASSUME NEW s \in StreamIds, aborted' = [aborted EXCEPT ![s] = TRUE],
           UNCHANGED <<wrote, finAt, got, eof>>
    PROVE  BS!Cut(s)
  BY DEF BS!Cut, SentBytes

LEMMA RefHandshakeCompleted ==
    ASSUME TypeOK, Inv, HandshakeCompleted
    PROVE  BS!Restart \/ UNCHANGED BS!vars
<1>1. UNCHANGED <<got, eof>>
  BY DEF HandshakeCompleted, peer
<1>2. CASE early # "rejected"
  BY <1>1, <1>2, RefStutter DEF HandshakeCompleted, history
<1>3. CASE early = "rejected"
  <2>1. /\ wrote' = [s \in StreamIds |-> 0]
        /\ finAt' = [s \in StreamIds |-> NoFin]
        /\ aborted' = [s \in StreamIds |-> FALSE]
        /\ era = 0 /\ PeerEra = 1
    BY <1>3 DEF HandshakeCompleted, era, PeerEra
  <2>2. rcvd = {}
    <3> SUFFICES ASSUME NEW f \in rcvd PROVE FALSE
      OBVIOUS
    <3>1. f.era = 1 /\ f.era <= 0
      BY <2>1 DEF Inv, Carried
    <3> QED
      BY <3>1
  <2>3. ASSUME NEW s \in StreamIds PROVE got[s] = <<>> /\ ~eof[s]
    <3>1. Delivered(s)
      BY SoundParts
    <3>2. Len(got[s]) \in Nat /\ got[s] = Count(Len(got[s]))
      BY <3>1, GotCount
    <3>3. Len(got[s]) = 0
      <4> SUFFICES ASSUME Len(got[s]) # 0 PROVE FALSE
        OBVIOUS
      <4>1. 0 \in 0..Len(got[s]) - 1
        BY <3>2
      <4> QED
        BY <2>2, <3>1, <4>1 DEF Delivered
    <3>4. ~eof[s]
      BY <2>2, <3>1 DEF Delivered
    <3> QED
      BY <3>2, <3>3, <3>4, CountEmpty
  <2>4. SentBytes' = [s \in StreamIds |-> <<>>]
    <3>1. \A s \in StreamIds : wrote'[s] = 0
      BY <2>1
    <3>2. SentBytes' = [s \in StreamIds |-> Count(0)]
      BY <3>1 DEF SentBytes, Count
    <3> QED
      BY <3>2, CountEmpty
  <2>5. [s \in StreamIds |-> finAt[s] # NoFin]' = [s \in StreamIds |-> FALSE]
    BY <2>1
  <2> QED
    BY <1>1, <2>1, <2>3, <2>4, <2>5 DEF BS!Restart
<1> QED
  BY <1>2, <1>3

LEMMA RefPeerReceive ==
    ASSUME TypeOK, Inv, TypeOK', Inv', NEW f \in net, PeerReceive(f), NEW s, s = f.s
    PROVE  s \in StreamIds /\ (BS!Deliver(s) \/ UNCHANGED BS!vars)
<1> DEFINE fs == rcvd \cup {f}
           a == Assembled(s, fs)
           ended == [t \in StreamIds |-> finAt[t] # NoFin]
<1>1. /\ s \in StreamIds
      /\ \A g \in fs : /\ g \in NetFrame
                       /\ g.off + g.n <= ng[g.s].tx
                       /\ g.fin => g.off + g.n = finAt[g.s]
  <2>1. Carried
    BY DEF Inv
  <2> QED
    BY <2>1, PeerReceiveStep
<1>2. UNCHANGED <<wrote, finAt, aborted>>
  BY DEF PeerReceive, history
<1>3. CASE UNCHANGED peer
  BY <1>1, <1>2, <1>3, RefStutter DEF peer
<1>4. CASE ~UNCHANGED peer
  <2>1. /\ rcvd' = fs
        /\ got' = [got EXCEPT ![s] = a]
        /\ eof' = [eof EXCEPT ![s] = \E g \in fs : /\ g.s = s
                                                   /\ g.fin
                                                   /\ g.off + g.n = Len(a)]
    BY <1>4 DEF PeerReceive
  <2>2. got'[s] = a /\ \A t \in StreamIds \ {s} : got'[t] = got[t] /\ eof'[t] = eof[t]
    BY <1>1, <2>1, ZenonT(40) DEF TypeOK
  <2>3. Delivered(s) /\ Delivered(s)' /\ Written(s)
    BY <1>1, SoundParts DEF Inv, Sound
  <2> DEFINE m == Len(got[s])
             n == Len(a)
  <2>4. m \in Nat /\ got[s] = Count(m)
    BY <1>1, <2>3, GotCount
  <2>5. n \in Nat /\ a = Count(n)
    <3>1. got'[s] \in Seq(Nat \cup {Freed})
      BY <1>1 DEF TypeOK
    <3>2. \A i \in 1..Len(got'[s]) : got'[s][i] = i - 1
      BY <2>3 DEF Delivered
    <3> HIDE DEF a
    <3>3. a = [i \in 1..n |-> a[i]] /\ n \in Nat
      BY <2>2, <3>1
    <3>4. \A i \in 1..n : a[i] = i - 1
      BY <2>2, <3>2
    <3> HIDE DEF n
    <3> QED
      BY <3>3, <3>4 DEF Count
  <2>6. n <= ng[s].tx /\ ng[s].tx \in Nat /\ wrote[s] \in Nat /\ ng[s].tx <= wrote[s]
    <3>1. fs \in SUBSET NetFrame /\ ng[s].tx \in Nat
          /\ \A g \in fs : g.s = s => g.off + g.n <= ng[s].tx
      BY <1>1, NgType
    <3>2. wrote[s] \in Nat /\ ng[s].tx <= wrote[s]
      BY <1>1, <2>3 DEF TypeOK, Written
    <3> HIDE DEF fs
    <3> QED
      BY <1>1, <3>1, <3>2, AssembledShape
  <2>7. m <= n
    <3> SUFFICES ASSUME n < m PROVE FALSE
      BY <2>4, <2>5
    <3>1. n \in 0..m - 1
      BY <2>4, <2>5
    <3>2. PICK g \in rcvd : g.s = s /\ Covers(g, n)
      BY <2>3, <3>1 DEF Delivered
    <3>3. g \in rcvd' /\ Len(got'[s]) = n
      BY <2>1, <2>2
    <3> QED
      BY <2>3, <3>2, <3>3 DEF Delivered, Covers
  <2> HIDE DEF a, fs, m, n
  <2>8. BS!IsPrefix(got[s], got'[s]) /\ BS!IsPrefix(got'[s], SentBytes[s])
    <3>1. n <= wrote[s]
      BY <2>5, <2>6
    <3>2. SentBytes[s] = Count(wrote[s])
      BY <1>1, SentCount
    <3> QED
      BY <2>2, <2>4, <2>5, <2>6, <2>7, <3>1, <3>2, CountPrefix
  <2>9. ASSUME NEW g \in fs, g.s = s, g.fin, g.off + g.n = n
        PROVE  finAt[s] # NoFin /\ n = wrote[s]
    <3>1. n = finAt[s]
      BY <1>1, <2>9
    <3>2. finAt[s] # NoFin
      BY <2>5, <3>1 DEF NoFin
    <3> QED
      BY <2>3, <3>1, <3>2 DEF Written
  <2>10. eof'[s] => finAt[s] # NoFin /\ n = wrote[s]
    <3>1. eof'[s] => \E g \in rcvd' : g.s = s /\ g.fin /\ g.off + g.n = Len(got'[s])
      BY <2>3 DEF Delivered
    <3>2. Len(got'[s]) = n
      BY <2>2 DEF n
    <3> QED
      BY <2>1, <2>9, <3>1, <3>2
  <2>11. eof'[s] \in BOOLEAN
    BY <1>1 DEF TypeOK
  <2>12. CASE ~eof[s]
    <3>1. SentBytes' = SentBytes /\ ended' = ended
      BY <1>2 DEF SentBytes
    <3>2. eof'[s] => ended[s] /\ got'[s] = SentBytes[s]
      BY <1>1, <2>2, <2>5, <2>10, SentCount
    <3> QED
      BY <1>1, <1>2, <2>2, <2>8, <2>11, <2>12, <3>1, <3>2 DEF BS!Deliver, BS!OnlyAt
  <2>13. CASE eof[s]
    <3>1. PICK g \in rcvd : g.s = s /\ g.fin /\ g.off + g.n = m
      BY <2>3, <2>13 DEF Delivered, m
    <3>2. g \in fs /\ m = finAt[s]
      BY <1>1, <3>1 DEF fs
    <3>3. m = wrote[s]
      <4>1. finAt[s] # NoFin
        BY <2>4, <3>2 DEF NoFin
      <4> QED
        BY <2>3, <3>2, <4>1 DEF Written
    <3>4. n = m
      BY <2>4, <2>5, <2>6, <2>7, <3>3
    <3>5. got' = got
      BY <1>1, <2>1, <2>4, <2>5, <3>4 DEF TypeOK
    <3>6. eof' = eof
      <4> DEFINE e == \E h \in fs : h.s = s /\ h.fin /\ h.off + h.n = Len(a)
      <4>1. e
        BY <3>1, <3>2, <3>4 DEF n
      <4>2. eof' = [eof EXCEPT ![s] = e]
        BY <2>1
      <4>3. eof \in [StreamIds -> BOOLEAN]
        BY DEF TypeOK
      <4> HIDE DEF e
      <4> QED
        BY <1>1, <2>13, <4>1, <4>2, <4>3
    <3> QED
      BY <1>1, <1>2, <3>5, <3>6, RefStutter
  <2> QED
    BY <1>1, <2>12, <2>13
<1> QED
  BY <1>3, <1>4

(* Every step is a step of the byte stream or leaves it as it is.          *)
LEMMA RefNext ==
    ASSUME TypeOK, Inv, [Next]_vars
    PROVE  [BS!Next]_(BS!vars)
<1>0. TypeOK' /\ Inv'
  BY InvNext
<1>1. CASE UNCHANGED vars
  BY <1>1, RefStutter DEF vars, peer, history
<1>2. ASSUME NEW s \in StreamIds, open_stream(s) PROVE UNCHANGED BS!vars
  BY <1>2, RefStutter DEF open_stream, peer, history
<1>3. ASSUME NEW s \in StreamIds, reset_stream(s) PROVE BS!Cut(s)
  BY <1>3, RefCut DEF reset_stream, peer
<1>4. ASSUME NEW s \in StreamIds, close_stream(s) PROVE BS!Cut(s)
  BY <1>4, RefCut DEF close_stream, Shutdown, peer
<1>5. ASSUME NEW s \in StreamIds, NEW n \in WriteSizes, NEW f \in BOOLEAN, send_stream_data(s, n, f)
      PROVE  BS!Write(s) \/ UNCHANGED BS!vars
  BY <1>5, RefSendStreamData
<1>6. ASSUME NEW k \in DatagramKinds, send_datagram(k) PROVE UNCHANGED BS!vars
  BY <1>6, RefStutter DEF send_datagram, peer, history
<1>7. CASE Call
  BY <1>2, <1>3, <1>4, <1>5, <1>6, <1>7 DEF Call, BS!Next
<1>8. CASE SendCall \/ DropDatagram \/ SendDone
  BY <1>8, RefStutter DEF SendCall, DropDatagram, SendDone, peer, history
<1>9. ASSUME NEW s \in StreamIds, DropWrites(s) \/ NoRoom(s) PROVE UNCHANGED BS!vars
  BY <1>9, RefStutter DEF DropWrites, NoRoom, peer, history
<1>10. ASSUME NEW s \in StreamIds, NEW k \in 0..Credit(s), NEW full \in BOOLEAN, WriteFrame(s, k, full)
       PROVE  UNCHANGED BS!vars
  <2>1. UNCHANGED <<peer, history>>
    BY <1>10, WriteFrameStep
  <2> QED
    BY <2>1, RefStutter DEF peer, history
<1>11. ASSUME NEW full \in BOOLEAN, WriteDatagram(full) PROVE UNCHANGED BS!vars
  BY <1>11, RefStutter DEF WriteDatagram, peer, history
<1>12. ASSUME NEW s \in StreamIds, NEW f \in ng[s].una, Retransmit(s, f) PROVE UNCHANGED BS!vars
  BY <1>12, RefStutter DEF Retransmit, peer, history
<1>13. ASSUME NEW s \in StreamIds, NEW f \in ng[s].una, NEW k \in 1..f.n, Split(s, f, k)
       PROVE  UNCHANGED BS!vars
  BY <1>13, RefStutter DEF Split, peer, history
<1>14. CASE Send
  BY <1>8, <1>9, <1>10, <1>11, <1>12, <1>13, <1>14 DEF Send, Write
<1>15. CASE ReleaseChunk
  BY <1>15, RefStutter DEF ReleaseChunk, peer, history
<1>16. CASE HandshakeCompleted
  BY <1>16, RefHandshakeCompleted DEF BS!Next
<1>17. ASSUME NEW s \in StreamIds, StreamClosed(s) \/ MaxStreamData(s) PROVE UNCHANGED BS!vars
  BY <1>17, RefStutter DEF StreamClosed, MaxStreamData, peer, history
<1>18. ASSUME NEW s \in StreamIds, StopSending(s) PROVE BS!Cut(s)
  BY <1>18, RefCut DEF StopSending, Shutdown, peer
<1>19. ASSUME NEW s \in StreamIds, NEW f \in ng[s].una, Ack(s, f) PROVE UNCHANGED BS!vars
  BY <1>19, RefStutter DEF Ack, peer, history
<1>20. CASE Receive
  BY <1>15, <1>16, <1>17, <1>18, <1>19, <1>20 DEF Receive, BS!Next
<1>21. ASSUME NEW f \in net, Lose(f) PROVE UNCHANGED BS!vars
  BY <1>21, RefStutter DEF Lose, peer, history
<1>22. ASSUME NEW f \in net, PeerReceive(f)
       PROVE  f.s \in StreamIds /\ (BS!Deliver(f.s) \/ UNCHANGED BS!vars)
  BY <1>0, <1>22, RefPeerReceive
<1>23. ASSUME NEW s \in StreamIds, PeerReset(s) PROVE UNCHANGED BS!vars
  BY <1>23, RefStutter DEF PeerReset, history
<1>24. CASE World
  BY <1>21, <1>22, <1>23, <1>24 DEF World, BS!Next
<1> QED
  BY <1>1, <1>7, <1>14, <1>20, <1>24 DEF Next

(* The queues of the binding, the chunks it keeps, a network that loses,   *)
(* repeats and reorders frames, the peer's reassembly and the rejection of *)
(* early data together implement the abstract byte stream: what the peer's *)
(* application reads is a prefix of what this end's application wrote on   *)
(* that stream, and it is told of the end exactly when it has everything.  *)
THEOREM ImplementsByteStream == Spec => ReliableStream
<1>1. Init => BS!Init
  BY RefInit
<1>2. TypeOK /\ Inv /\ [Next]_vars => [BS!Next]_(BS!vars)
  BY RefNext
<1> QED
  BY <1>1, <1>2, Invariance, PTL DEF Spec, ReliableStream, BS!Spec

=============================================================================
