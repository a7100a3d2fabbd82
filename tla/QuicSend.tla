------------------------------ MODULE QuicSend ------------------------------
(***************************************************************************)
(* The sending half of a QUIC connection: the queues of QuicConnection     *)
(* (src/bindings/quic.cpp), the memory it keeps for retransmission, and    *)
(* the calls of send() into ngtcp2, composed with a network that loses,    *)
(* repeats and reorders packets and with the receiving half of a peer.     *)
(*                                                                         *)
(* ngtcp2 does not copy stream data.  It keeps pointers to the memory      *)
(* writev_stream was given and reads it again when it retransmits, until   *)
(* acked_stream_data_offset reports the bytes as acknowledged.  So the     *)
(* binding keeps a chunk for every call that consumed bytes.               *)
(*                                                                         *)
(* The bytes of a stream are numbered from 0 in the order they are         *)
(* written; a run of them is its first number and its length.              *)
(*                                                                         *)
(* send() and the acknowledgement callback are loops with one ngtcp2 call  *)
(* or one chunk per turn.  A turn is a step, and pc keeps every other step *)
(* out until the loop is over: neither loop waits for or looks at anything *)
(* outside the connection.                                                 *)
(***************************************************************************)
EXTENDS Integers, Sequences, FiniteSets, FiniteSetsExt

CONSTANTS
    StreamIds,      \* ids of the streams this end opens, in order
    Verdicts,       \* what the server may make of early data
    Window,         \* initial_max_stream_data the peer advertises
    WriteSizes,     \* bound: lengths an application writes
    MaxWrites,      \* bound: number of writes
    DatagramKinds,  \* bound: kinds of datagram, of {"fits", "over"}
    MaxDatagrams,   \* bound: number of datagrams
    MaxLosses       \* bound: frames the network loses

ASSUME StreamAssumption == StreamIds \subseteq Nat /\ IsFiniteSet(StreamIds)
ASSUME VerdictAssumption == Verdicts \subseteq {"untried", "accepted", "rejected"}
ASSUME WindowAssumption == Window \in Nat
ASSUME SizeAssumption == WriteSizes \subseteq Nat
ASSUME DatagramAssumption == DatagramKinds \subseteq {"fits", "over"}
ASSUME BoundAssumption ==
    MaxWrites \in Nat /\ MaxDatagrams \in Nat /\ MaxLosses \in Nat

VARIABLES
    handshake_completed,   \* handshake_completed_
    early,                 \* the server's verdict on 0-RTT, if it was tried
    stream_buffers,        \* stream_buffers_: writes not yet taken by ngtcp2
    stream_unacked,        \* stream_unacked_: chunks kept for retransmission
    stream_acked_offset,   \* stream_acked_offset_
    datagram_queue,        \* datagram_queue_
    pc,                    \* the loop that is running
    ng,                    \* ng[s]: what ngtcp2 knows of stream s
    net,                   \* frames on the network
    rcvd,                  \* frames the peer's ngtcp2 has
    got, eof, rst,         \* what the peer's application was told, per stream
    wrote, finAt, aborted, \* history: what this end's application did
    spent                  \* writes, datagrams and losses so far

binding == <<stream_buffers, stream_unacked, stream_acked_offset>>
peer == <<rcvd, got, eof, rst>>
history == <<wrote, finAt, aborted>>
vars == <<handshake_completed, early, binding, datagram_queue, pc, ng, net,
          peer, history, spent>>

-----------------------------------------------------------------------------
(* State.                                                                  *)

NoFin == -1
Freed == -1   \* what is read where a chunk used to be

Buffer == [first : Nat, n : Nat, fin : BOOLEAN]

(* A chunk of memory.  era and off are its address: ngtcp2 took it at      *)
(* stream offset off, era tells streams of rejected early data from later  *)
(* ones with the same id.                                                  *)
Chunk == [era : {0, 1}, off : Nat, first : Nat, n : Nat]

(* A STREAM frame ngtcp2 may have to send again, by the address of its     *)
(* data; and the same frame in a packet, with the bytes it carries.        *)
Frame == [era : {0, 1}, off : Nat, n : Nat, fin : BOOLEAN]
NetFrame == [s : StreamIds, era : {0, 1}, off : Nat, n : Nat,
             first : Nat \cup {Freed}, fin : BOOLEAN]

InPacket(s, f, first) ==
    [s |-> s, era |-> f.era, off |-> f.off, n |-> f.n, first |-> first,
     fin |-> f.fin]

(* none: not open; open; shut: FIN sent; flush: reset, but what was sent   *)
(* is still delivered (RESET_STREAM_AT); cut: reset; gone: closed.         *)
StreamState == {"none", "open", "shut", "flush", "cut", "gone"}

NoStream == [st |-> "none", tx |-> 0, max |-> Window, una |-> {}, base |-> 0]

Idle == [at |-> "idle"]
Streams(todo) == [at |-> "streams", todo |-> todo]
Release(s, n) == [at |-> "release", s |-> s, upto |-> n]
idle == pc = Idle

era == IF early = "rejected" /\ handshake_completed THEN 1 ELSE 0

Init ==
    /\ handshake_completed = FALSE
    /\ early \in Verdicts
    /\ stream_buffers = [s \in StreamIds |-> <<>>]
    /\ stream_unacked = [s \in StreamIds |-> <<>>]
    /\ stream_acked_offset = [s \in StreamIds |-> 0]
    /\ datagram_queue = <<>>
    /\ pc = Idle
    /\ ng = [s \in StreamIds |-> NoStream]
    /\ net = {}
    /\ rcvd = {}
    /\ got = [s \in StreamIds |-> <<>>]
    /\ eof = [s \in StreamIds |-> FALSE]
    /\ rst = [s \in StreamIds |-> FALSE]
    /\ wrote = [s \in StreamIds |-> 0]
    /\ finAt = [s \in StreamIds |-> NoFin]
    /\ aborted = [s \in StreamIds |-> FALSE]
    /\ spent = [writes |-> 0, datagrams |-> 0, losses |-> 0]

-----------------------------------------------------------------------------
(* Calls of the application.                                               *)

(* Mutated form: the buffer of the id is kept.                             *)
open_stream_KeepsQueue(s) ==
    /\ idle
    /\ handshake_completed \/ early # "untried"
    /\ ng[s].st = "none"
    /\ \A t \in StreamIds : ng[t].st = "none" => s <= t
    /\ ng' = [ng EXCEPT ![s].st = "open"]
    /\ UNCHANGED <<handshake_completed, early, binding, datagram_queue, pc,
                   net, peer, history, spent>>

(* ngtcp2 hands out ids in order, and the buffer of the new one is empty   *)
(* even if writes to the same id were left over from early data.           *)
open_stream(s) ==
    /\ idle
    /\ handshake_completed \/ early # "untried"
    /\ ng[s].st = "none"
    /\ \A t \in StreamIds : ng[t].st = "none" => s <= t
    /\ ng' = [ng EXCEPT ![s].st = "open"]
    /\ stream_buffers' = [stream_buffers EXCEPT ![s] = <<>>]
    /\ UNCHANGED <<handshake_completed, early, stream_unacked,
                   stream_acked_offset, datagram_queue, pc, net, peer,
                   history, spent>>

(* Whatever the state of the stream, the write is queued.  Bytes written   *)
(* to a stream that is not open, or after its FIN, are not part of it.     *)
send_stream_data(s, n, f) ==
    /\ idle
    /\ ng[s].st # "none" \/ era = 1
    /\ spent.writes < MaxWrites
    /\ spent' = [spent EXCEPT !.writes = @ + 1]
    /\ stream_buffers' =
           [stream_buffers EXCEPT
               ![s] = Append(@, [first |-> wrote[s], n |-> n, fin |-> f])]
    /\ IF ng[s].st = "open" /\ finAt[s] = NoFin
       THEN /\ wrote' = [wrote EXCEPT ![s] = @ + n]
            /\ finAt' = [finAt EXCEPT ![s] = IF f THEN wrote[s] + n ELSE @]
       ELSE UNCHANGED <<wrote, finAt>>
    /\ UNCHANGED <<handshake_completed, early, stream_unacked,
                   stream_acked_offset, datagram_queue, pc, ng, net, peer,
                   aborted>>

(* An oversized datagram is dropped here once the peer's limit is known.   *)
send_datagram(k) ==
    /\ idle
    /\ spent.datagrams < MaxDatagrams
    /\ spent' = [spent EXCEPT !.datagrams = @ + 1]
    /\ datagram_queue' = IF handshake_completed /\ k = "over"
                         THEN datagram_queue
                         ELSE Append(datagram_queue, k)
    /\ UNCHANGED <<handshake_completed, early, binding, pc, ng, net, peer,
                   history>>

(* RESET_STREAM_AT: ngtcp2 still owes the peer what it has sent so far, so *)
(* only the queue goes; the chunks stay.  Reset after FIN, or twice, is    *)
(* left to ngtcp2, which does nothing about a stream already reset.        *)
reset_stream(s) ==
    /\ idle
    /\ ng[s].st # "none"
    /\ stream_buffers[s] # <<>> \/ ng[s].st \in {"open", "shut"}
    /\ ng' = [ng EXCEPT ![s].st = IF @ \in {"open", "shut"} THEN "flush" ELSE @]
    /\ aborted' = [aborted EXCEPT ![s] = TRUE]
    /\ stream_buffers' = [stream_buffers EXCEPT ![s] = <<>>]
    /\ UNCHANGED <<handshake_completed, early, stream_unacked,
                   stream_acked_offset, datagram_queue, pc, net, peer, wrote,
                   finAt, spent>>

(* RESET_STREAM: ngtcp2 forgets what it might have sent again.             *)
Shutdown(s) ==
    /\ ng' = [ng EXCEPT ![s].st = "cut", ![s].una = {}]
    /\ aborted' = [aborted EXCEPT ![s] = TRUE]

close_stream(s) ==
    /\ idle
    /\ ng[s].st \in {"open", "shut", "flush"}
    /\ Shutdown(s)
    /\ stream_buffers' = [stream_buffers EXCEPT ![s] = <<>>]
    /\ UNCHANGED <<handshake_completed, early, stream_unacked,
                   stream_acked_offset, datagram_queue, pc, net, peer, wrote,
                   finAt, spent>>

-----------------------------------------------------------------------------
(* send().                                                                 *)

Waiting(todo) == {s \in todo : stream_buffers[s] # <<>>}

(* With nothing queued, send() writes only what ngtcp2 has of its own.     *)
SendCall ==
    /\ idle
    /\ Waiting(StreamIds) # {} \/ datagram_queue # <<>>
    /\ pc' = Streams(StreamIds)
    /\ UNCHANGED <<handshake_completed, early, binding, datagram_queue, ng,
                   net, peer, history, spent>>

(* The stream whose turn it is: the map is in the order of the ids.        *)
Turn(s) == /\ pc.at = "streams"
           /\ Waiting(pc.todo) # {}
           /\ s = Min(Waiting(pc.todo))

NextStream(s) == Streams(pc.todo \ {s})

(* NGTCP2_ERR_STREAM_SHUT_WR and NGTCP2_ERR_STREAM_NOT_FOUND: the writes   *)
(* that are left have nowhere to go.                                       *)
DropWrites(s) ==
    /\ Turn(s)
    /\ ng[s].st # "open"
    /\ stream_buffers' = [stream_buffers EXCEPT ![s] = <<>>]
    /\ pc' = NextStream(s)
    /\ UNCHANGED <<handshake_completed, early, stream_unacked,
                   stream_acked_offset, datagram_queue, ng, net, peer,
                   history, spent>>

(* NGTCP2_ERR_STREAM_DATA_BLOCKED, or 0: no credit, no congestion window.  *)
(* The copy made for this call is dropped again.                           *)
NoRoom(s) ==
    /\ Turn(s)
    /\ ng[s].st = "open"
    /\ pc' = NextStream(s)
    /\ UNCHANGED <<handshake_completed, early, binding, datagram_queue, ng,
                   net, peer, history, spent>>

(* The copy of the buffer is cut to the k bytes consumed, or dropped.      *)
held(chunks, off, buf, k) ==
    IF k > 0 THEN Append(chunks, [era |-> era, off |-> off,
                                  first |-> buf.first, n |-> k])
    ELSE chunks

(* Consumed bytes leave the front buffer; it is popped when that empties   *)
(* it, so a buffer without bytes stays.                                    *)
consumed(buffers, k) ==
    LET buf == Head(buffers) IN
    IF k = 0 THEN buffers
    ELSE IF buf.n = k THEN Tail(buffers)
    ELSE <<[buf EXCEPT !.first = @ + k, !.n = @ - k]>> \o Tail(buffers)

Credit(s) == ng[s].max - ng[s].tx

(* writev_stream puts k bytes of the front buffer into the packet, and FIN *)
(* with the last of a buffer that has it.  With MORE and room left, the    *)
(* loop goes on with this stream if there was progress, else with the      *)
(* next one; without, the packet is finished and returned.                 *)
WriteFrame(s, k, full) ==
    LET buf  == Head(stream_buffers[s])
        more == Len(stream_buffers[s]) > 1 \/ datagram_queue # <<>>
        off  == ng[s].tx
        f    == buf.fin /\ k = buf.n
        frame == [era |-> era, off |-> off, n |-> k, fin |-> f]
        sent == IF k > 0 \/ f THEN {frame} ELSE {}
    IN  /\ Turn(s)
        /\ ng[s].st = "open"
        /\ k <= buf.n
        /\ k = 0 => buf.n = 0
        /\ k <= Credit(s)
        /\ ng' = [ng EXCEPT ![s].tx = @ + k,
                            ![s].st = IF f THEN "shut" ELSE @,
                            ![s].una = @ \cup sent]
        /\ net' = net \cup {InPacket(s, g, buf.first) : g \in sent}
        /\ stream_unacked' = [stream_unacked EXCEPT ![s] = held(@, off, buf, k)]
        /\ stream_buffers' = [stream_buffers EXCEPT ![s] = consumed(@, k)]
        /\ pc' = IF full \/ ~more THEN Idle
                 ELSE IF k > 0 THEN pc ELSE NextStream(s)
        /\ UNCHANGED <<handshake_completed, early, stream_acked_offset,
                       datagram_queue, peer, history, spent>>

(* After the last stream come the datagrams.                               *)
InDatagrams == pc.at = "streams" /\ Waiting(pc.todo) = {}

(* Mutated form: the oversized datagram stays at the head.                 *)
dropped_KeepsHead(queue) == queue

dropped(queue) == Tail(queue)

(* NGTCP2_ERR_INVALID_ARGUMENT, or INVALID_STATE once the limit is known   *)
(* to be 0: the datagram can never be sent and makes way for the next.     *)
DropDatagram ==
    /\ InDatagrams
    /\ datagram_queue # <<>>
    /\ Head(datagram_queue) = "over"
    /\ handshake_completed
    /\ datagram_queue' = dropped(datagram_queue)
    /\ UNCHANGED <<handshake_completed, early, binding, pc, ng, net, peer,
                   history, spent>>

(* The datagram goes into the packet, which is returned if it is full.     *)
WriteDatagram(full) ==
    /\ InDatagrams
    /\ datagram_queue # <<>>
    /\ Head(datagram_queue) = "fits"
    /\ handshake_completed \/ early # "untried"
    /\ datagram_queue' = Tail(datagram_queue)
    /\ pc' = IF full THEN Idle ELSE pc
    /\ UNCHANGED <<handshake_completed, early, binding, ng, net, peer,
                   history, spent>>

(* No datagram is left, or there is no room, or the limit is not known     *)
(* yet: the packet under construction is finished, or one with ACKs and    *)
(* the like is written, and send() returns.                                *)
SendDone ==
    /\ InDatagrams
    /\ pc' = Idle
    /\ UNCHANGED <<handshake_completed, early, binding, datagram_queue, ng,
                   net, peer, history, spent>>

(* Within send(), ngtcp2 also sends again what it takes for lost, reading  *)
(* the memory it was given.                                                *)
Holds(c, f) == /\ c.era = f.era
               /\ c.off <= f.off
               /\ f.off + f.n <= c.off + c.n

Memory(s, f) ==
    LET at == {i \in 1..Len(stream_unacked[s]) : Holds(stream_unacked[s][i], f)}
        c  == stream_unacked[s][Min(at)]
    IN  IF at = {} THEN Freed ELSE c.first + (f.off - c.off)

Same(s, f, g) == /\ g.s = s
                 /\ g.era = f.era
                 /\ g.off = f.off
                 /\ g.n = f.n
                 /\ g.fin = f.fin
Missing(s, f) == \A g \in net \cup rcvd : ~Same(s, f, g)

Retransmit(s, f) ==
    LET first == IF f.n = 0 THEN f.off ELSE Memory(s, f)
    IN  /\ idle
        /\ f \in ng[s].una
        /\ Missing(s, f)
        /\ net' = net \cup {InPacket(s, f, first)}
        /\ UNCHANGED <<handshake_completed, early, binding, datagram_queue, pc,
                       ng, peer, history, spent>>

(* What is sent again may go into two packets.                             *)
Split(s, f, k) ==
    LET a == [f EXCEPT !.n = k, !.fin = FALSE]
        b == [f EXCEPT !.off = @ + k, !.n = @ - k]
    IN  /\ idle
        /\ f \in ng[s].una
        /\ k < f.n
        /\ Missing(s, f)
        /\ ng' = [ng EXCEPT ![s].una = (@ \ {f}) \cup {a, b}]
        /\ UNCHANGED <<handshake_completed, early, binding, datagram_queue, pc,
                       net, peer, history, spent>>

-----------------------------------------------------------------------------
(* receive(): what packets of the peer lead to.                            *)

(* ngtcp2 reports acknowledged bytes as a growing prefix.                  *)
AckedPrefix(una, tx) == Min({f.off : f \in {g \in una : g.n > 0}} \cup {tx})

Ack(s, f) ==
    LET una  == ng[s].una \ {f}
        base == AckedPrefix(una, ng[s].tx)
    IN  /\ idle
        /\ handshake_completed
        /\ f \in ng[s].una
        /\ \E g \in rcvd : Same(s, f, g)
        /\ ng' = [ng EXCEPT ![s].una = una, ![s].base = base]
        /\ pc' = IF stream_unacked[s] = <<>> THEN pc ELSE Release(s, base)
        /\ UNCHANGED <<handshake_completed, early, binding, datagram_queue,
                       net, peer, history, spent>>

(* Mutated form: a chunk is released with its first acknowledged byte.     *)
released_Early(acked, chunk, upto) == acked < upto

released(acked, chunk, upto) == acked + chunk.n <= upto

release_next(s, upto) ==
    IF Len(stream_unacked[s]) > 1 THEN Release(s, upto) ELSE Idle

(* acked_stream_data_offset_cb, one chunk per step.                        *)
ReleaseChunk ==
    LET s == pc.s
        chunks == stream_unacked[s]
    IN  /\ pc.at = "release"
        /\ IF released(stream_acked_offset[s], Head(chunks), pc.upto)
           THEN /\ stream_acked_offset' =
                       [stream_acked_offset EXCEPT ![s] = @ + Head(chunks).n]
                /\ stream_unacked' = [stream_unacked EXCEPT ![s] = Tail(@)]
                /\ pc' = release_next(s, pc.upto)
           ELSE /\ pc' = Idle
                /\ UNCHANGED <<stream_acked_offset, stream_unacked>>
        /\ UNCHANGED <<handshake_completed, early, stream_buffers,
                       datagram_queue, ng, net, peer, history, spent>>

(* stream_close_cb: all is acknowledged, or the reset is; nothing is kept. *)
StreamClosed(s) ==
    /\ idle
    /\ handshake_completed
    /\ ng[s].st \in {"shut", "flush", "cut"}
    /\ ng[s].una = {}
    /\ ng[s].st = "shut" \/ rst[s] \/ eof[s]
    /\ ng' = [ng EXCEPT ![s].st = "gone"]
    /\ stream_buffers' = [stream_buffers EXCEPT ![s] = <<>>]
    /\ stream_unacked' = [stream_unacked EXCEPT ![s] = <<>>]
    /\ stream_acked_offset' = [stream_acked_offset EXCEPT ![s] = 0]
    /\ UNCHANGED <<handshake_completed, early, datagram_queue, pc, net, peer,
                   history, spent>>

(* STOP_SENDING: ngtcp2 resets the stream and tells the application        *)
(* (recv_stop_sending_cb); the queue is dropped by the next send().        *)
StopSending(s) ==
    /\ idle
    /\ handshake_completed
    /\ ng[s].st \in {"open", "shut"}
    /\ Shutdown(s)
    /\ UNCHANGED <<handshake_completed, early, binding, datagram_queue, pc,
                   net, peer, wrote, finAt, spent>>

(* MAX_STREAM_DATA.  recv_stream_data_cb of the peer gives back the credit *)
(* of every byte it queues for its application.                            *)
MaxStreamData(s) ==
    /\ idle
    /\ handshake_completed
    /\ Len(got[s]) + Window > ng[s].max
    /\ ng' = [ng EXCEPT ![s].max = Len(got[s]) + Window]
    /\ UNCHANGED <<handshake_completed, early, binding, datagram_queue, pc,
                   net, peer, history, spent>>

(* handshake_completed_cb and tls_early_data_rejected_cb.  If the server   *)
(* rejected early data, ngtcp2 forgets every stream without a              *)
(* stream_close_cb: the binding keeps its queues and its chunks.           *)
HandshakeCompleted ==
    /\ idle
    /\ ~handshake_completed
    /\ handshake_completed' = TRUE
    /\ IF early = "rejected"
       THEN /\ ng' = [s \in StreamIds |-> NoStream]
            /\ wrote' = [s \in StreamIds |-> 0]
            /\ finAt' = [s \in StreamIds |-> NoFin]
            /\ aborted' = [s \in StreamIds |-> FALSE]
       ELSE UNCHANGED <<ng, history>>
    /\ UNCHANGED <<early, binding, datagram_queue, pc, net, peer, spent>>

-----------------------------------------------------------------------------
(* The network and the peer.                                               *)

Lose(f) ==
    /\ idle
    /\ f \in net
    /\ spent.losses < MaxLosses
    /\ spent' = [spent EXCEPT !.losses = @ + 1]
    /\ net' = net \ {f}
    /\ UNCHANGED <<handshake_completed, early, binding, datagram_queue, pc, ng,
                   peer, history>>

Covers(f, i) == f.off <= i /\ i < f.off + f.n
ByteOf(f, i) == IF f.first = Freed THEN Freed ELSE f.first + i - f.off

(* The bytes of stream s without a gap, of the frames fs.                  *)
Assembled(s, fs) ==
    LET mine == {f \in fs : f.s = s}
        end  == Max({0} \cup {f.off + f.n : f \in mine})
        len  == Min({i \in 0..end : \A f \in mine : ~Covers(f, i)})
    IN  [i \in 1..len |->
            ByteOf(CHOOSE f \in mine : Covers(f, i - 1), i - 1)]

(* Early data a server rejects is not read at all.                         *)
PeerEra == IF early = "rejected" THEN 1 ELSE 0

(* A frame arrives, in any order.  recv_stream_data_cb queues what has     *)
(* become contiguous.                                                      *)
PeerReceive(f) ==
    LET s    == f.s
        fs   == rcvd \cup {f}
        data == Assembled(s, fs)
    IN  /\ idle
        /\ f \in net
        /\ f.era = PeerEra
        /\ net' = net \ {f}
        /\ IF f \in rcvd \/ rst[s] THEN UNCHANGED peer
           ELSE /\ rcvd' = fs
                /\ got' = [got EXCEPT ![s] = data]
                /\ eof' = [eof EXCEPT ![s] =
                              \E g \in fs : /\ g.s = s
                                            /\ g.fin
                                            /\ g.off + g.n = Len(data)]
                /\ UNCHANGED rst
        /\ UNCHANGED <<handshake_completed, early, binding, datagram_queue, pc,
                       ng, history, spent>>

(* stream_reset_cb.  RESET_STREAM_AT waits for the bytes it promises.      *)
PeerReset(s) ==
    /\ idle
    /\ era = PeerEra
    /\ \/ ng[s].st = "cut"
       \/ ng[s].st = "flush" /\ Len(got[s]) = ng[s].tx
    /\ ~rst[s]
    /\ ~eof[s]
    /\ rst' = [rst EXCEPT ![s] = TRUE]
    /\ UNCHANGED <<handshake_completed, early, binding, datagram_queue, pc, ng,
                   net, rcvd, got, eof, history, spent>>

-----------------------------------------------------------------------------
Call == \/ \E s \in StreamIds : open_stream(s) \/ reset_stream(s) \/ close_stream(s)
        \/ \E s \in StreamIds, n \in WriteSizes, f \in BOOLEAN : send_stream_data(s, n, f)
        \/ \E k \in DatagramKinds : send_datagram(k)

Write(s) == \E k \in 0..Credit(s), full \in BOOLEAN : WriteFrame(s, k, full)

Send == \/ SendCall  \/ DropDatagram \/ SendDone
        \/ \E s \in StreamIds : DropWrites(s) \/ NoRoom(s) \/ Write(s)
        \/ \E full \in BOOLEAN : WriteDatagram(full)
        \/ \E s \in StreamIds : \E f \in ng[s].una :
              Retransmit(s, f) \/ \E k \in 1..f.n : Split(s, f, k)

Receive == \/ ReleaseChunk \/ HandshakeCompleted
           \/ \E s \in StreamIds : StreamClosed(s) \/ StopSending(s) \/ MaxStreamData(s)
           \/ \E s \in StreamIds : \E f \in ng[s].una : Ack(s, f)

World == \/ \E f \in net : Lose(f) \/ PeerReceive(f)
         \/ \E s \in StreamIds : PeerReset(s)

Next == Call \/ Send \/ Receive \/ World

Spec == Init /\ [][Next]_vars

(* The event loop keeps calling send() and receive(), and both return;     *)
(* the congestion window opens again and again, for every stream and for   *)
(* datagrams; whatever is on the network, or lost on it, gets through in   *)
(* the end, as the network loses only MaxLosses frames.                    *)
LoopTurn == \/ SendDone \/ ReleaseChunk
            \/ \E s \in StreamIds : DropWrites(s) \/ NoRoom(s)

NextDatagram == DropDatagram \/ \E full \in BOOLEAN : WriteDatagram(full)

Exchange == \/ HandshakeCompleted
            \/ \E f \in net : PeerReceive(f)
            \/ \E s \in StreamIds :
                  \/ MaxStreamData(s)
                  \/ \E f \in ng[s].una : Retransmit(s, f) \/ Ack(s, f)

Fairness == /\ WF_vars(SendCall)
            /\ WF_vars(LoopTurn)
            /\ SF_vars(NextDatagram)
            /\ SF_vars(Exchange)
            /\ \A s \in StreamIds : SF_vars(Write(s))

FairSpec == Spec /\ Fairness

-----------------------------------------------------------------------------
(* Properties.                                                             *)

StreamRecord == [st : StreamState, tx : Nat, max : Nat, una : SUBSET Frame, base : Nat]

PC == {Idle}
      \cup {Streams(todo) : todo \in SUBSET StreamIds}
      \cup [at : {"release"}, s : StreamIds, upto : Nat]

(* Every queue, chunk, offset and frame keeps its type: no length that     *)
(* send() cuts from a buffer and no offset the callbacks add up becomes    *)
(* negative, and the release loop never runs on a stream without chunks.   *)
TypeOK ==
    /\ handshake_completed \in BOOLEAN
    /\ early \in Verdicts
    /\ stream_buffers \in [StreamIds -> Seq(Buffer)]
    /\ stream_unacked \in [StreamIds -> Seq(Chunk)]
    /\ stream_acked_offset \in [StreamIds -> Nat]
    /\ datagram_queue \in Seq(DatagramKinds)
    /\ pc \in PC
    /\ pc.at = "release" => stream_unacked[pc.s] # <<>>
    /\ ng \in [StreamIds -> StreamRecord]
    /\ net \subseteq NetFrame
    /\ rcvd \subseteq NetFrame
    /\ got \in [StreamIds -> Seq(Nat \cup {Freed})]
    /\ eof \in [StreamIds -> BOOLEAN]
    /\ rst \in [StreamIds -> BOOLEAN]
    /\ wrote \in [StreamIds -> Nat]
    /\ finAt \in [StreamIds -> Nat \cup {NoFin}]
    /\ aborted \in [StreamIds -> BOOLEAN]
    /\ spent \in [writes : Nat, datagrams : Nat, losses : Nat]

(* The bytes of a frame are in memory, and the right ones.                 *)
Backed(s, f) ==
    \E i \in 1..Len(stream_unacked[s]) :
        LET c == stream_unacked[s][i]
        IN  Holds(c, f) /\ c.first = c.off

(* Memory ngtcp2 may still read, to send a frame again, has not been freed *)
(* and holds the bytes first sent, whatever order acknowledgements come    *)
(* in, after a reset that still owes data, and on an id used again after   *)
(* rejected early data.  And once the acknowledgement callback has         *)
(* returned, no chunk is kept that lies within the acknowledged prefix:    *)
(* the memory of a long-lived stream does not grow with what it has sent.  *)
(* (After rejected early data the chunks of the first attempt, which no    *)
(* callback ever reports, keep as many bytes of their successors back.)    *)
HeldIntact ==
    \A s \in StreamIds :
        /\ \A f \in ng[s].una : f.n > 0 => Backed(s, f)
        /\ pc.at # "release" /\ early # "rejected" /\ ng[s].st # "cut" =>
               \A i \in 1..Len(stream_unacked[s]) :
                   LET c == stream_unacked[s][i]
                   IN  c.off + c.n > ng[s].base

(* A write without bytes and without FIN never leaves the queue.           *)
Stalled(s) == \E i \in 1..Len(stream_buffers[s]) :
                  stream_buffers[s][i].n = 0 /\ ~stream_buffers[s][i].fin

Settled(s) ==
    \/ ng[s].st = "none"
    \/ Stalled(s)
    \/ ng[s].st = "flush" /\ Len(got[s]) = ng[s].tx
    \/ ng[s].st # "flush" /\ aborted[s]
    \/ Len(got[s]) = wrote[s] /\ (finAt[s] # NoFin => eof[s])

(* What is queued is delivered: every stream that is not given up reaches  *)
(* its end at the peer, far beyond the initial window and through losses;  *)
(* a stream reset by reset_stream delivers what was sent before; and no    *)
(* datagram, however large, stops the ones behind it.                      *)
Drains == /\ \A s \in StreamIds : []<>Settled(s)
          /\ []<>(datagram_queue = <<>> \/ \E s \in StreamIds : Stalled(s))

(* The byte stream this transport implements.                              *)
SentBytes == [s \in StreamIds |-> [i \in 1..wrote[s] |-> i - 1]]
BS == INSTANCE ByteStream WITH
          Stream <- StreamIds, Byte <- Nat \cup {Freed},
          sent <- SentBytes, fin <- [s \in StreamIds |-> finAt[s] # NoFin],
          cut <- aborted

(* The queues, the chunks kept for retransmission, a lossy and reordering  *)
(* network and the peer's reassembly together are a reliable byte stream   *)
(* for each stream id: rejected early data is never seen, and nothing left *)
(* over from it gets into the stream that uses its id again.               *)
ReliableStream == BS!Spec

=============================================================================
