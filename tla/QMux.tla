-------------------------------- MODULE QMux --------------------------------
(***************************************************************************)
(* Two ends of a QMux connection: the binding QmuxConnection               *)
(* (src/bindings/qmux.cpp) driven by ConnectionDriver                      *)
(* (src/webtransport/qmux/_connection.py) over TCP.                        *)
(*                                                                         *)
(* The binding queues writes and datagrams, and send() hands them to dwnx, *)
(* which packs frames into records.  Every call of the driver holds a lock *)
(* and ends by calling send() until it returns nothing; the pump does the  *)
(* same, reads, and hands what it read to receive().  A call of dwnx is a  *)
(* step, and pc is not "idle" while the lock is held for such a flush.  A  *)
(* flush depends on nothing but its own connection, so the steps of the    *)
(* other end commute with it, and the model lets it run to its end.        *)
(*                                                                         *)
(* dwnx is external: what it answers is taken from the cases the code      *)
(* tells apart.  Where the code allows either of two answers, the model    *)
(* has both.  The binding never extends the credit it gave at first.       *)
(*                                                                         *)
(* Bytes of a stream are numbered in the order they are written.           *)
(***************************************************************************)
EXTENDS Integers, Sequences, FiniteSets, SequencesExt, FiniteSetsExt

CONSTANTS
    Bidi, Uni,          \* ids of the streams the client may open
    MaxStreamData,      \* initial_max_stream_data_*
    MaxData,            \* initial_max_data
    MaxDatagram,        \* max_datagram_frame_size of each end, 0: not advertised
    RecordSize,         \* DWNX_DEFAULT_MAX_RECORD_SIZE
    WriteSizes,         \* bound: lengths of writes
    DatagramSizes,      \* bound: lengths of datagrams
    MaxCalls            \* bound: calls of each application

End == {"client", "server"}
Streams == Bidi \cup Uni

ASSUME StreamAssumption ==
    Streams \subseteq Nat /\ IsFiniteSet(Streams) /\ Bidi \cap Uni = {}
ASSUME LimitAssumption ==
    /\ MaxStreamData \in Nat /\ MaxData \in Nat
    /\ MaxDatagram \in [End -> Nat]
    /\ RecordSize \in Nat \ {0, 1}
ASSUME BoundAssumption ==
    /\ WriteSizes \subseteq Nat /\ DatagramSizes \subseteq Nat
    /\ MaxCalls \in [End -> Nat]

VARIABLES
    m,          \* the connection and its driver, of each end
    wire,       \* frames each end has written and the other has not read
    offset,     \* bytes each end has read of the first frame of its peer
    said,       \* history: what each application wrote on each stream
    told,       \* history: what each application was told
    calls       \* number of calls of each application

vars == <<m, wire, offset, said, told, calls>>

Peer(e) == IF e = "client" THEN "server" ELSE "client"

(* A frame: kind, stream, number of bytes or id of a datagram, length, FIN *)
Frame(k, s, at, n, fin) == [k |-> k, s |-> s, at |-> at, n |-> n, fin |-> fin]
Control(k, s) == Frame(k, s, 0, 0, FALSE)
None == -1

(* QmuxConnection with its dwnx_conn, and ConnectionDriver.                *)
Connection == [
    pending_stream_data |-> <<>>,
    pending_datagrams   |-> <<>>,
    params_received     |-> FALSE,
    close_requested     |-> FALSE,
    pc     |-> "idle",                          \* where send() is
    loop   |-> "flush",                         \* where _pump_once is
    closed |-> FALSE,                           \* ConnectionDriver._closed
    record |-> <<>>,                            \* dwnx: record under way
    owed   |-> <<Control("PARAMS", None)>>,     \* dwnx: control frames due
    tx     |-> [s \in Streams |-> "none"],
    rx     |-> [s \in Streams |-> "none"],
    sent   |-> [s \in Streams |-> 0],
    state  |-> "open",
    buffer |-> 0 ]                              \* datagram_buffer_

Init ==
    /\ m = [e \in End |-> Connection]
    /\ wire = [e \in End |-> <<>>]
    /\ offset = [e \in End |-> 0]
    /\ said = [e \in End |-> [s \in Streams |-> [n |-> 0, fin |-> FALSE]]]
    /\ told = [e \in End |-> [ bytes |-> [s \in Streams |-> 0],
                               fin   |-> [s \in Streams |-> FALSE],
                               gap   |-> [s \in Streams |-> FALSE],
                               dgrams |-> <<>> ]]
    /\ calls = [e \in End |-> 0]

(* No end is in the middle of a flush.                                     *)
Quiet == \A e \in End : m[e].pc = "idle"

-----------------------------------------------------------------------------
(* dwnx, as far as the code depends on it                                  *)

(* Bytes the peer still takes, of a stream and of the connection.          *)
Credit(c, s) ==
    Min({ MaxStreamData - c.sent[s],
          MaxData - FoldFunction(LAMBDA a, b : a + b, 0, c.sent) })

(* The record under way with the control frames that are due, and its room *)
(* for frames of data.                                                     *)
Full(c) == c.record \o c.owed
FrameSize(f) == IF f.k \in {"STREAM", "DATAGRAM"} THEN 1 + f.n ELSE 0
Room(c) == RecordSize - FoldSeq(LAMBDA f, a : a + FrameSize(f), 0, Full(c))

(* Both halves of the stream have ended: dwnx may have let go of it.       *)
Ended(c, s) == c.tx[s] \in {"none", "fin", "reset"} /\ c.rx[s] \in {"none", "ended"}

(* A finished record is written to the socket, and send() called again.    *)
Emit(e, c) ==
    /\ wire' = [wire EXCEPT ![e] = @ \o Full(c)]
    /\ m' = [m EXCEPT ![e] = [c EXCEPT !.record = <<>>, !.owed = <<>>, !.pc = "send"]]

Go(e, c) == m' = [m EXCEPT ![e] = c] /\ UNCHANGED wire

-----------------------------------------------------------------------------
(* send()                                                                  *)

(* Mutated form: whatever was written of the head, the head goes.          *)
consume_whole_head(c, k) ==
    IF k = 0 THEN c ELSE [c EXCEPT !.pending_stream_data = Tail(@)]

(* The head of the queue loses what was written; a write of no bytes stays *)
(* there, until it is tried again and found to be shut.                    *)
consume_stream_data(c, k) ==
    LET h == Head(c.pending_stream_data)
    IN  IF k = 0 THEN c
        ELSE IF k = h.n THEN [c EXCEPT !.pending_stream_data = Tail(@)]
        ELSE [c EXCEPT !.pending_stream_data[1] =
                  [h EXCEPT !.at = @ + k, !.n = @ - k]]

(* The start of a call: CONNECTION_CLOSE goes before all else, once.       *)
Send(e) ==
    LET c == m[e]
    IN  /\ c.pc = "send"
        /\ IF c.close_requested
           THEN /\ m' = [m EXCEPT ![e] = [c EXCEPT !.close_requested = FALSE,
                                                   !.state = "closing"]]
                /\ wire' = IF c.state = "open"
                           THEN [wire EXCEPT ![e] = Append(@, Control("CLOSE", None))]
                           ELSE wire
           ELSE Go(e, [c EXCEPT !.pc = "stream"])
        /\ UNCHANGED <<offset, said, told, calls>>

(* One turn of write_pending_stream_data with an empty queue: a record     *)
(* that was begun, or is due, is finished.                                 *)
FinishRecord(e) ==
    LET c == m[e]
    IN  /\ c.pc = "stream" /\ c.state = "open"
        /\ c.pending_stream_data = <<>>
        /\ IF Full(c) # <<>> THEN Emit(e, c) ELSE Go(e, [c EXCEPT !.pc = "datagram"])
        /\ UNCHANGED <<offset, said, told, calls>>

(* A turn that writes part of the head, which finds room, since each call  *)
(* is flushed before the next.  dwnx goes on with the record while it has  *)
(* room, or finishes it.                                                   *)
WriteHead(e) ==
    LET c == m[e]
        h == Head(c.pending_stream_data)
        k == Min({h.n, Credit(c, h.s), Room(c) - 1})
        f == Frame("STREAM", h.s, h.at, k, h.fin /\ k = h.n)
        w == consume_stream_data(
                 [c EXCEPT !.record = Append(@, f),
                           !.sent[h.s] = @ + k,
                           !.tx[h.s] = IF f.fin THEN "fin" ELSE @], k)
    IN  /\ c.pc = "stream" /\ c.state = "open"
        /\ c.pending_stream_data # <<>>
        /\ c.tx[h.s] = "open"
        /\ h.n > 0 => Credit(c, h.s) > 0
        /\ Emit(e, w) \/ (Room(w) > 0 /\ Go(e, w))
        /\ UNCHANGED <<offset, said, told, calls>>

(* Mutated form: a write without credit stays, for credit to come.         *)
KeepBlockedHead(e) ==
    LET c == m[e]
        h == Head(c.pending_stream_data)
    IN  /\ c.pc = "stream" /\ c.state = "open"
        /\ c.pending_stream_data # <<>>
        /\ IF c.tx[h.s] # "open"
           THEN Go(e, [c EXCEPT !.pending_stream_data = Tail(@)])
           ELSE /\ h.n > 0 /\ Credit(c, h.s) = 0
                /\ Go(e, [c EXCEPT !.pc = "datagram"])
        /\ UNCHANGED <<offset, said, told, calls>>

(* A turn on a stream without credit, or whose sending side has ended: the *)
(* write is discarded.                                                     *)
DiscardHead(e) ==
    LET c == m[e]
        h == Head(c.pending_stream_data)
    IN  /\ c.pc = "stream" /\ c.state = "open"
        /\ c.pending_stream_data # <<>>
        /\ \/ c.tx[h.s] # "open"
           \/ h.n > 0 /\ Credit(c, h.s) = 0
        /\ Go(e, [c EXCEPT !.pending_stream_data = Tail(@)])
        /\ UNCHANGED <<offset, said, told, calls>>

(* A turn that fails otherwise: the connection is closing, or dwnx has let *)
(* go of the stream.  The head stays where it is.                          *)
StreamError(e) ==
    LET c == m[e]
    IN  /\ c.pc = "stream"
        /\ \/ c.state # "open"
           \/ /\ c.pending_stream_data # <<>>
              /\ Ended(c, Head(c.pending_stream_data).s)
        /\ Go(e, [c EXCEPT !.pc = "datagram"])
        /\ UNCHANGED <<offset, said, told, calls>>

(* The length of a DATAGRAM frame, which its receiver's limit is about.    *)
datagram_frame_length(n) == 1 + n

(* One turn of write_pending_datagrams.                                    *)
WriteDatagram(e) ==
    LET c == m[e]
        h == Head(c.pending_datagrams)
        popped == [c EXCEPT !.pending_datagrams = Tail(@)]
        w == [popped EXCEPT !.record = Append(@, Frame("DATAGRAM", None, h.at, h.n, TRUE))]
        stop == [c EXCEPT !.pc = "record"]
    IN  /\ c.pc = "datagram"
        /\ IF \/ c.pending_datagrams = <<>>
              \/ c.state # "open"
              \/ ~c.params_received
           THEN Go(e, stop)
           ELSE IF datagram_frame_length(h.n) > MaxDatagram[Peer(e)]
                THEN Go(e, popped)
                ELSE IF datagram_frame_length(h.n) > Room(c)
                     THEN Emit(e, c) \/ Go(e, stop)
                     ELSE Emit(e, w) \/ Go(e, w)
        /\ UNCHANGED <<offset, said, told, calls>>

(* The end of a call: what the record holds is written; without anything   *)
(* the flush is over, and a driver that was closing is closed.             *)
WriteRecord(e) ==
    LET c == m[e]
    IN  /\ c.pc = "record"
        /\ IF c.state = "open" /\ Full(c) # <<>>
           THEN Emit(e, c)
           ELSE Go(e, [c EXCEPT !.pc = "idle", !.closed = @ \/ c.state = "closing"])
        /\ UNCHANGED <<offset, said, told, calls>>

-----------------------------------------------------------------------------
(* receive() and the callbacks                                             *)

(* dwnx creates a stream of the peer with the first frame that names it.   *)
Known(e, c, s) ==
    IF e = "client" \/ s = None \/ c.rx[s] # "none" THEN c
    ELSE [c EXCEPT !.rx[s] = "open", !.tx[s] = IF s \in Bidi THEN "open" ELSE "reset"]

(* recv_stream_data_cb: k more bytes of the frame, with its FIN if they    *)
(* are its last.  dwnx keeps what follows stop_sending to itself.          *)
recv_stream_data(e, c, f, k) ==
    LET fin == f.fin /\ offset[e] + k = f.n
        t == told[e]
    IN  /\ m' = [m EXCEPT ![e] = [c EXCEPT !.rx[f.s] = IF fin THEN "ended" ELSE @]]
        /\ told' = IF c.rx[f.s] # "open" THEN told
                   ELSE [told EXCEPT ![e] =
                       [t EXCEPT !.bytes[f.s] = @ + k,
                                 !.gap[f.s] = @ \/ f.at + offset[e] # t.bytes[f.s],
                                 !.fin[f.s] = fin]]

(* Mutated form: every part of a datagram is handed on as it comes.        *)
datagram_in_parts(e, c, f, k) ==
    /\ m' = [m EXCEPT ![e] = c]
    /\ told' = [told EXCEPT ![e].dgrams = Append(@, [at |-> f.at, n |-> k])]

(* recv_datagram_cb: k more bytes of a datagram, put together until all of *)
(* it is there.                                                            *)
on_datagram_received(e, c, f, k) ==
    LET size == (IF offset[e] = 0 THEN 0 ELSE c.buffer) + k
        fin == offset[e] + k = f.n
    IN  /\ m' = [m EXCEPT ![e] = [c EXCEPT !.buffer = IF fin THEN 0 ELSE size]]
        /\ told' = IF fin /\ size = f.n
                   THEN [told EXCEPT ![e].dgrams = Append(@, [at |-> f.at, n |-> size])]
                   ELSE told

recv_transport_params(c) == [c EXCEPT !.params_received = TRUE]

(* The other callbacks; dwnx answers STOP_SENDING by RESET_STREAM, as long *)
(* as the sending side has not ended.                                      *)
on_control(e, c, f) ==
    /\ m' = [m EXCEPT ![e] =
              CASE f.k = "PARAMS" -> recv_transport_params(c)
                [] f.k = "RESET"  -> [c EXCEPT !.rx[f.s] = "ended"]
                [] f.k = "STOP"   ->
                       IF c.tx[f.s] = "open"
                       THEN [c EXCEPT !.tx[f.s] = "reset",
                                      !.owed = Append(@, Control("RESET", f.s))]
                       ELSE c
                [] f.k = "CLOSE"  -> [c EXCEPT !.state = "draining"]]
    /\ UNCHANGED told

(* The pump reads a frame or a part of one; a longer read would only put   *)
(* off the flush in between.  Nothing comes behind CONNECTION_CLOSE.       *)
Receive(e) ==
    LET p == Peer(e)
        f == Head(wire[p])
    IN  /\ Quiet /\ m[e].loop = "read" /\ ~m[e].closed
        /\ wire[p] # <<>>
        /\ \E k \in Min({1, f.n}) .. f.n - offset[e] :
            LET c == [Known(e, m[e], f.s) EXCEPT !.loop = "flush"]
                whole == offset[e] + k = f.n
            IN  /\ wire' = IF whole THEN [wire EXCEPT ![p] = Tail(@)] ELSE wire
                /\ offset' = [offset EXCEPT ![e] = IF whole THEN 0 ELSE @ + k]
                /\ CASE f.k = "STREAM" -> recv_stream_data(e, c, f, k)
                     [] f.k = "DATAGRAM" -> on_datagram_received(e, c, f, k)
                     [] f.k \notin {"STREAM", "DATAGRAM"} -> on_control(e, c, f)
        /\ UNCHANGED <<said, calls>>

(* Nothing to read within POLL_INTERVAL; or the end of the transport, and  *)
(* with it of the driver.                                                  *)
NothingRead(e) ==
    /\ Quiet /\ m[e].loop = "read" /\ ~m[e].closed
    /\ wire[Peer(e)] = <<>>
    /\ IF m[Peer(e)].closed
       THEN m' = [m EXCEPT ![e].closed = TRUE]
       ELSE m' = [m EXCEPT ![e].loop = "flush"]
    /\ UNCHANGED <<wire, offset, said, told, calls>>

(* The next turn of _pump_once begins with a flush.                        *)
Pump(e) ==
    /\ Quiet /\ m[e].loop = "flush" /\ ~m[e].closed
    /\ m' = [m EXCEPT ![e].pc = "send", ![e].loop = "read"]
    /\ UNCHANGED <<wire, offset, said, told, calls>>

-----------------------------------------------------------------------------
(* Calls of the applications                                               *)

(* A call takes the lock, changes the connection to c and flushes.         *)
Call(e, c) ==
    /\ Quiet /\ ~m[e].closed
    /\ calls[e] < MaxCalls[e]
    /\ calls' = [calls EXCEPT ![e] = @ + 1]
    /\ m' = [m EXCEPT ![e] = [c EXCEPT !.pc = "send"]]
    /\ UNCHANGED <<wire, offset, told>>

(* open_stream, which fails before the parameters of the peer are known.   *)
OpenStream(e, s) ==
    /\ e = "client" /\ m[e].tx[s] = "none" /\ m[e].params_received
    /\ Call(e, [m[e] EXCEPT !.tx[s] = "open",
                            !.rx[s] = IF s \in Bidi THEN "open" ELSE "ended"])
    /\ UNCHANGED said

(* Streams with a sending side the application of e knows of.              *)
Writable(e, s) == m[e].tx[s] # "none" /\ (s \in Bidi \/ e = "client")

(* send_stream_data, on a stream this application has not ended.  A write  *)
(* without bytes carries FIN: see the README on others.                    *)
SendStreamData(e, s, n, fin) ==
    /\ Writable(e, s) /\ ~said[e][s].fin
    /\ n > 0 \/ fin
    /\ said' = [said EXCEPT ![e][s] = [n |-> @.n + n, fin |-> fin]]
    /\ Call(e, [m[e] EXCEPT !.pending_stream_data =
                    Append(@, [s |-> s, at |-> said[e][s].n, n |-> n, fin |-> fin])])

(* send_datagram: one that cannot be sent is dropped.                      *)
SendDatagram(e, n) ==
    LET len == datagram_frame_length(n)
        kept == /\ MaxDatagram[e] > 0
                /\ len <= RecordSize
                /\ m[e].params_received => len <= MaxDatagram[Peer(e)]
    IN  /\ Call(e, IF ~kept THEN m[e]
                   ELSE [m[e] EXCEPT !.pending_datagrams =
                             Append(@, [at |-> calls[e], n |-> n])])
        /\ UNCHANGED said

(* dwnx_conn_shutdown_stream_write and _read: nothing happens on a side    *)
(* that has ended.                                                         *)
ShutWrite(c, s) ==
    IF c.tx[s] # "open" THEN c
    ELSE [c EXCEPT !.tx[s] = "reset", !.owed = Append(@, Control("RESET", s))]
ShutRead(c, s) ==
    IF c.rx[s] # "open" THEN c
    ELSE [c EXCEPT !.rx[s] = "stopped", !.owed = Append(@, Control("STOP", s))]

ResetStream(e, s) ==
    /\ Writable(e, s)
    /\ Call(e, ShutWrite(m[e], s))
    /\ said' = [said EXCEPT ![e][s].fin = TRUE]

StopSending(e, s) ==
    /\ m[e].rx[s] # "none" /\ (s \in Bidi \/ e = "server")
    /\ Call(e, ShutRead(m[e], s))
    /\ UNCHANGED said

CloseStream(e, s) ==
    /\ m[e].tx[s] # "none"
    /\ Call(e, ShutRead(ShutWrite(m[e], s), s))
    /\ said' = [said EXCEPT ![e][s].fin = TRUE]

Close(e) ==
    /\ Call(e, [m[e] EXCEPT !.close_requested = TRUE])
    /\ UNCHANGED said

Calls(e) ==
    \/ \E s \in Streams :
        \/ OpenStream(e, s) \/ ResetStream(e, s)
        \/ StopSending(e, s) \/ CloseStream(e, s)
        \/ \E n \in WriteSizes, fin \in BOOLEAN : SendStreamData(e, s, n, fin)
    \/ \E n \in DatagramSizes : SendDatagram(e, n)
    \/ Close(e)

(* What the event loop of an end does by itself.                           *)
Flush(e) ==
    \/ Send(e) \/ FinishRecord(e) \/ WriteHead(e) \/ DiscardHead(e)
    \/ StreamError(e) \/ WriteDatagram(e) \/ WriteRecord(e)
Read(e) == Receive(e) \/ NothingRead(e)

Turn(e) == Flush(e) \/ Pump(e) \/ Read(e)

Next == \E e \in End : Turn(e) \/ Calls(e)

(* asyncio keeps the pump of a connection running until it is closed,      *)
(* whatever the other end does.  The fairness is strong because a flush of *)
(* the other end, which the model lets go first, disables the turns of     *)
(* this one for a while.  Nothing is assumed of applications.              *)
Fairness ==
    \A e \in End : SF_vars(Turn(e))

Spec == Init /\ [][Next]_vars /\ Fairness

-----------------------------------------------------------------------------
(* Properties                                                              *)

(* The application of e has written no more than the peer's first credit.  *)
WithinCredit(e) ==
    /\ \A s \in Streams : said[e][s].n <= MaxStreamData
    /\ FoldFunction(LAMBDA w, a : w.n + a, 0, said[e]) <= MaxData

(* As long as an application stays within the credit the peer gave at      *)
(* first, its peer is told the bytes of each stream in the order written,  *)
(* without gap or repetition, and told of FIN only with all of them:       *)
(* however the bytes fall into records, reads and turns of send(), and     *)
(* whatever is reset, stopped or closed meanwhile.                         *)
StreamsWhole ==
    \A e \in End : WithinCredit(e) =>
        LET t == told[Peer(e)]
        IN  \A s \in Streams :
                /\ ~t.gap[s]
                /\ t.fin[s] => t.bytes[s] = said[e][s].n

(* A datagram is handed to the application whole, in the order sent, once, *)
(* and only if it is within the limit its receiver advertised, also when   *)
(* it was queued before that limit was known and comes in several reads.   *)
DatagramsWhole ==
    \A e \in End :
        LET d == told[e].dgrams
        IN  \A i \in 1 .. Len(d) :
                /\ d[i].n \in DatagramSizes
                /\ datagram_frame_length(d[i].n) <= MaxDatagram[e]
                /\ \A j \in 1 .. i - 1 : d[j].at < d[i].at

(* The head of the queue is of a stream that has ended: see the README.    *)
Stuck(e) ==
    /\ m[e].pending_stream_data # <<>>
    /\ Ended(m[e], Head(m[e].pending_stream_data).s)

(* Once the parameters of the peer are known, both queues empty, unless    *)
(* the connection ends or an ended stream is in the way: neither a write   *)
(* without credit nor a datagram above the limit holds others up.          *)
QueuesDrain ==
    \A e \in End :
        m[e].params_received ~>
            \/ m[e].closed \/ m[e].state # "open"
            \/ /\ m[e].pending_datagrams = <<>>
               /\ m[e].pending_stream_data = <<>> \/ Stuck(e)

=============================================================================
