# A TLA+ development for webtransport-py

webtransport-py is a Python library for WebTransport over HTTP/2, HTTP/3 and
QMux. A C++ extension (`src/src/bindings/`) wraps nghttp2, nghttp3 and ngtcp2
with sans-I/O state machines, and asyncio classes (`src/src/webtransport/`)
drive them. This directory models the part that carries the library's own
protocol logic, checks it with TLC on small instances, and proves with TLAPS
what matters most for every value of the constants.

Line numbers below are of `src/src/bindings/webtransport_h2.cpp` unless another
file is named. `PROJECT.json` maps every definition to the lines it models and
lists components, runs, hazards and theorems.

## Inventory

| component | state | operations | hard behaviour | what makes it correct |
|---|---|---|---|---|
| WebTransport over HTTP/2, streams (`webtransport_h2.cpp`) | `WtSessionInfo` with its `WtStreamInfo` map, credit counters, received-id sets, `pending_sends` | 15 capsule handlers, `open_stream`, `send_stream_data`, `reset_stream`, `stop_sending`, `close_session` | capsules of both ends cross; writes go out in part; strict state checks may turn a crossing into an error | order, credit, ends reported once, no lost wakeup, no error between two such ends |
| the same, receive window | `unconsumed_recv_bytes_`, `conn_recv_window_size_`, `conn_consumed_size_`, `capsule_buffer` | DATA callback, `process_capsules`, `accept_session`, every end of a session | one window shared by all sessions; capsules larger than the window | no byte lost or returned twice; the window opens again |
| the same, life of a session | flags of `WtSessionInfo`, output buffer, HTTP/2 stream | `connect`, `accept_session`, `reject_session`, `close_session`, `drain_session`, nghttp2 callbacks | accept, reject, close, END_STREAM and RST_STREAM cross | one end event, nothing after WT_CLOSE_SESSION, both ends close |
| the same, asyncio (`_h2_client.py`, `_h2_server.py`) | reader task, queues, waiters | `connect`, `open`, `recv`, `close` | cancellation, loss of the connection while waiting | every waiter is woken |
| WebTransport over HTTP/3 (`webtransport_h3.cpp`) | sessions, stream associations, buffers before acceptance | as HTTP/2, streams on QUIC | streams and datagrams before their session; deferred close | association, bounded buffers, one close |
| the same, asyncio (`_h3_client.py`, `_h3_server.py`) | background loops, waiters, timers | as HTTP/2 | timers race with packets | every waiter is woken |
| unified API (`client.py`, `server.py`) | the chosen client or server | delegation | choice and fallback of the HTTP version | one live transport |
| QUIC binding (`quic.cpp`) | send chunks, acknowledged offsets, receive credit, close state | send, receive, timers | late acknowledgements, retransmission, reset | a chunk lives until acknowledged |
| QUIC asyncio (`quic/*.py`, `_dcid_index.py`) | connections by address and by connection id | receive loop, migration, collection | ids issued and retired while packets arrive | a packet reaches its connection |
| HTTP/2 (`http2.cpp`, `http2/`) | requests, window accounting | request, response, GOAWAY | as the window above | as the window above |
| HTTP/3 (`http3.cpp`, `http3/`) | stream data until acknowledged | request, response | acknowledged offsets | data released once |
| QMux (`qmux.cpp`, `qmux/`) | `pending_stream_data_`, `pending_datagrams_`, records, waiters | as QUIC, over TCP | limits, queues with one head, a flush under a lock | order, no gap, queues empty |
| helpers (`header_convert.h`, `python_input.h`, `quic_varint.h`, ...) | none | conversions | ranges | codec round trip |
| module initialisation, stubs, TLS files | none | registration | none | not modelled |

Interaction: the application calls the Python class, which calls the binding;
the binding queues bytes and events; the asyncio task writes the bytes
(`send()`), feeds what the socket returns (`receive()`) and hands the events to
waiters and callbacks. The bindings run on one thread, so their handlers are
atomic with respect to each other: concurrency is between the two ends, between
calls of the application and arrivals, and, in the asyncio classes, between
tasks wherever one of them awaits. The loops inside a handler whose intermediate
states matter (`flush_pending_sends`, `process_capsules`, `send()`, the release
of acknowledged chunks) are stepped, with a flag or program counter that keeps
every other action of that end out.

## Modules

| module | models | relation to others |
|---|---|---|
| `H2Streams` | an established session at both ends: handlers, calls, flow control | |
| `H2Window` | the receive window of a connection with several sessions | |
| `H2Lifecycle` | a session from CONNECT to the close of its HTTP/2 stream | |
| `H3Session` | the server end of a WebTransport over HTTP/3 connection: requests, data streams, early arrivals, ends | |
| `ByteStream` | what a transport promises about the bytes of a stream | abstract |
| `QuicSend` | the sending half of a QUIC connection, a lossy network, the receiving half of a peer | implements `ByteStream` |
| `QuicLife` | the life of one QUIC connection: handshake, key update, the ways it ends, the closing period | |
| `QuicServer` | the asyncio QUIC server: routing, migration, callbacks, collection, `stop()` | |
| `QMux` | both ends of a QMux connection, binding and driver | |
| `MCH2Streams`, `MCH2Window`, `MCH2Lifecycle`, `MCH3Session`, `MCQuicSend`, `MCQuicLife`, `MCQuicServer`, `MCQMux` | instances for TLC | extend the above |
| `H3SessionInv` | the inductive invariant of `H3Session` | extends it |
| `H2Streams_proofs`, `H2Window_proofs`, `H2Lifecycle_proofs`, `H3Session_proofs`, `QuicSend_proofs`, `QuicLife_proofs`, `QuicServer_proofs`, `QMux_proofs` | theorems | extend the modules they are named after |

In all of them, operators in `snake_case` are functions of the source and keep
their names; actions are in `CamelCase`, except where an action is a call and
keeps the name of the call. A definition commented "Mutated form"
is what a plausible mistake would make of the definition that follows it; it is
used by no specification and serves to confirm that the properties can fail.

### H2Streams

`wt[e]` is the `WtSessionInfo` of end `e` with the field names of
`webtransport_h2.h`. A function of the source becomes an operator from session
record to session record, and an action applies it: `HandleWtStream` to
`HandleWtCloseSession` are the cases of the dispatcher in `process_capsules`,
`OpenStream`, `SendStreamData`, `ResetStream`, `StopSending` and `CloseSession`
are the calls. `wt[e].out` is everything `e` has queued and its peer has not
processed, in order. An end outside `Impl` is a peer about which nothing is
assumed: `PeerSends` lets it send any capsule, well formed or not.

Payloads are lengths, error codes and messages are reduced to being in range or
not (`form`), and each step of `flush_pending_sends` sends from the lowest
flushable stream, as its passes over the ordered map do. History variables, which no guard
reads: `off` and `at` of a capsule, `off` of a queued send, `written`, `seen`.

### H2Window

Bytes are counted, not kept. The peer may send whatever both HTTP/2 windows
leave (nghttp2 refuses more), and any prefix of the buffer may turn out to be a
complete capsule, or none up to the largest size the payload limit allows. Every
path that consumes or discards bytes is an action or part of one. A client does
not get DATA before its 2xx: nghttp2 rejects DATA before the final HEADERS and
the callback never sees it, so buffering before acceptance is a server's only.
`overheld` is a history variable: the sessions that `accept_session` left with
more than the threshold unconsumed and that have received nothing since.

### H2Lifecycle

`h[e]` is the part of the session that decides how it begins and ends, with
the HTTP/2 stream as nghttp2 sees it (`opened`, `sent_end`, `got_end`,
`closed`); `wire[e]` holds HTTP/2 frames. An end in `foreign` sends any frames
HTTP/2 allows. `early` says whether an application may call `close_session`
before its session is ready. nghttp2 is external: it reports a stream closed
when both sides have sent END_STREAM or one has sent RST_STREAM, and drops
frames of a closed stream.

### H3Session

`h` is the `H3Session` object with the members of `webtransport_h3.h`, followed
by the state of nghttp3 as far as the code depends on it, and by a history of
what the application was told. A stream carries a sequence of items, delivered
in chunks of any size: the HEADERS frame is three items long so that a chunk can
end inside the frame header, inside the field section and behind it.
`receive_stream_data` is one action, `Deliver`, with everything it calls: the
guard around blocked headers (`split`), the read by nghttp3 with its callbacks,
the FIN bookkeeping of `process_after_read`, and `flush_unblocked_held_data`.
`DeliverTable` is the QPACK encoder stream bringing what blocked headers wait
for. `Write` is `get_streams_to_send`, with any set of the queued responses taken
by QUIC.

Assumed of nghttp3: it keeps the capsules and the data of a session until the
session is confirmed, and handles capsules first when it is; it reports the FIN of a
CONNECT stream only when confirmed; it stops reading capsules behind
WT_CLOSE_SESSION or after a local close (so a close that crosses the peer's is
reported once; `recv_wt_close_session_cb` has no check of its own); it ignores
data streams of a session that is gone, and fails on a stream it no longer has.

### QuicSend

The variables named after members (`stream_buffers`, `stream_unacked`,
`stream_acked_offset`, `datagram_queue`, `handshake_completed`) are those of
`QuicConnection` in `quic.cpp`. ngtcp2 keeps pointers into the chunks of
`stream_unacked` and reads them again when it retransmits; a frame in `ng[s].una`
is such a pointer, and reading it where the chunk is gone yields `Freed`. `send()`
is `SendCall`, then one step per call of `ngtcp2_conn_writev_stream` or
`writev_datagram`, and `SendDone`; the acknowledgement callback is `Ack` and one
`ReleaseChunk` per chunk. ngtcp2, the network and the peer are external: frames
are lost, repeated (a retransmission does not remove the first copy), split and
reordered; acknowledgements come in any order and are reported as a growing
prefix. Early data may be rejected: ngtcp2 forgets its streams, ids start again,
and `era` tells the addresses of the two attempts apart. A peer that has
negotiated RESET_STREAM_AT is assumed where the code asks for it.

`ReliableStream` is `ByteStream!Spec` under the mapping: `sent` is the first
`wrote[s]` bytes, `fin` that the application ended the stream, `cut` that one of
the ends gave it up; `got` and `eof` are what the peer's application was told.

### QuicLife

The flags are those of `QuicConnection`; `ngst` is the state of ngtcp2 as far
as the code asks for it. `receive()`, `send()`, `handle_timeout()`, `close()`,
`initiate_key_update()`, `next_event()` and the other calls that can end a connection are
actions, one per outcome of the ngtcp2 call inside. Time is two booleans: the
clock has passed the end of the closing period, or ngtcp2's own expiry.

### QuicServer

`srv` holds the dictionaries of `quic/server.py` and `_dcid_index.py`, with the
connections in them reduced to who ended them, what ids they have and what events
wait. `run()`, `stop()`, the task of each connection and calls of the application
interleave where one of them awaits; between two awaits of `run()` nothing else
takes a step (`Yielded`). A datagram may come from any address with any id, so
clients migrate, ids are spent and packets of dead connections arrive late. An
application has at most one send under way for each connection.

### QMux

`m[e]` is `QmuxConnection` (`qmux.cpp`), its `dwnx_conn` and the
`ConnectionDriver` (`qmux/_connection.py`) that owns it. Each call of dwnx is a
step; a flush runs to its end under the driver's lock, which loses nothing
because the steps of the other end commute with it. dwnx is external and answers
nondeterministically wherever the code handles more than one answer. The binding
never extends the credit it gave at first, and neither does the model. The limit
of 64 attempts in a `send()` (`qmux.cpp` 436, 489) is left out. Datagrams collected
before the peer's parameters are known can exceed it: the rest is taken by the
next record, or, behind 64 that are all above the peer's limit, by the next call
that flushes. No property reaches queues of that length. A read brings one frame
or a part of one.

## Runs

| run | shows | distinct states |
|---|---|---|
| `pair` | between two ends of this code, in every interleaving: no end makes the other report an error (`NoPeerError`), bytes arrive in the order written (`InOrder`), an end is reported once (`EndsOnce`), queue and counters account for every byte (`PendingAccounted`), and a write held back by flow control is sent in the end (`PendingDrains`) | 344,244 |
| `anypeer` | against any peer and any application: credit (`CreditRespected`), nothing reported behind the end of a stream (`NoBytesAfterEnd`), live streams of the peer bounded (`LiveStreamsBounded`), silence after close (`SilentAfterClose`) | 372,792 |
| `window` | two sessions on a connection: the window is conserved (`WindowConserved`), sessions hold none of it beyond what they buffer (`HeldIsBuffered`), and no callback leaves it closed on a single live established session (`WindowOpen`) | 26,616 |
| `window_default` | violation (`WindowOpenAlone`): see Findings | |
| `window_two` | violation (`WindowOpenForAll`): see Findings | |
| `lifecycle` | one end event and nothing after it (`OverOnce`), WT_CLOSE_SESSION last (`CloseIsLast`), no error between two such ends (`NoPeerError`), END_STREAM answered (`EndIsAnswered`), a close completes at both ends (`CloseCompletes`) | 230,676 |
| `h3` | sessions of the HTTP/3 server begin and end once, and every event has its place (`OverOnce`); nothing is fed behind blocked headers (`NothingBehindBlocked`); no early FIN is forgotten (`EndLearned`, `FinEndsSession`); the count before acceptance is exact (`PreAcceptCounted`); all data of accepted sessions is reported (`DataReported`); a 2xx fits the state its session is in when it is written (`ResponseFits`) | 386,840 |
| `quic_send` | memory ngtcp2 may read is there and right, and acknowledged memory is released (`HeldIntact`); each stream id is a reliable byte stream through loss, reordering, resets and rejected early data (`ReliableStream`, a refinement) | 2,060,276 |
| `quic_live` | two streams and an oversized datagram behind a window of one byte: whatever is not given up arrives (`Drains`) | 176,721 |
| `quic_life` | ConnectionClosed comes once and last (`ClosedIsLast`), no more answers than packets while closing (`AnswersBounded`), no key update before ngtcp2 allows one (`KeyUpdateSafe`), interrupts of the certificate callback reach the caller (`InterruptsSurface`), the kept packet is sent and dropped (`ClosingEnds`) | 16,364 |
| `routing` | the server's dictionaries agree (`Registered`), a migrating client is found (`RoutesHome`), no executing callback is cancelled (`CallbackKept`), the close is reported once and with the right address (`ToldRight`), and what is over is forgotten (`Concluded`) | 168,295 |
| `qmux` | within the first credit streams arrive whole (`StreamsWhole`), datagrams arrive whole and within their limit (`DatagramsWhole`), and neither a write without credit nor an oversized datagram holds the queues up (`QueuesDrain`) | 348,754 |

Deadlock is not checked: a closed session or connection, and one whose
applications do nothing more, really stops.

### Bounds

* `pair`: session limit 3 bytes, stream limit 2, one stream per
  direction and initiator, writes of 0 or 3 bytes: a write is blocked by the
  stream limit first and by the session limit later, in part and wholly, and
  every limit is raised several times. Three calls of the client and two of the
  server are enough for a write, a second write or a reset, and a stop or close
  that crosses them. `kMaxReceivedMapEntries = 1`: the sets reach their cap.
* `anypeer`: three capsules of the peer and one call; `kMaxStreamsLimit = 2` and
  `kMaxQuicVarint = 4` so that both saturations happen.
* `window`: the sizes of the code divided by 8192, rounded so that the relations
  its arithmetic has stay exact: window 65535 becomes 7, its half 32767 becomes
  3, the threshold 32768 becomes 4 (3 + 4 = 7 as 32767 + 32768 = 65535), a frame
  of 16384 becomes 2, and the largest capsule is larger than the window. The limit
  before acceptance is 6, above the threshold and below the window: `accept_session`
  leaves more than the threshold, with the window closed if another session left
  bytes to be returned, and the limit also rejects, which its default of 65536,
  above the window, never does. `window_default` has one session and that default,
  8; `window_two` keeps nothing before acceptance, so that what it finds is not what
  `window_default` finds.
* `lifecycle`: one capsule may be kept before acceptance, one capsule sent by
  each application, two frames by a foreign end after its HEADERS. Each crossing
  of two frames happens; the properties concern their order and not their number.
* `h3`: one session with one data stream and each kind of content, one with two
  data streams and WT_CLOSE_SESSION, and two sessions without data streams: the
  sets of session ids never mix more than two. Two D's against a limit of one
  before acceptance reach both sides of the limit, in one chunk and in two.
* `quic_send`: one stream id, used again after rejected early data; two writes,
  empty or of 3 bytes, against a window of 2, so that writes are cut, wait for
  credit and leave a chunk each; a frame is split, lost once, and acknowledged
  before or after its neighbours. `quic_live`: two ids, so that streams compete
  for a window of 1, and one lost frame.
* `quic_life`: three events and four packets while closing are more than the
  properties tell apart (none, first, later); the theorems have no bound.
* `routing`: two connections and two addresses are what a migration onto another
  connection's address needs. The four sets of bounds each allow one of: an
  issued id with an event and a call, a raising callback, a failing send, a
  `stop()`.
* `qmux`: three calls of the client and one of the server; credit 4 against
  writes of 3, so that the second write is cut; records of three units, so that
  data, FIN and datagrams share a record or not; a datagram within and one
  above the server's limit.

`MaxCalls`, `MaxStreamCount`, `WriteSizes`, `DatagramSizes`, `DatagramKinds`,
`PeerIds`, `PeerLens`, `PeerVals`, `MaxSends`, `MaxForeign`, `Contents`,
`MaxDatagrams`, `MaxWrites`, `MaxLosses`, `MaxEvents`, `MaxPackets` and `Bounds`
are bounds of the model; the other constants are configuration or constants of
the code.

### Fairness

`H2Streams` and `H2Lifecycle` assume that what arrives is processed, that a
started loop goes on and (in `H2Lifecycle`) that queued frames are written;
`H2Streams` asks only that while either end has something to do, one of them does
it. The
asyncio tasks of client and server do this for as long as the connection lives:
each read is fed to `receive()`, which handles every complete capsule, and
`send()` is drained after each event. Nothing is assumed of applications, which
may stop calling at any time, and nothing of a foreign end. `H3Session` assumes
that responses are written in the end: client and server call
`get_streams_to_send` after every batch of events and timers, and QUIC grants
credit for a response of a few bytes.

`QuicSend`: weak fairness of `SendCall` and `LoopTurn` (the event loop keeps
calling `send()`, and its loops return); strong fairness of `NextDatagram`,
`Write(s)` and `Exchange`, because the congestion window, which the model lets
open and shut at will, opens again and again, and because a network that loses
`MaxLosses` frames in all delivers the rest. `QuicLife`: weak fairness of the
first `send()` after a close, of the clock and of the timer, which the drivers
arm from `get_timeout_ns`. `QuicServer`: weak fairness of `Pass` (a pass of
`run()` goes on once the socket has accepted what it waits for) and strong
fairness of `TaskStep`, as tasks run whenever `run()` waits, which it does again
and again. `QMux`: strong fairness of each end's `Turn`; the flush of one end,
which the model lets go first, disables the other end for a while, and asyncio
does not.

## Findings

* `window_default`: `wt_pre_accept_buffer_limit` is 65536 by default
  (`webtransport_h2.h` 153) against a window of 65535, and `accept_session` (2360)
  processes what was kept without consuming any part of an unfinished capsule. A
  capsule larger than the window that is sent before acceptance fills the window;
  after `accept_session` nothing is consumed and the rest cannot arrive, although
  the session is the only one. The comment at 3512-3515 says that the early
  consumption prevents this; it is in `on_recv_data_callback` only. `WindowOpen`
  excepts this state (`overheld`) and nothing else: a session of which a byte
  arrives afterwards is judged again.
* `window_two`: the code leaves up to 32768 bytes of an unfinished capsule
  unconsumed for *each* session (3518) while 65535 bytes of connection window
  serve all of them. Two sessions whose capsules are both unfinished use up the
  window, and neither capsule can be completed.

Met while modelling, kept in the models as the code has them, and excluded from
a property where it says so. HTTP/2:

* `close_session` before the 2xx arrives (3394) or before `accept_session` (2349)
  is undone: the session becomes established while it is terminated (the comment
  at 2962 says otherwise);
* `accept_session` handles capsules kept since CONNECT before it sends the
  initial limits (2380), and may so send a limit below one it has just raised,
  which the receiver treats as WT_FLOW_CONTROL_ERROR;
* an empty write queued behind another stalls the queue (2000, issue 0260 of the
  repository): `PendingDrains` excepts a queue whose head is empty;
* an empty WT_STREAM_FIN for an ended stream that still has its entry is
  reported again: `NoBytesAfterEnd` allows it, and `EndsOnce` is stated for two
  ends of this code, which never send it;
* `reset_stream` and `stop_sending` do not check the direction of the stream
  (2711): the properties of `pair` are checked for applications that respect
  directions (`Disciplined`), those of `anypeer` for all;
* after a rejection the client leaves its side of the stream open (3430):
  `EndIsAnswered` and `CloseCompletes` are stated for accepted sessions.

HTTP/3 and QUIC:

* WT_CLOSE_SESSION before acceptance makes `accept_session` drop the CONNECT
  stream; a FIN that follows in a packet of its own fails in nghttp3, `closed_` is
  set (`webtransport_h3.cpp` 230) and the server closes the connection
  (`_h3_server.py` 1146);
* a write without bytes and without FIN stays at the head of its queue
  (`quic.cpp` 1393) and stalls what is behind it: `Drains` excepts it (`Stalled`);
* chunks of rejected early data are never acknowledged and keep as many bytes of
  their successors back: `HeldIntact` speaks of release only without rejection;
* a callback that raises ends the task of its connection, and
  `on_connection_closed` is not called (`quic/server.py` 434): `Concluded`
  excepts it.

QMux:

* a write without credit is discarded (`qmux.cpp` 470) while its FIN may still be
  sent, so that a stream can end early: `StreamsWhole` is stated within the first
  credit;
* a FIN without bytes for a stream that has ended is retried for good, as nothing
  is consumed (479), and holds the queue up: `QueuesDrain` excepts it (`Stuck`);
* the driver holds its lock while it waits for the socket (`_connection.py` 284),
  and `handle_timeout` ignores what dwnx answers, so that an idle close is seen
  only by the next read: the model has no timers and a socket that always
  accepts.

## Proofs

Assumptions are the named ASSUMEs of the modules, which TLC evaluates in
every run: `ImplAssumption`, `ConfigAssumption`, `LimitAssumption` (the
configured limits do not exceed the largest the encoding allows) and
`BoundAssumption` of `H2Streams`; `WindowAssumption` of `H2Window` (sizes are
natural numbers, finitely many sessions); `LifecycleAssumption` of `H2Lifecycle`;
`SessionAssumption` and `ContentsAssumption` of `H3Session` (finitely many
sessions and streams; a stream carries what the module lists, cut off anywhere);
`StreamAssumption`, `VerdictAssumption`, `WindowAssumption`, `SizeAssumption`,
`DatagramAssumption` and `BoundAssumption` of `QuicSend`; `BoundAssumption` of
`QuicLife`; `BoundAssumption` and `NoneAssumption` of `QuicServer` (the value
that stands for "no connection" is neither a connection nor an address);
`StreamAssumption`, `LimitAssumption` and `BoundAssumption` of `QMux` (finitely
many streams; a record has room for two units at least). They say what kind of
values the constants are; no theorem limits a count or a number of steps, and only
`WindowStaysOpen` and `SmallLimitStaysOpen` relate sizes to each other.

The modules share a method. A function of the source is an operator on a record,
and the invariant is stated about that record; each operator has one lemma that
says what it does to the invariant, and the lemma of an action puts those of its
operators together. Where many operators do the same to the invariant, that is a
relation between the record before and after (`Drops`, `Says`, `SameRoutes`, ...)
with one lemma for the relation.

**`H2Streams_proofs`**, first part: `TypeCorrect` and `CreditAlwaysRespected`, for all limits,
write sizes, numbers of streams and of calls, and any peer. The inductive
invariant `Inv` is `TypeOK` together with `Good(wt[e])` for every end that runs
the code. `Good` is the record's type, the credit of the session, and the credit
of every stream *in the map*; entries outside the map are unconstrained, which is
why creation (`NewStreamGood`) and release (`EraseGood`, `ReleaseGood`) have
lemmas of their own. There is one lemma per function of the source, saying that
it takes a good session to a good one, and one step per action that combines
them. The argument for sending is `SendableFits`: the sendable length is within
both credits, so one capsule moves both counters by the same length and neither
passes its limit; for receiving `AcceptFits`: data is counted only after both
checks, and limits only grow (`RaisedLimit`).

**`H2Streams_proofs`**, second part: `AlwaysPendingAccounted`, `NeverBytesAfterEnd`,
`AlwaysLiveStreamsBounded` and `AlwaysSilentAfterClose`, for one end and whatever
its peer sends. `LocalInv` adds to `Inv`, for each end: a flush runs in an open
session only (`Quiet`); the queue of each stream is a chain of writes from
`bytes_sent` to the bytes written, and a stream that may still send has sent
everything when its queue is empty (`AllAccounted`); and, while
`released_stream_ids` is below its cap, a stream whose end was reported is
finished or known as released (`Heard`), and the peer's streams in the map and
those released are different streams below the limit, which exceeds the configured
one by at most the number released (`Places`). The last part is what bounds the
live streams: n places below a limit, less those released. `SilentStep` is the
action property, from `Quiet`.

**`H2Streams_proofs`**, third part: `AlwaysNoPeerError`, `AlwaysInOrder` and
`AlwaysEndsOnce`, for two ends of this code. No property of one end's record
implies them: whether a capsule is refused when it arrives depends on what was
true at the sender when it was queued, and on everything queued before it. The
invariant `One(p, s, r)` therefore describes an end `p` with the record `s`, the
capsules it has in flight (`s.out`) and the record `r` of its peer, and `Pair` is
`One` in both directions. Stream by stream it says that

* the data in flight is a chain from what `r` has received to what `p` has sent,
  within the limit `r` has granted, nothing follows a FIN or a reset, and nothing
  is in flight once `r` has reported the end (`Way`);
* the limits in flight rise from what `r` knows to what `p` grants (`Credit`);
* WT_STOP_SENDING is sent once, and no limit is raised behind it (`Stopped`);
* nobody knows of a stream that was not opened (`Born`), an entry that is gone was
  finished (`Entry`), and data goes in its direction (`Directed`);

and for the session the same of WT_MAX_DATA, WT_MAX_STREAMS and the sum of all
bytes (`Whole`). The functions of the source reduce to few kinds of change: an
end says something (`Says`), makes or drops an entry (`Makes`, `Drops`), hears a
capsule and takes it off the queue (`Hears`, `Takes`, `Notices`). Each kind has
one lemma for the end that changes as sender and one for it as receiver.
`NeverRefused` reads off the invariant that every verdict is to accept or to
ignore. `InOrder` and `EndsOnce` hold for all applications, `NoPeerError` for
those that respect directions (`Disciplined`, see Findings); the invariant keeps
the two cases apart, so that it also covers the close which an undisciplined call
provokes. `EndsOnce` is proved here without the condition on `released_stream_ids`
that `NoBytesAfterEnd` needs against any peer.

**`H2Window_proofs`**: `TypeCorrect` (no counter becomes negative),
`HeldAreBuffered` and `WindowIsConserved`, for any number of sessions and all
sizes. The last equates the window with what waits to be returned plus the sum of
what the sessions hold. The sum is a fold over a set; what the proof needs of it
(a sum changes by as much as one of its terms, and is the one term that is not
zero) is shown by well-founded induction over the finite sets. `WindowStaysOpen`
proves `WindowOpen`, however many sessions the connection has had and whatever
limit it has before acceptance, under `SizesFit`, which the windows and the
threshold of the code satisfy: half the window plus the threshold fits into the
window, and the threshold is below both windows. Its invariant adds to
`WindowConserved` that less than half a window waits to be returned (`BelowHalf`)
and that between two callbacks an established session holds at most the threshold
unless it is `overheld` (`SessionFits`). `SmallLimitStaysOpen` proves
`WindowOpenAlone`, without the exception, when the limit before acceptance is at
most the threshold. The default of that limit is twice the threshold, so this says
what setting avoids the finding and not that the code does.

**`H2Lifecycle_proofs`**: `TypeCorrect`, `AlwaysOverOnce` and `AlwaysCloseIsLast`,
with either end foreign or none. That a session begins once follows from
`HeadersOnce`, a property of the wire: each end writes one HEADERS frame, and
while it is on its way the other end has not taken it. `Told` relates the events
reported to the flags (a session whose entry is there is not over; a server's
session is answered before it processes capsules), and `Closes` says that
WT_CLOSE_SESSION is the last capsule on the wire and in the output buffer and is in
neither while the session is not terminated; it holds for applications that wait
for SessionReady (`~early`, see Findings). `AlwaysNoPeerError` is for two ends of
this code, whether or not one closes early. Its invariant `Peaceful` follows the
limits of one direction from the output buffer over the wire into the capsule
buffer of the peer: in each of the three they rise between two bounds (`Up`,
`UpFrames`), and moving a capsule moves the bound between two of them (`Going`,
`Taken`, `Flight`). `Orderly` says when capsules may be kept, and that an end that
is not ready has advertised its initial limit only; since a client opens no stream
before it is ready (`NoStream`), `accept_session` sends the initial limit before
it can raise it. For each function, `Gentle` says what it leaves of this for what
the end sends (`Gives`) and for what it receives (`Accepts`).

**`H3Session_proofs`**: `Typed`, `EventsInPlace` (`OverOnce`), `BlockedStreamsWait`
(`NothingBehindBlocked`), `FinsAreLearned` (`EndLearned`), `EarlyDataCounted`
(`PreAcceptCounted`), `DataIsReported` (`DataReported`) and the action property
`ResponsesFit` (`ResponseFits`), for any number of sessions and streams, all
contents and all ways to cut them into chunks. The inductive invariant `Inv` is
one for all of them:

* `Good`, with `Life` for each session (how the events reported, the response, the
  flags of the binding and the state nghttp3 keeps fit together) and `OneStream`
  for each data stream (what was handed in is what was reported plus what is kept,
  and the early data is counted);
* `Guards`: what the frame boundary guard holds is exactly what was received and
  not fed to nghttp3;
* `Fed`: between two calls nothing is held that could be fed;
* `Ends` and `FinsOnly`: a FIN that was received is remembered in one of the
  places the code has for it, and nothing is remembered that was not received.

Nearly every function changes few fields of the record, which `Keeps` states, and
`Good` and `Guards` are preserved function by function. `Fed` and `Ends` are not:
they fail in the middle of `receive_stream_data` and hold again when it returns,
after `process_after_read` and `flush_unblocked_held_data`. `Mid` is the
invariant there, `Received` what the whole call leaves, and `Called` what a call of
the application leaves. The loops over streams and over items of a chunk are folds,
and each has a lemma by induction over the subsets, or the prefixes, already done.
`Fitting` is what `ResponseFits` says of one session; it is composed along the
same functions.

**`QuicSend_proofs`**: `TypeCorrect`, `HeldAlwaysIntact` and
`ImplementsByteStream`, that is `Spec => ReliableStream`, for any set of streams,
any window and any bounds. `ByteStream` assumes no fairness, so this is the whole
refinement. `Sound(s)` describes a stream from the application to the peer: the
kept chunks are in order, do not overlap, and end where ngtcp2 has taken bytes
(`Retained`, `Aligned`); the queue continues from there (`Queued`); each frame
that may be sent again lies within one kept chunk (`Outstanding`); and what is
acknowledged is released, outside of the callback (`Freeable`). `Releasing` is
the state inside of it, between two chunks. `Carried` and `Delivered` follow the
bytes through the network: a packet of this attempt carries the bytes its offset
says, and an `era` before the current one never reaches the peer's application.

**`QuicLife_proofs`**: `TypeCorrect`, `KeyUpdatesSafe`, `AnswersAlwaysBounded`,
`InterruptsAlwaysSurface` and `ClosedAlwaysLast`, for any number of events and
packets. None of the properties is inductive alone. `Phases` ties the state of
ngtcp2 to the flags of the binding while the connection lives, which is what
makes `post_handshake_write_done` a sound guard of a key update. `Kept` says that
a kept CONNECTION_CLOSE belongs to a connection the application closed and for
which nothing was reported; with it, `LastInv` excludes an end after the end.
`Surfaced` adds that no call returns with an interrupt still stored.

**`QuicServer_proofs`**: `TypeCorrect`, `AlwaysRegistered`, `AlwaysRoutesHome`,
`AlwaysCallbackKept` and `AlwaysToldRight`, for any number of connections,
addresses, events and failures and any interleaving of `run()`, `stop()`, the
tasks and the application. `Mirrored` and `Routes` say how the dictionaries by
address and by connection id agree, `Fresh` that an id belongs to the connection
that issued it, `Tasked` that a queue has a task, `Told` that the one close event
is in the connection, in its queue, in a callback or told, and with which
address, `Unlisted` that by then the connection has left the dictionaries.
`stop()` takes these apart in phases and awaits between them, so the invariant is
stated relative to its phase (`Staged`) and to the connection a send is under way
for (`Sending`).

**`QMux_proofs`**: `Typed`, `DatagramsAreWhole` and `StreamsAreWhole`, for any
streams, limits, sizes and calls of both ends. `Base` is the type invariant with
what the sending side keeps to: no record is left over between two flushes, a
frame is written only into a record with room, and neither credit is overrun.
`DgInv` says that the datagrams handed over, on the wire and queued are in the
order of the calls that made them, each within the peer's limit once it is sent
(`DatagramsOrdered`), and that what has been put together of one is what was read
of it (`Reading`, `PutTogether`). `StreamInv` follows the bytes of each stream: a
chain (`Chain`) leads from what the peer's application was told over what is under
way (`Flight`) and queued to what was written (`Whole`), nothing follows a FIN
(`FinLast`) and a stream is opened before it is used (`OpenedFirst`). `Whole` needs
that no write finds its credit used up, which holds while the bytes written are
within the first credit (`Within`); for that, the sums over the streams are
unfolded like those of `H2Window`.

Every type invariant and every safety property of the passing runs, invariant or
action property, is proved; the runs do not repeat the type invariants. Only
model-checked: liveness (`PendingDrains`, `EndIsAnswered`, `CloseCompletes`,
`FinEndsSession`, `Drains`, `ClosingEnds`, `Concluded`, `QueuesDrain`), which TLAPS
does not reach here. Where the model folds over a set or a sequence, the proofs use
what the fold preserves, or unfold it one element at a time; that it computes a
particular value for every input is only stated for the sums.

## Limits of the model

* Header parsing and origin checks (their outcome is a choice), 1xx responses,
  failures of nghttp2's submit functions, allocation failures and TLS.
* `H2Streams` begins when both ends have established the session and have
  exchanged their initial limits. What precedes is in `H2Lifecycle`, which has no
  streams. The two are not composed yet.
* In `H2Streams` the history of what was told about a stream begins anew when the
  application opens it. `open_stream` (2541) does not look at
  `released_stream_ids`, so that an id a foreign peer has used, ended and seen
  released can be opened afterwards; what was told about it before is not judged
  by `NoBytesAfterEnd`.
* `H3Session` is a server. The client role, sending data (`stream_buffers_`,
  `send_datagram`, `shutdown_stream_write`), SETTINGS, GOAWAY and the ids of control
  and QPACK streams are left out. A chunk never mixes with the reads of another
  connection, and error codes are left out. Of the events, StreamClosed and the
  StopSending and ResetStream that nghttp3's own callbacks ask for (2322-2370) are
  left out: they concern single streams and carry a session id only while
  `stream_info_` has one. `CloseSession` is for established sessions, as nghttp3
  refuses others according to `_h3_server.py` 886-888; closing a session before
  acceptance, or again after WT_CLOSE_SESSION, depends on nghttp3's answer.
  `reject_session` with a 2xx status (`webtransport_h3.cpp` 1256-1260), which keeps
  the session, is not a step.
* `QuicSend` leaves out the credit of the whole connection, and `QuicLife` has no
  streams: `QuicSend` begins with a connection and lets it live for good.
* `QuicServer` has no version negotiation or Retry and no clock: the timer of a
  connection may end it in any pass, and it issues and retires ids at any step
  that touches it. `stop()` closes a connection only when the application has no
  send under way for it, a guard `stop()` itself does not have.
* `QMux` has no timers, TLS or transport errors, and no write without bytes and
  without FIN.
* Of the Python code, `quic/server.py`, `_dcid_index.py`, `qmux/_connection.py`
  and the handling of a received reset in `_h3_server.py` are modelled; the rest is
  present only through the fairness above.

## Not modelled

* The asyncio classes of WebTransport over HTTP/2 and HTTP/3, of the QUIC and
  QMux clients, and the unified API: planned, see below.
* `http2.cpp` and `http3.cpp` with their classes: the window accounting and the
  scheme of kept chunks are those of `H2Window` and `QuicSend`, but they are
  programs of their own and not covered by these modules.
* The helpers are stateless conversions; module initialisation, type stubs and
  temporary TLS files hold no protocol state.

## Plan

1. `AsyncSession`: reader task, waiters, cancellation, timeouts and close of the
   asyncio classes, with an abstract specification of a waiter that is woken
   exactly once; then the clients of QUIC and QMux on it.
2. `H3Session`, second part: the client role, the send buffers and their release,
   shutdown of one direction, drain (`webtransport_h3.cpp`); the same scheme in
   `http3.cpp`.
3. `H2Streams` shown to implement `ByteStream`, and begun from the handshake of
   `H2Lifecycle`.
4. `http2.cpp`: requests, GOAWAY and the window.
5. `QMux` with timers and a socket that may not accept; the choice of a version in
   the unified API; the varint codec against a reference definition.

Theorems to follow are those of these modules: that `H2Streams` implements
`ByteStream`, which its invariant `Pair` prepares, that the send buffers of
`H3Session` keep what `HeldAlwaysIntact` says of `QuicSend`, and that a waiter of
`AsyncSession` is woken once.
