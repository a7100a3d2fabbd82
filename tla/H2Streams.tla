----------------------------- MODULE H2Streams -----------------------------
(***************************************************************************)
(* The streams and the flow control of one established WebTransport over   *)
(* HTTP/2 session: src/bindings/webtransport_h2.cpp, from the capsule      *)
(* handlers to open_stream, send_stream_data, reset_stream, stop_sending   *)
(* and close_session.                                                      *)
(*                                                                         *)
(* Two ends exchange capsules.  wt[e] is the WtSessionInfo of end e, with  *)
(* the field names of webtransport_h2.h; wt[e].out is the FIFO of capsules *)
(* e has queued and its peer has not processed yet: http2_stream_buffers_  *)
(* of e, the HTTP/2 connection, and capsule_buffer of the peer, which      *)
(* together keep every byte in order.  An end in Impl runs this code; an   *)
(* end outside Impl is a peer about which nothing is assumed.              *)
(*                                                                         *)
(* Operators in snake_case are the functions of the source, as             *)
(* transformers of the session record; actions are in CamelCase.           *)
(***************************************************************************)
EXTENDS Integers, Sequences, FiniteSets

CONSTANTS
    Impl,                     \* the ends that run this code
    Config,                   \* [end |-> its H2SessionConfig limits]
    kMaxReceivedMapEntries,   \* cap of the received-id sets (4096 in the code)
    kMaxStreamsLimit,         \* largest Maximum Streams (2^60 in the code)
    kMaxQuicVarint,           \* largest varint (2^62 - 1 in the code)
    MaxStreamCount,           \* bound: streams per initiator and direction
    WriteSizes,               \* bound: lengths an application writes
    MaxCalls,                 \* bound: [end |-> number of calls made into it]
    Disciplined,              \* the applications respect stream directions
    PeerIds, PeerLens, PeerVals   \* bound: field values of an arbitrary peer

VARIABLES
    wt,      \* wt[e]: the session as end e keeps it
    calls    \* calls[e]: calls the application (or arbitrary peer) e has made

vars == <<wt, calls>>

End == {"client", "server"}
Dir == {"bidi", "uni"}
Peer(e) == IF e = "client" THEN "server" ELSE "client"

ASSUME ImplAssumption == Impl \subseteq End /\ Impl # {}
ASSUME ConfigAssumption ==
    Config \in [End -> [max_data : Nat, max_stream_data : Nat,
                        max_streams : [Dir -> Nat]]]
ASSUME LimitAssumption ==
    /\ kMaxReceivedMapEntries \in Nat
    /\ kMaxStreamsLimit \in Nat
    /\ kMaxQuicVarint \in Nat
    /\ \A e \in End : /\ Config[e].max_data <= kMaxQuicVarint
                      /\ Config[e].max_stream_data <= kMaxQuicVarint
                      /\ \A d \in Dir : Config[e].max_streams[d] <= kMaxStreamsLimit
ASSUME BoundAssumption ==
    /\ MaxStreamCount \in Nat \ {0}
    /\ WriteSizes \subseteq Nat
    /\ MaxCalls \in [End -> Nat]
    /\ PeerIds \subseteq 0 .. (4 * MaxStreamCount - 1)
    /\ PeerLens \subseteq Nat
    /\ PeerVals \subseteq Nat
    /\ Disciplined \in BOOLEAN

-----------------------------------------------------------------------------
(* Stream identifiers: bit 0 is the initiator, bit 1 the direction.        *)

StreamId == 0 .. (4 * MaxStreamCount - 1)

build_stream_id(e, d, counter) ==
    4 * counter + (IF d = "uni" THEN 2 ELSE 0) + (IF e = "server" THEN 1 ELSE 0)

is_unidirectional(id) == (id \div 2) % 2 = 1
DirOf(id) == IF is_unidirectional(id) THEN "uni" ELSE "bidi"
is_local(e, id) == (id % 2 = 1) <=> (e = "server")
is_receivable_data_capsule(e, id) == is_unidirectional(id) => ~is_local(e, id)
is_receivable_flow_capsule(e, id) == is_unidirectional(id) => is_local(e, id)
is_sendable_stream(e, id) == is_local(e, id) \/ ~is_unidirectional(id)

Smaller(a, b) == IF a <= b THEN a ELSE b
Larger(a, b) == IF a >= b THEN a ELSE b

-----------------------------------------------------------------------------
(* State.                                                                  *)

Absent == -1   \* no entry in received_max_stream_data_by_id

(* A queued send.  off is a history variable: where in the stream the      *)
(* application wrote these bytes.                                          *)
PendingSend == [off : Nat, len : Nat, fin : BOOLEAN]

SendState == {"Ready", "DataSent", "ResetSent"}
RecvState == {"Recv", "DataRecvd", "ResetRecvd"}
SendDone == {"DataSent", "ResetSent"}
RecvDone == {"DataRecvd", "ResetRecvd"}

(* written is a history variable: bytes the application has written.       *)
WtStreamInfo ==
    [send_state : SendState, bytes_sent : Nat, max_stream_data_local : Nat,
     recv_state : RecvState, bytes_received : Nat, max_stream_data_remote : Nat,
     pending_sends : Seq(PendingSend), stream_data_blocked_sent : BOOLEAN,
     stop_sending_received : BOOLEAN, written : Nat]

NoStream ==   \* the default-constructed WtStreamInfo
    [send_state |-> "Ready", bytes_sent |-> 0, max_stream_data_local |-> 0,
     recv_state |-> "Recv", bytes_received |-> 0, max_stream_data_remote |-> 0,
     pending_sends |-> <<>>, stream_data_blocked_sent |-> FALSE,
     stop_sending_received |-> FALSE, written |-> 0]

StreamCapsules == {"WT_STREAM", "WT_STREAM_FIN"}
MaxStreamsCapsules == {"WT_MAX_STREAMS_BIDI", "WT_MAX_STREAMS_UNI"}
StreamsBlockedCapsules == {"WT_STREAMS_BLOCKED_BIDI", "WT_STREAMS_BLOCKED_UNI"}
CapsuleType ==
    StreamCapsules \cup MaxStreamsCapsules \cup StreamsBlockedCapsules \cup
    {"WT_RESET_STREAM", "WT_STOP_SENDING", "WT_MAX_DATA", "WT_MAX_STREAM_DATA",
     "WT_STREAM_DATA_BLOCKED", "WT_DATA_BLOCKED", "WT_CLOSE_SESSION"}

(* form: "ok"; "malformed", a payload whose fields cannot be read or do    *)
(* not fill it; "range", an error code above 0xffffffff or a bad close     *)
(* message.  off (place in the stream) and at (bytes_sent of the session   *)
(* before this capsule) are history variables no handler reads.            *)
Form == {"ok", "malformed", "range"}
Capsule ==
    [type : CapsuleType, id : StreamId, len : Nat, val : Nat,
     form : Form, off : Nat, at : Nat]

Status == {"open", "terminated", "erased"}   \* is_terminated; entry erased
Reason == {"none", "app", "flow_control", "stream_state", "wt_error", "malformed"}
SeenState == {"live", "ended", "reended", "broken"}

WtSessionInfo ==
    [status : Status, reason : Reason, out : Seq(Capsule),
     bytes_sent : Nat, max_data_local : Nat, received_max_data : Nat,
     bytes_received : Nat, max_data_remote : Nat,
     streams_opened : [Dir -> Nat], max_streams_local : [Dir -> Nat],
     received_max_streams : [Dir -> Nat], max_streams_remote : [Dir -> Nat],
     streams_blocked_sent : SUBSET Dir, data_blocked_sent : BOOLEAN,
     ids : SUBSET StreamId, streams : [StreamId -> WtStreamInfo],
     received_max_stream_data_by_id : [StreamId -> Nat \cup {Absent}],
     received_stop_sending_stream_ids : SUBSET StreamId,
     sent_stop_sending_stream_ids : SUBSET StreamId,
     released_stream_ids : SUBSET StreamId,
     flushing : BOOLEAN,               \* inside flush_pending_sends
     seen : [StreamId -> SeenState]]   \* history: what the application was told

(* apply_peer_initial_flow_control.  An optional limit that was never      *)
(* received is 0 here: no value is smaller than it, as none is smaller     *)
(* than nullopt.                                                           *)
InitialSession(e) ==
    LET own == Config[e] peer == Config[Peer(e)] IN
    [status |-> "open", reason |-> "none", out |-> <<>>,
     bytes_sent |-> 0, max_data_local |-> peer.max_data,
     received_max_data |-> peer.max_data,
     bytes_received |-> 0, max_data_remote |-> own.max_data,
     streams_opened |-> [d \in Dir |-> 0],
     max_streams_local |-> peer.max_streams,
     received_max_streams |-> peer.max_streams,
     max_streams_remote |-> own.max_streams,
     streams_blocked_sent |-> {}, data_blocked_sent |-> FALSE,
     ids |-> {}, streams |-> [id \in StreamId |-> NoStream],
     received_max_stream_data_by_id |-> [id \in StreamId |-> Absent],
     received_stop_sending_stream_ids |-> {},
     sent_stop_sending_stream_ids |-> {}, released_stream_ids |-> {},
     flushing |-> FALSE, seen |-> [id \in StreamId |-> "live"]]

Init == /\ wt = [e \in End |-> InitialSession(e)]
        /\ calls = [e \in End |-> 0]

-----------------------------------------------------------------------------
(* Functions of the source every operation and handler is built from.      *)

send_capsule(s, type, id, val) ==
    [s EXCEPT !.out = Append(@, [type |-> type, id |-> id, len |-> 0, val |-> val,
                                 form |-> "ok", off |-> 0, at |-> s.bytes_sent])]

(* WT_CLOSE_SESSION, then nothing more: the end is terminated.             *)
close_session(s, why) ==
    [send_capsule(s, "WT_CLOSE_SESSION", 0, 0)
        EXCEPT !.status = "terminated", !.reason = why]

reset_stream_for_malformed_capsule(s) ==
    [s EXCEPT !.status = "terminated", !.reason = "malformed"]

initialize_stream_send_credit(s, e, id) ==
    Larger(Config[Peer(e)].max_stream_data, s.received_max_stream_data_by_id[id])

(* A new entry of streams, opened here or first heard of from the peer.    *)
new_stream(s, e, id) ==
    [s EXCEPT !.ids = @ \cup {id},
              !.streams[id] = [NoStream EXCEPT
                  !.max_stream_data_local = initialize_stream_send_credit(s, e, id),
                  !.max_stream_data_remote = Config[e].max_stream_data]]

raised_limit(received, initial) == Smaller(received + initial, kMaxQuicVarint)

(* Mutated form: a limit is raised only once it has been exceeded.         *)
maybe_send_max_data_Late(s, e) ==
    LET updated == raised_limit(s.bytes_received, Config[e].max_data)
    IN  IF s.bytes_received <= s.max_data_remote THEN s
        ELSE send_capsule([s EXCEPT !.max_data_remote = updated],
                          "WT_MAX_DATA", 0, updated)

maybe_send_max_data(s, e) ==
    LET initial == Config[e].max_data
        updated == raised_limit(s.bytes_received, initial)
    IN  IF \/ initial = 0
           \/ s.bytes_received <= s.max_data_remote \div 2
           \/ updated <= s.max_data_remote
        THEN s
        ELSE send_capsule([s EXCEPT !.max_data_remote = updated],
                          "WT_MAX_DATA", 0, updated)

(* Mutated form: the limit is raised for a stream asked to stop.           *)
maybe_send_max_stream_data_Stopped(s, e, id) ==
    LET info    == s.streams[id]
        updated == raised_limit(info.bytes_received, Config[e].max_stream_data)
    IN  IF \/ info.bytes_received <= info.max_stream_data_remote \div 2
           \/ updated <= info.max_stream_data_remote
        THEN s
        ELSE send_capsule([s EXCEPT !.streams[id].max_stream_data_remote = updated],
                          "WT_MAX_STREAM_DATA", id, updated)

maybe_send_max_stream_data(s, e, id) ==
    LET initial == Config[e].max_stream_data
        info    == s.streams[id]
        updated == raised_limit(info.bytes_received, initial)
    IN  IF \/ id \in s.sent_stop_sending_stream_ids
           \/ initial = 0
           \/ info.bytes_received <= info.max_stream_data_remote \div 2
           \/ updated <= info.max_stream_data_remote
        THEN s
        ELSE send_capsule([s EXCEPT !.streams[id].max_stream_data_remote = updated],
                          "WT_MAX_STREAM_DATA", id, updated)

releasable(s, e, id) ==
    LET send_done == s.streams[id].send_state \in SendDone
        recv_done == s.streams[id].recv_state \in RecvDone
    IN  /\ is_sendable_stream(e, id) => send_done
        /\ is_receivable_data_capsule(e, id) => recv_done

erase_stream(s, e, id) ==
    [s EXCEPT !.ids = @ \ {id},
              !.streams[id] = NoStream,
              !.released_stream_ids =
                  IF /\ is_receivable_data_capsule(e, id)
                     /\ Cardinality(@) < kMaxReceivedMapEntries
                  THEN @ \cup {id} ELSE @]

(* The peer gets back the place of a stream it had opened.                 *)
replenish_streams(s, e, id) ==
    LET d == DirOf(id)
        n == s.max_streams_remote[d] + 1
    IN  IF is_local(e, id) \/ n > kMaxStreamsLimit
        THEN s
        ELSE send_capsule([s EXCEPT !.max_streams_remote[d] = n],
                          IF d = "uni" THEN "WT_MAX_STREAMS_UNI"
                                       ELSE "WT_MAX_STREAMS_BIDI", 0, n)

maybe_release_stream(s, e, id) ==
    IF id \in s.ids /\ releasable(s, e, id)
    THEN replenish_streams(erase_stream(s, e, id), e, id)
    ELSE s

-----------------------------------------------------------------------------
(* Sending.                                                                *)

remaining(limit, used) == IF used <= limit THEN limit - used ELSE 0
session_avail(s, n) == Smaller(remaining(s.max_data_local, s.bytes_sent), n)
stream_avail(s, id, n) ==
    Smaller(remaining(s.streams[id].max_stream_data_local,
                      s.streams[id].bytes_sent), n)
sendable(s, id, n) == Smaller(session_avail(s, n), stream_avail(s, id, n))

(* The first n bytes of the send p; FIN goes with its last byte.           *)
send_stream_capsule(s, id, p, n) ==
    [s EXCEPT
        !.out = Append(@, [type |-> IF n = p.len /\ p.fin THEN "WT_STREAM_FIN"
                                                          ELSE "WT_STREAM",
                           id |-> id, len |-> n, val |-> 0, form |-> "ok",
                           off |-> p.off, at |-> s.bytes_sent]),
        !.bytes_sent = @ + n,
        !.streams[id].bytes_sent = @ + n]

rest_of_send(p, n) == [p EXCEPT !.off = @ + n, !.len = @ - n]

queue_send(s, id, p) ==
    [s EXCEPT !.streams[id].pending_sends = Append(@, p)]

(* Mutated form: the stream stays Ready after its FIN.                     *)
finish_sending_StaysReady(s, e, id) == maybe_release_stream(s, e, id)

finish_sending(s, e, id) ==
    maybe_release_stream([s EXCEPT !.streams[id].send_state = "DataSent"], e, id)

(* WT_DATA_BLOCKED and WT_STREAM_DATA_BLOCKED, once per limit.             *)
report_data_blocked(s, blocked) ==
    IF blocked /\ ~s.data_blocked_sent
    THEN [send_capsule(s, "WT_DATA_BLOCKED", 0, s.max_data_local)
             EXCEPT !.data_blocked_sent = TRUE]
    ELSE s

report_stream_data_blocked(s, id, blocked) ==
    IF blocked /\ ~s.streams[id].stream_data_blocked_sent
    THEN [send_capsule(s, "WT_STREAM_DATA_BLOCKED", id,
                       s.streams[id].max_stream_data_local)
             EXCEPT !.streams[id].stream_data_blocked_sent = TRUE]
    ELSE s

send_part(s, id, p) ==
    LET session == session_avail(s, p.len)
        stream  == stream_avail(s, id, p.len)
        n       == sendable(s, id, p.len)
        sent    == IF n > 0 THEN send_stream_capsule(s, id, p, n) ELSE s
    IN  queue_send(report_stream_data_blocked(
                       report_data_blocked(sent, session <= stream),
                       id, stream <= session),
                   id, rest_of_send(p, n))

send_all(s, e, id, p) ==
    LET sent == send_stream_capsule(s, id, p, p.len)
    IN  IF p.fin THEN finish_sending(sent, e, id) ELSE sent

(* Mutated form: a write that fits overtakes the queue.                    *)
send_stream_data_Overtakes(s, e, id, n, fin) ==
    LET p == [off |-> s.streams[id].written, len |-> n, fin |-> fin]
        t == [s EXCEPT !.streams[id].written = @ + n]
    IN  IF sendable(s, id, n) < n THEN send_part(t, id, p)
        ELSE send_all(t, e, id, p)

send_stream_data(s, e, id, n, fin) ==
    LET p == [off |-> s.streams[id].written, len |-> n, fin |-> fin]
        t == [s EXCEPT !.streams[id].written = @ + n]
    IN  IF s.streams[id].pending_sends # <<>> THEN queue_send(t, id, p)
        ELSE IF sendable(s, id, n) < n THEN send_part(t, id, p)
        ELSE send_all(t, e, id, p)

(* Mutated form: the queue survives the reset.                             *)
reset_stream_KeepsQueue(s, e, id) ==
    maybe_release_stream(
        [send_capsule(s, "WT_RESET_STREAM", id, s.streams[id].bytes_sent)
            EXCEPT !.streams[id].send_state = "ResetSent"],
        e, id)

reset_stream(s, e, id) ==
    maybe_release_stream(
        [send_capsule(s, "WT_RESET_STREAM", id, s.streams[id].bytes_sent)
            EXCEPT !.streams[id].send_state = "ResetSent",
                   !.streams[id].pending_sends = <<>>],
        e, id)

stop_sending(s, id) ==
    send_capsule([s EXCEPT !.sent_stop_sending_stream_ids = @ \cup {id}],
                 "WT_STOP_SENDING", id, 0)

(* One capsule of flush_pending_sends: from the head of a stream's queue.  *)
flush_one(s, e, id) ==
    LET p    == Head(s.streams[id].pending_sends)
        n    == sendable(s, id, p.len)
        sent == send_stream_capsule(s, id, p, n)
        popped == [sent EXCEPT !.streams[id].pending_sends = Tail(@)]
    IN  IF n < p.len
        THEN [sent EXCEPT !.streams[id].pending_sends[1] = rest_of_send(p, n)]
        ELSE IF p.fin THEN finish_sending(popped, e, id) ELSE popped

(* Its last pass drops the queues of streams that no longer send.          *)
flush_returns(s) ==
    [s EXCEPT !.flushing = FALSE,
              !.streams = [id \in StreamId |->
                  IF @[id].send_state \in SendDone
                  THEN [@[id] EXCEPT !.pending_sends = <<>>] ELSE @[id]]]

Flushable(s) ==
    {id \in s.ids : /\ s.streams[id].send_state \notin SendDone
                    /\ s.streams[id].pending_sends # <<>>
                    /\ sendable(s, id, Head(s.streams[id].pending_sends).len) > 0}

-----------------------------------------------------------------------------
(* Receiving.  The early returns of a handler are a verdict on the         *)
(* capsule: "accept", "ignore", or the reason the session is closed.       *)

(* Mutated form: the index of the stream is compared, not the count.       *)
incoming_stream_exceeds_limit_OffByOne(s, id) ==
    (id \div 4) > s.max_streams_remote[DirOf(id)]

incoming_stream_exceeds_limit(s, id) ==
    (id \div 4) + 1 > s.max_streams_remote[DirOf(id)]

has_received_stop_sending(s, id) ==
    \/ id \in s.received_stop_sending_stream_ids
    \/ id \in s.ids /\ s.streams[id].stop_sending_received

recv_finished(s, id) == id \in s.ids /\ s.streams[id].recv_state \in RecvDone

(* Mutated form: the stream limit is not looked at.                        *)
wt_stream_verdict_NoStreamLimit(s, e, c) ==
    IF ~is_receivable_data_capsule(e, c.id) THEN "stream_state"
    ELSE IF c.id \notin s.ids /\ incoming_stream_exceeds_limit(s, c.id)
         THEN "flow_control"
    ELSE IF s.bytes_received + c.len > s.max_data_remote THEN "flow_control"
    ELSE "accept"

(* Mutated form: a finished stream is not recognised.                      *)
wt_stream_verdict_NoState(s, e, c) ==
    IF \/ ~is_receivable_data_capsule(e, c.id)
       \/ c.id \in s.released_stream_ids THEN "stream_state"
    ELSE IF c.id \notin s.ids /\ incoming_stream_exceeds_limit(s, c.id)
         THEN "flow_control"
    ELSE IF s.bytes_received + c.len > s.max_data_remote THEN "flow_control"
    ELSE "accept"

wt_stream_verdict(s, e, c) ==
    LET info == IF c.id \in s.ids THEN s.streams[c.id]
                                  ELSE new_stream(s, e, c.id).streams[c.id]
    IN  IF ~is_receivable_data_capsule(e, c.id) THEN "stream_state"
        ELSE IF c.id \notin s.ids /\ c.id \in s.released_stream_ids
             THEN IF c.len = 0 THEN "ignore" ELSE "stream_state"
        ELSE IF c.id \notin s.ids /\ incoming_stream_exceeds_limit(s, c.id)
             THEN "flow_control"
        ELSE IF c.len > 0 /\ info.recv_state \in RecvDone THEN "stream_state"
        ELSE IF \/ s.bytes_received + c.len > s.max_data_remote
                \/ info.bytes_received + c.len > info.max_stream_data_remote
             THEN "flow_control"
        ELSE "accept"

wt_reset_stream_verdict(s, e, c) ==
    IF c.form = "range" THEN "wt_error"
    ELSE IF ~is_receivable_data_capsule(e, c.id) THEN "stream_state"
    ELSE IF c.id \notin s.ids
         THEN IF c.id \in s.released_stream_ids \/ c.val > 0 THEN "stream_state"
              ELSE IF incoming_stream_exceeds_limit(s, c.id) THEN "flow_control"
              ELSE "accept"
    ELSE IF \/ s.streams[c.id].recv_state \in RecvDone
            \/ c.val # s.streams[c.id].bytes_received THEN "stream_state"
    ELSE "accept"

wt_stop_sending_verdict(s, e, c) ==
    IF c.form = "range" THEN "wt_error"
    ELSE IF \/ ~is_receivable_flow_capsule(e, c.id)
            \/ has_received_stop_sending(s, c.id) THEN "stream_state"
    ELSE "accept"

(* The limit a WT_MAX_STREAM_DATA may not go below.                        *)
previous_max_stream_data(s, e, id) ==
    IF s.received_max_stream_data_by_id[id] # Absent
    THEN s.received_max_stream_data_by_id[id]
    ELSE IF id \in s.ids THEN s.streams[id].max_stream_data_local
    ELSE Config[Peer(e)].max_stream_data

wt_max_stream_data_verdict(s, e, c) ==
    IF \/ ~is_receivable_flow_capsule(e, c.id)
       \/ has_received_stop_sending(s, c.id) THEN "stream_state"
    ELSE IF c.val < previous_max_stream_data(s, e, c.id) THEN "flow_control"
    ELSE "accept"

dir_of_capsule(c) ==
    IF c.type \in {"WT_MAX_STREAMS_UNI", "WT_STREAMS_BLOCKED_UNI"} THEN "uni"
                                                                 ELSE "bidi"

wt_max_streams_verdict(s, c) ==
    IF \/ c.val > kMaxStreamsLimit
       \/ c.val < s.received_max_streams[dir_of_capsule(c)] THEN "flow_control"
    ELSE "accept"

wt_stream_data_blocked_verdict(s, e, c) ==
    IF \/ ~is_receivable_data_capsule(e, c.id)
       \/ recv_finished(s, c.id)
       \/ c.id \in s.released_stream_ids THEN "stream_state"
    ELSE "ignore"

capsule_verdict(s, e, c) ==
    CASE c.type \in StreamCapsules -> wt_stream_verdict(s, e, c)
      [] c.type = "WT_RESET_STREAM" -> wt_reset_stream_verdict(s, e, c)
      [] c.type = "WT_STOP_SENDING" -> wt_stop_sending_verdict(s, e, c)
      [] c.type = "WT_MAX_DATA" ->
           IF c.val < s.received_max_data THEN "flow_control" ELSE "accept"
      [] c.type = "WT_MAX_STREAM_DATA" -> wt_max_stream_data_verdict(s, e, c)
      [] c.type \in MaxStreamsCapsules -> wt_max_streams_verdict(s, c)
      [] c.type = "WT_STREAM_DATA_BLOCKED" -> wt_stream_data_blocked_verdict(s, e, c)
      [] c.type \in StreamsBlockedCapsules ->
           IF c.val > kMaxStreamsLimit THEN "flow_control" ELSE "ignore"
      [] c.type = "WT_DATA_BLOCKED" -> "ignore"
      [] c.type = "WT_CLOSE_SESSION" ->
           IF c.form = "range" THEN "wt_error" ELSE "accept"

(* Mutated form: a terminated session still processes capsules.            *)
process_capsule_WhenClosed(s, e, c) ==
    IF c.form = "malformed" THEN "malformed" ELSE capsule_verdict(s, e, c)

(* A terminated or erased session drops whatever still arrives.            *)
process_capsule(s, e, c) ==
    IF s.status # "open" THEN "ignore"
    ELSE IF c.form = "malformed" THEN "malformed"
    ELSE capsule_verdict(s, e, c)

(* What the application has been told of a stream: a StreamData event with *)
(* n bytes, or the end (FIN or StreamReset).                               *)
push_event(s, id, n, reset, fin) ==
    [s EXCEPT !.seen[id] =
        IF @ = "live" THEN (IF fin \/ reset THEN "ended" ELSE "live")
        ELSE IF n > 0 \/ reset THEN "broken"
        ELSE IF fin /\ @ = "ended" THEN "reended" ELSE @]

handle_wt_stream(s, e, c) ==
    LET fin   == c.type = "WT_STREAM_FIN"
        known == IF c.id \in s.ids THEN s ELSE new_stream(s, e, c.id)
        told  == push_event(known, c.id, c.len, FALSE, fin)
        count == [told EXCEPT !.bytes_received = @ + c.len,
                              !.streams[c.id].bytes_received = @ + c.len]
        grant == maybe_send_max_stream_data(maybe_send_max_data(count, e), e, c.id)
    IN  IF fin
        THEN maybe_release_stream(
                 [grant EXCEPT !.streams[c.id].recv_state = "DataRecvd"], e, c.id)
        ELSE grant

handle_wt_reset_stream(s, e, c) ==
    LET known == IF c.id \in s.ids THEN s ELSE new_stream(s, e, c.id)
        told  == push_event(known, c.id, 0, TRUE, FALSE)
    IN  maybe_release_stream(
            [told EXCEPT !.streams[c.id].recv_state = "ResetRecvd"], e, c.id)

handle_wt_stop_sending(s, e, c) ==
    LET noted  == [s EXCEPT !.received_stop_sending_stream_ids =
                      IF Cardinality(@) < kMaxReceivedMapEntries
                      THEN @ \cup {c.id} ELSE @]
        marked == [noted EXCEPT !.streams[c.id].stop_sending_received = TRUE]
    IN  IF c.id \notin s.ids THEN noted
        ELSE IF s.streams[c.id].send_state \in SendDone THEN marked
        ELSE reset_stream(marked, e, c.id)

handle_wt_max_data(s, c) ==
    LET noted == [s EXCEPT !.received_max_data = c.val]
    IN  IF c.val > s.max_data_local
        THEN [noted EXCEPT !.max_data_local = c.val, !.data_blocked_sent = FALSE,
                           !.flushing = TRUE]
        ELSE noted

received_ids(s) ==
    {id \in StreamId : s.received_max_stream_data_by_id[id] # Absent}

handle_wt_max_stream_data(s, c) ==
    LET kept == IF \/ c.id \in received_ids(s)
                   \/ Cardinality(received_ids(s)) < kMaxReceivedMapEntries
                THEN [s EXCEPT !.received_max_stream_data_by_id[c.id] = c.val]
                ELSE s
    IN  IF c.id \in s.ids /\ c.val > s.streams[c.id].max_stream_data_local
        THEN [kept EXCEPT !.streams[c.id].max_stream_data_local = c.val,
                          !.streams[c.id].stream_data_blocked_sent = FALSE,
                          !.flushing = TRUE]
        ELSE kept

handle_wt_max_streams(s, c) ==
    LET d     == dir_of_capsule(c)
        noted == [s EXCEPT !.received_max_streams[d] = c.val]
    IN  IF c.val > s.max_streams_local[d]
        THEN [noted EXCEPT !.max_streams_local[d] = c.val,
                           !.streams_blocked_sent = @ \ {d}]
        ELSE noted

(* The peer has closed: the entry and everything still queued are dropped. *)
handle_wt_close_session(s) == [s EXCEPT !.status = "erased", !.out = <<>>]

-----------------------------------------------------------------------------
(* Actions: calls of the application.  A call the code answers with an     *)
(* early return that changes nothing is not a step.                        *)

Callable(e) == /\ e \in Impl
               /\ wt[e].status = "open"
               /\ ~wt[e].flushing
               /\ calls[e] < MaxCalls[e]

Call(e, s) == /\ wt' = [wt EXCEPT ![e] = s]
              /\ calls' = [calls EXCEPT ![e] = @ + 1]

(* The history of what was told about the id begins with the stream: an id *)
(* of its own that a foreign peer used, ended and saw released before is   *)
(* not refused here, and what was told about it then is not judged.        *)
OpenStream(e, d) ==
    LET s  == wt[e]
        id == build_stream_id(e, d, s.streams_opened[d])
    IN  /\ Callable(e)
        /\ s.streams_opened[d] < s.max_streams_local[d]
        /\ s.streams_opened[d] < MaxStreamCount
        /\ id \notin s.ids
        /\ Call(e, [new_stream(s, e, id) EXCEPT !.streams_opened[d] = @ + 1,
                                                !.seen[id] = "live"])

OpenStreamBlocked(e, d) ==
    LET s == wt[e]
    IN  /\ Callable(e)
        /\ s.streams_opened[d] >= s.max_streams_local[d]
        /\ d \notin s.streams_blocked_sent
        /\ Call(e, [send_capsule(s, IF d = "uni" THEN "WT_STREAMS_BLOCKED_UNI"
                                                 ELSE "WT_STREAMS_BLOCKED_BIDI",
                                 0, s.max_streams_local[d])
                       EXCEPT !.streams_blocked_sent = @ \cup {d}])

SendStreamData(e, id, n, fin) ==
    LET info == wt[e].streams[id]
        pending == info.pending_sends
    IN  /\ Callable(e)
        /\ id \in wt[e].ids
        /\ is_sendable_stream(e, id)
        /\ info.send_state \notin SendDone
        /\ pending # <<>> => ~pending[Len(pending)].fin
        /\ Call(e, send_stream_data(wt[e], e, id, n, fin))

ResetStream(e, id) ==
    /\ Callable(e)
    /\ id \in wt[e].ids
    /\ wt[e].streams[id].send_state \notin SendDone
    /\ Disciplined => is_sendable_stream(e, id)
    /\ Call(e, reset_stream(wt[e], e, id))

StopSending(e, id) ==
    /\ Callable(e)
    /\ id \in wt[e].ids
    /\ id \notin wt[e].sent_stop_sending_stream_ids
    /\ Disciplined => is_receivable_data_capsule(e, id)
    /\ Call(e, stop_sending(wt[e], id))

CloseSession(e) ==
    /\ Callable(e)
    /\ Call(e, close_session(wt[e], "app"))

-----------------------------------------------------------------------------
(* Actions: the capsules that arrive.                                      *)

Arriving(e) == Head(wt[Peer(e)].out)

Arrives(e, verdicts) ==
    /\ e \in Impl
    /\ wt[Peer(e)].out # <<>>
    /\ ~wt[e].flushing
    /\ process_capsule(wt[e], e, Arriving(e)) \in verdicts

Accepts(e, types) == Arrives(e, {"accept"}) /\ Arriving(e).type \in types

Receive(e, s) == /\ wt' = [wt EXCEPT ![Peer(e)].out = Tail(@), ![e] = s]
                 /\ UNCHANGED calls

HandleWtStream(e) ==
    /\ Accepts(e, StreamCapsules)
    /\ Receive(e, handle_wt_stream(wt[e], e, Arriving(e)))

HandleWtResetStream(e) ==
    /\ Accepts(e, {"WT_RESET_STREAM"})
    /\ Receive(e, handle_wt_reset_stream(wt[e], e, Arriving(e)))

HandleWtStopSending(e) ==
    /\ Accepts(e, {"WT_STOP_SENDING"})
    /\ Receive(e, handle_wt_stop_sending(wt[e], e, Arriving(e)))

HandleWtMaxData(e) ==
    /\ Accepts(e, {"WT_MAX_DATA"})
    /\ Receive(e, handle_wt_max_data(wt[e], Arriving(e)))

HandleWtMaxStreamData(e) ==
    /\ Accepts(e, {"WT_MAX_STREAM_DATA"})
    /\ Receive(e, handle_wt_max_stream_data(wt[e], Arriving(e)))

HandleWtMaxStreams(e) ==
    /\ Accepts(e, MaxStreamsCapsules)
    /\ Receive(e, handle_wt_max_streams(wt[e], Arriving(e)))

HandleWtCloseSession(e) ==
    /\ Accepts(e, {"WT_CLOSE_SESSION"})
    /\ Receive(e, handle_wt_close_session(wt[e]))

(* The BLOCKED capsules, what the handlers tolerate, what comes too late.  *)
IgnoreCapsule(e) ==
    /\ Arrives(e, {"ignore"})
    /\ Receive(e, wt[e])

RefuseMalformed(e) ==
    /\ Arrives(e, {"malformed"})
    /\ Receive(e, reset_stream_for_malformed_capsule(wt[e]))

(* report_stream_state_error, report_flow_control_error,                   *)
(* report_recv_flow_control_error and report_wt_error.                     *)
RefuseCapsule(e) ==
    /\ Arrives(e, {"stream_state", "flow_control", "wt_error"})
    /\ Receive(e, close_session(wt[e], process_capsule(wt[e], e, Arriving(e))))

(* flush_pending_sends runs inside the handlers of WT_MAX_DATA and         *)
(* WT_MAX_STREAM_DATA: while flushing, e takes no other step.  The code    *)
(* walks the streams in ascending order until nothing moves; a stream it   *)
(* has passed cannot become flushable again, so the next capsule is always *)
(* of the lowest flushable stream.                                         *)
FlushPendingSends(e) ==
    LET s == wt[e]
    IN  /\ e \in Impl
        /\ s.flushing
        /\ \E id \in Flushable(s) :
              /\ \A other \in Flushable(s) : id <= other
              /\ wt' = [wt EXCEPT ![e] = flush_one(s, e, id)]
        /\ UNCHANGED calls

FlushReturns(e) ==
    /\ e \in Impl
    /\ wt[e].flushing
    /\ Flushable(wt[e]) = {}
    /\ wt' = [wt EXCEPT ![e] = flush_returns(wt[e])]
    /\ UNCHANGED calls

-----------------------------------------------------------------------------
(* Actions: a peer about which nothing is assumed.                         *)

Untrusted(types, ids, lens, vals, forms) ==
    [type : types, id : ids, len : lens, val : vals, form : forms,
     off : {0}, at : {0}]

PeerCapsules ==
    Untrusted(StreamCapsules, PeerIds, PeerLens, {0}, {"ok"})
    \cup Untrusted({"WT_RESET_STREAM"}, PeerIds, {0}, PeerVals, {"ok", "range"})
    \cup Untrusted({"WT_STOP_SENDING"}, PeerIds, {0}, {0}, {"ok", "range"})
    \cup Untrusted({"WT_MAX_STREAM_DATA"}, PeerIds, {0}, PeerVals, {"ok"})
    \cup Untrusted({"WT_STREAM_DATA_BLOCKED"}, PeerIds, {0}, {0}, {"ok"})
    \cup Untrusted({"WT_MAX_DATA", "WT_DATA_BLOCKED"} \cup MaxStreamsCapsules
                       \cup StreamsBlockedCapsules, {0}, {0}, PeerVals, {"ok"})
    \cup Untrusted({"WT_CLOSE_SESSION"}, {0}, {0}, {0}, Form)

(* It reads whatever was sent to it and sends any capsule at all.          *)
PeerSends(p, c) ==
    /\ p \in End \ Impl
    /\ calls[p] < MaxCalls[p]
    /\ wt[p].out = <<>>
    /\ wt' = [wt EXCEPT ![p].out = <<c>>, ![Peer(p)].out = <<>>]
    /\ calls' = [calls EXCEPT ![p] = @ + 1]

-----------------------------------------------------------------------------
ProcessCapsule(e) ==
    \/ HandleWtStream(e)
    \/ HandleWtResetStream(e)
    \/ HandleWtStopSending(e)
    \/ HandleWtMaxData(e)
    \/ HandleWtMaxStreamData(e)
    \/ HandleWtMaxStreams(e)
    \/ HandleWtCloseSession(e)
    \/ IgnoreCapsule(e)
    \/ RefuseMalformed(e)
    \/ RefuseCapsule(e)

Flush(e) == FlushPendingSends(e) \/ FlushReturns(e)

ApplicationCall(e) ==
    \/ \E d \in Dir : OpenStream(e, d) \/ OpenStreamBlocked(e, d)
    \/ \E id \in StreamId, n \in WriteSizes, fin \in BOOLEAN :
          SendStreamData(e, id, n, fin)
    \/ \E id \in StreamId : ResetStream(e, id) \/ StopSending(e, id)
    \/ CloseSession(e)

Next == \E e \in End :
            \/ ProcessCapsule(e)
            \/ Flush(e)
            \/ ApplicationCall(e)
            \/ \E c \in PeerCapsules : PeerSends(e, c)

(* What arrives is processed: receive() is called for every read of the    *)
(* transport, and it neither returns in the middle of a handler nor leaves *)
(* a complete capsule in the buffer.  No end is preferred, only that one   *)
(* of those with work goes on, and nothing is assumed of applications.     *)
Fairness == WF_vars(\E e \in End : ProcessCapsule(e) \/ Flush(e))

Spec == Init /\ [][Next]_vars
FairSpec == Spec /\ Fairness

-----------------------------------------------------------------------------
(* Properties.                                                             *)

(* The fields of both sessions keep their types.                           *)
TypeOK == /\ wt \in [End -> WtSessionInfo]
          /\ calls \in [End -> Nat]

(* Whatever the peer sends and in whatever order, an end running this code *)
(* never sends beyond a limit it was given and never accepts data beyond a *)
(* limit it advertised, for the session and for every stream               *)
(* (send_stream_data, flush_pending_sends, handle_wt_stream).              *)
CreditRespected ==
    \A e \in Impl :
        /\ wt[e].bytes_sent <= wt[e].max_data_local
        /\ wt[e].bytes_received <= wt[e].max_data_remote
        /\ \A id \in wt[e].ids :
              LET info == wt[e].streams[id]
              IN  /\ info.bytes_sent <= info.max_stream_data_local
                  /\ info.bytes_received <= info.max_stream_data_remote

(* Two ends of this implementation never close the session on each other:  *)
(* no interleaving of writes, resets, stop requests, stream releases and   *)
(* limit updates in flight makes either one report a stream state, flow    *)
(* control, capsule or malformed-payload error.                            *)
NoPeerError == Impl = End => \A e \in End : wt[e].reason \in {"none", "app"}

(* The bytes of a stream are processed exactly in the order they were      *)
(* written, with none missing, although writes go out directly, in part,   *)
(* or from pending_sends when a limit moves.                               *)
InOrder ==
    \A e \in Impl :
        (Peer(e) \in Impl /\ wt[Peer(e)].out # <<>> /\ wt[e].status = "open") =>
            LET c == Arriving(e)
            IN  c.type \in StreamCapsules =>
                    c.off = wt[e].streams[c.id].bytes_received

(* The application is told of the end of a stream at most once: after a    *)
(* FIN or a StreamReset no further event of that stream.                   *)
EndsOnce ==
    \A e \in Impl, id \in StreamId : wt[e].seen[id] \in {"live", "ended"}

(* Against any peer, and while the set of released ids is not full, no     *)
(* byte and no reset is reported for a stream after its end was; a stream  *)
(* the application opens begins anew (OpenStream).                         *)
NoBytesAfterEnd ==
    \A e \in Impl :
        Cardinality(wt[e].released_stream_ids) < kMaxReceivedMapEntries =>
            \A id \in StreamId : wt[e].seen[id] # "broken"

(* What waits in pending_sends belongs to a stream that may still send,    *)
(* nothing waits behind a FIN, and together with bytes_sent the queue      *)
(* accounts for every byte the application wrote, in order.                *)
PendingAccounted ==
    \A e \in Impl : \A id \in wt[e].ids :
        LET info == wt[e].streams[id]
            q    == info.pending_sends
        IN  q # <<>> =>
              /\ info.send_state = "Ready"
              /\ q[1].off = info.bytes_sent
              /\ \A i \in 1 .. Len(q) :
                    q[i].off + q[i].len =
                        IF i < Len(q) THEN q[i + 1].off ELSE info.written
              /\ \A i \in 1 .. Len(q) - 1 : ~q[i].fin

(* An end never holds more live streams of the peer than it first allowed: *)
(* each WT_MAX_STREAMS gives back the place of a stream really released.   *)
(* It holds while the set of released ids is not full.                     *)
LiveStreamsBounded ==
    \A e \in Impl, d \in Dir :
        Cardinality(wt[e].released_stream_ids) < kMaxReceivedMapEntries =>
            Cardinality({id \in wt[e].ids : DirOf(id) = d /\ ~is_local(e, id)})
                <= Config[e].max_streams[d]

(* Nothing follows WT_CLOSE_SESSION: an end that has closed or whose entry *)
(* is gone queues no further capsule, whatever arrives.                    *)
SilentAfterClose ==
    [][\A e \in Impl : wt[e].status # "open" =>
           Len(wt'[e].out) <= Len(wt[e].out)]_vars

(* Nothing of a stream waits, or what waits has a reason that is not flow  *)
(* control: an empty write at the head of the queue, which                 *)
(* flush_pending_sends never sends (issues/0260), the end of the session,  *)
(* or WT_STOP_SENDING from the peer.                                       *)
Drained(e, id) ==
    LET q == wt[e].streams[id].pending_sends
    IN  \/ q = <<>>
        \/ Head(q).len = 0
        \/ \E o \in End : wt[o].status # "open"
        \/ id \in wt[Peer(e)].sent_stop_sending_stream_ids

(* A write held back by flow control is sent in the end: again and again   *)
(* pending_sends of every stream drains, at both ends at once, because     *)
(* every exhausted limit is raised by the receiver.                        *)
PendingDrains == []<>(\A e \in End, id \in StreamId : Drained(e, id))

=============================================================================
