----------------------------- MODULE H3Session -----------------------------
(***************************************************************************)
(* The server end of a WebTransport over HTTP/3 connection, class          *)
(* H3Session of src/bindings/webtransport_h3.cpp: the requests that open   *)
(* sessions, the data streams and datagrams that belong to them, what is   *)
(* held back or counted until a session is accepted, and how sessions end. *)
(*                                                                         *)
(* Streams deliver their bytes in order and in chunks of any size; chunks  *)
(* of different streams arrive in any order.  A CONNECT stream carries     *)
(*   P K F  the HEADERS frame: P does not complete the frame header, K     *)
(*          does and begins the field section, F ends it;                  *)
(*   DATA   a DATA frame without a capsule that matters here,              *)
(*   CLOSE  WT_CLOSE_SESSION,  BAD  one with a malformed message;          *)
(* a data stream carries P W, its WebTransport header, and then D's.       *)
(*                                                                         *)
(* h is the H3Session; the fields under "nghttp3" are the state of the     *)
(* library, modelled from how the code uses it.                            *)
(***************************************************************************)
EXTENDS Integers, Sequences, FiniteSets, SequencesExt

CONSTANTS
    Sessions,       \* ids of CONNECT streams
    Bidi, Uni,      \* ids of the client's data streams
    Local,          \* ids of streams the server may open
    SessionOf,      \* SessionOf[d]: the session a data stream names
    Contents,       \* what the streams may carry: functions from Arriving,
                    \* an empty sequence for a stream that is not used
    PreAcceptLimit, \* wt_pre_accept_buffer_limit, in D's
    MaxDatagrams    \* bound: datagrams of a session that arrive

Remote == Bidi \cup Uni
Streams == Remote \cup Local
Arriving == Sessions \cup Remote
HeadersLen == 3                        \* P K F

Item == {"P", "K", "F", "W", "D", "DATA", "CLOSE", "BAD"}

ASSUME SessionAssumption ==
    /\ IsFiniteSet(Sessions) /\ IsFiniteSet(Remote)
    /\ SessionOf \in [Streams -> Sessions]
    /\ Sessions \cap Streams = {} /\ Bidi \cap Uni = {} /\ Remote \cap Local = {}
    /\ Contents \subseteq [Arriving -> Seq(Item)]
    /\ PreAcceptLimit \in Nat /\ MaxDatagrams \in Nat

(* A stream carries what is listed above, cut off anywhere.                *)
IsRequest(q) == \A i \in DOMAIN q : /\ q[i] = "P" <=> i = 1
                                    /\ q[i] = "K" <=> i = 2
                                    /\ q[i] = "F" <=> i = 3
                                    /\ q[i] \notin {"W", "D"}

IsData(q) == \A i \in DOMAIN q : q[i] = IF i = 1 THEN "P" ELSE IF i = 2 THEN "W" ELSE "D"

ASSUME ContentsAssumption ==
    \A t \in Contents : /\ \A c \in Sessions : IsRequest(t[c])
                        /\ \A d \in Remote : IsData(t[d])

VARIABLES
    h,          \* the H3Session
    content,    \* content[x]: all that stream x carries
    wanted,     \* requests that are WebTransport requests with a good origin
    dynamic,    \* requests whose field section needs the dynamic table
    table,      \* has the encoder stream brought the table's entries
    pos,        \* pos[x]: items of x received
    finned,     \* streams whose FIN has been received
    aborted,    \* streams the client has reset
    datagrams   \* datagrams[c]: received for session c (bound)

vars == <<h, content, wanted, dynamic, table, pos, finned, aborted, datagrams>>
Fixed == UNCHANGED <<content, wanted, dynamic>>

Guard == [prefix : Seq(Item), header_parsed : BOOLEAN, is_headers : BOOLEAN,
          forwarded : 0 .. HeadersLen, held : Seq(Item), held_fin : BOOLEAN]

NoGuard == [prefix |-> <<>>, header_parsed |-> FALSE, is_headers |-> FALSE,
            forwarded |-> 0, held |-> <<>>, held_fin |-> FALSE]

Why == {"none", "fin", "capsule", "bad", "reset", "app"}

Record ==
    [session_ids : SUBSET Sessions, accepted : SUBSET Sessions,
     pending_headers : SUBSET Sessions,
     pending_fin : SUBSET Sessions,        \* FIN reported by end_stream_cb
     pre_accept_fin : SUBSET Sessions,     \* FIN received before acceptance
     fin_accepted : SUBSET Sessions,       \* ... of a session accepted since
     qpack_blocked_fin : SUBSET Sessions,  \* ... with its headers blocked
     stale_2xx : SUBSET Sessions,
     guard : [Arriving -> Guard],
     buffered : [Remote -> Nat],           \* pre_accept_buffered_bytes_
     rejected : SUBSET Remote,
     stream_info : SUBSET Streams,
     closed : BOOLEAN,
     \* nghttp3
     state : [Sessions -> {"none", "open", "gone"}],
     read : [Sessions -> 0 .. HeadersLen], \* items of the HEADERS frame read
     blocked : SUBSET Sessions,            \* field sections that wait
     mixed : BOOLEAN,                      \* other bytes queued behind one
     response : [Sessions -> {"none", "ok", "refused"}],
     written : SUBSET Sessions,            \* responses handed to QUIC
     confirmed : SUBSET Sessions, ended : SUBSET Sessions,
     capsules : [Sessions -> Seq(Item)],   \* kept until confirmed
     named : SUBSET Remote,                \* WebTransport header read
     kept : [Remote -> Nat],               \* D's kept until confirmed
     deleted : SUBSET Remote,
     error : {"none", "message", "connection"},   \* of the current call
     \* history
     ready : [Sessions -> Nat], over : [Sessions -> Nat], why : [Sessions -> Why],
     out_of_place : BOOLEAN,      \* an event came where it has no place
     got : [Remote -> Nat]]       \* D's reported to the application

Blank ==
    [session_ids |-> {}, accepted |-> {}, pending_headers |-> {},
     pending_fin |-> {}, pre_accept_fin |-> {}, fin_accepted |-> {},
     qpack_blocked_fin |-> {}, stale_2xx |-> {},
     guard |-> [x \in Arriving |-> NoGuard],
     buffered |-> [d \in Remote |-> 0], rejected |-> {}, stream_info |-> {},
     closed |-> FALSE,
     state |-> [c \in Sessions |-> "none"], read |-> [c \in Sessions |-> 0],
     blocked |-> {}, mixed |-> FALSE,
     response |-> [c \in Sessions |-> "none"], written |-> {},
     confirmed |-> {}, ended |-> {}, capsules |-> [c \in Sessions |-> <<>>],
     named |-> {}, kept |-> [d \in Remote |-> 0], deleted |-> {},
     error |-> "none",
     ready |-> [c \in Sessions |-> 0], over |-> [c \in Sessions |-> 0],
     why |-> [c \in Sessions |-> "none"], out_of_place |-> FALSE,
     got |-> [d \in Remote |-> 0]]

Init ==
    /\ h = Blank
    /\ content \in Contents
    /\ wanted \in SUBSET {c \in Sessions : content[c] # <<>>}
    /\ dynamic \in SUBSET {c \in Sessions : content[c] # <<>>}
    /\ table = FALSE
    /\ pos = [x \in Arriving |-> 0]
    /\ finned = {} /\ aborted = {}
    /\ datagrams = [c \in Sessions |-> 0]

-----------------------------------------------------------------------------
(* Functions of the source, as transformers of the H3Session record.       *)

StreamsOf(c) == {d \in Streams : SessionOf[d] = c}

push_event(s, c) ==
    [s EXCEPT !.out_of_place = @ \/ s.ready[c] = 0 \/ s.over[c] > 0
                                 \/ s.response[c] = "refused"]
push_ready(s, c) == [s EXCEPT !.ready[c] = @ + 1,
                              !.out_of_place = @ \/ s.over[c] > 0]
push_over(s, c, y) == [push_event(s, c) EXCEPT !.over[c] = @ + 1, !.why[c] = y]

(* ResetStream of a CONNECT stream has its place behind the SessionClosed  *)
(* of a malformed WT_CLOSE_SESSION, StopSending for a stream in a session  *)
(* of which nothing is reported yet.                                       *)
push_reset(s, c) ==
    [s EXCEPT !.out_of_place = @ \/ s.over[c] # 1 \/ s.why[c] # "bad"]
push_stop(s, d) == [s EXCEPT !.out_of_place = @ \/ SessionOf[d] \in s.confirmed]

is_active_session(s, c) ==
    c \in s.session_ids \ (s.pre_accept_fin \cup s.fin_accepted)

forget_pre_accept_stream(s, d) == [s EXCEPT !.buffered[d] = 0]

forget_pre_accept_session(s, c) ==
    [s EXCEPT !.buffered = [d \in Remote |-> IF SessionOf[d] = c THEN 0 ELSE @[d]]]

erase_session_streams(s, c) == [s EXCEPT !.stream_info = @ \ StreamsOf(c)]

(* What every end of a session does.                                       *)
forget_session(s, c) ==
    forget_pre_accept_session(
        [erase_session_streams(s, c) EXCEPT !.session_ids = @ \ {c},
                                            !.accepted = @ \ {c}], c)

(* nghttp3_conn_close_stream: the stream and all queued on it are gone,    *)
(* and with a session's CONNECT stream what its data streams have kept.    *)
delete_stream(s, x) ==
    IF x \in Sessions /\ s.state[x] = "open"
    THEN [s EXCEPT !.state[x] = "gone", !.blocked = @ \ {x}, !.capsules[x] = <<>>,
                   !.kept = [d \in Remote |->
                                IF SessionOf[d] = x /\ s.ready[x] > 0 THEN 0 ELSE @[d]]]
    ELSE IF x \in s.named
    THEN forget_pre_accept_stream(
             [s EXCEPT !.deleted = @ \cup {x}, !.kept[x] = 0], x)
    ELSE s

close_stream(s, x, y) ==
    LET t == delete_stream(
                 [s EXCEPT !.qpack_blocked_fin = @ \ {x},
                           !.guard = [z \in Arriving |-> IF z = x THEN NoGuard ELSE @[z]],
                           !.pending_headers = @ \ {x}], x)
    IN  IF x \in s.session_ids
        THEN push_over(forget_session(t, x), x, y)
        ELSE [t EXCEPT !.stream_info = @ \ {x}]

(* discard_stale_2xx: what is queued on the CONNECT stream goes with it.   *)
discard_stale_2xx(s) ==
    LET discard(c, t) == close_stream([t EXCEPT !.fin_accepted = @ \ {c}], c, "capsule")
    IN  [FoldSet(discard, s, s.stale_2xx) EXCEPT !.stale_2xx = {}]

handle_wt_close_session_error(s, c) ==
    IF c \in s.session_ids THEN push_reset(close_stream(s, c, "bad"), c) ELSE s

recv_wt_close_session_cb(s, c, accepting) ==
    push_over([forget_session(s, c) EXCEPT
                  !.stale_2xx = IF c \in s.fin_accepted \/ accepting
                                THEN @ \cup {c} ELSE @,
                  !.ended = @ \cup {c}], c, "capsule")

(* Mutated form: data of an ended session is reported.                     *)
recv_wt_data_cb_Ghost(s, d, n) ==
    [push_event(s, SessionOf[d]) EXCEPT !.stream_info = @ \cup {d}, !.got[d] = @ + n]

(* Mutated form: the data that registers a stream is not reported.         *)
recv_wt_data_cb_RegisterOnly(s, d, n) ==
    IF ~is_active_session(s, SessionOf[d]) THEN s
    ELSE IF d \notin s.stream_info THEN [s EXCEPT !.stream_info = @ \cup {d}]
    ELSE [push_event(s, SessionOf[d]) EXCEPT !.got[d] = @ + n]

recv_wt_data_cb(s, d, n) ==
    IF ~is_active_session(s, SessionOf[d]) THEN s
    ELSE [push_event(s, SessionOf[d]) EXCEPT !.stream_info = @ \cup {d},
                                             !.got[d] = @ + n]

begin_headers_cb(s, c) == [s EXCEPT !.pending_headers = @ \cup {c}]

(* A request that is not for WebTransport, or whose origin is refused, is  *)
(* answered at once with 405 or 403.                                       *)
reject_session(s, c) ==
    forget_pre_accept_session(
        [s EXCEPT !.response[c] = "refused", !.session_ids = @ \ {c},
                  !.pre_accept_fin = @ \ {c}, !.accepted = @ \ {c}], c)

end_headers_cb(s, c) ==
    LET t == [s EXCEPT !.pending_headers = @ \ {c}]
    IN  IF c \in wanted
        THEN push_ready([t EXCEPT !.session_ids = @ \cup {c}], c)
        ELSE reject_session([t EXCEPT !.qpack_blocked_fin = @ \ {c}], c)

end_stream_cb(s, c) ==
    IF c \in s.session_ids THEN [s EXCEPT !.pending_fin = @ \cup {c}] ELSE s

-----------------------------------------------------------------------------
(* nghttp3_conn_read_stream2 and nghttp3_conn_server_confirm_wt_session.   *)

Fail(s, e) == [s EXCEPT !.error = e]

capsule_arrives(s, c, x, accepting) ==
    CASE c \in s.ended -> s
      [] c \notin s.ended /\ x = "CLOSE" -> recv_wt_close_session_cb(s, c, accepting)
      [] c \notin s.ended /\ x = "BAD" -> Fail(s, "message")
      [] OTHER -> s

(* The next item of a CONNECT stream.                                      *)
read_item(s, c, x, have_table) ==
    IF s.error # "none" THEN s
    ELSE IF s.state[c] = "gone" THEN Fail(s, "connection")
    ELSE IF s.read[c] < HeadersLen
    THEN LET t == [s EXCEPT !.read[c] = @ + 1, !.state[c] = "open"]
         IN  CASE x = "K" -> begin_headers_cb(t, c)
               [] x = "F" -> IF c \in dynamic /\ ~have_table
                             THEN [t EXCEPT !.blocked = @ \cup {c}]
                             ELSE end_headers_cb(t, c)
               [] OTHER -> t
    ELSE IF c \in s.blocked THEN [s EXCEPT !.mixed = TRUE]
    ELSE IF c \in s.confirmed THEN capsule_arrives(s, c, x, FALSE)
    ELSE IF s.response[c] = "refused" THEN s
    ELSE [s EXCEPT !.capsules[c] = Append(@, x)]

read_fin(s, c) ==
    IF s.error # "none" THEN s
    ELSE IF s.state[c] = "gone" \/ s.read[c] < HeadersLen THEN Fail(s, "connection")
    ELSE IF c \in s.confirmed THEN end_stream_cb(s, c)
    ELSE s                             \* the FIN is not reported

read_connect(s, c, items, fin, have_table) ==
    LET t == FoldLeft(LAMBDA r, x : read_item(r, c, x, have_table), s, items)
    IN  IF fin THEN read_fin(t, c) ELSE t

Bytes(items) == Cardinality({i \in DOMAIN items : items[i] = "D"})

(* A data stream: bytes behind its header are kept until its session is    *)
(* confirmed; those of a session whose CONNECT stream is gone are dropped. *)
read_data(s, d, items) ==
    LET n == Bytes(items)
        c == SessionOf[d]
        t == [s EXCEPT !.named = IF \E i \in DOMAIN items : items[i] = "W"
                                 THEN @ \cup {d} ELSE @]
    IN  IF d \in s.deleted THEN Fail(s, "connection")
        ELSE IF n = 0 \/ s.state[c] = "gone" THEN t
        ELSE IF c \in s.confirmed THEN recv_wt_data_cb(t, d, n)
        ELSE [t EXCEPT !.kept[d] = @ + n]

confirm_wt_session(s, c) ==
    LET t == FoldLeft(LAMBDA r, x : IF r.error # "none" THEN r
                                    ELSE capsule_arrives(r, c, x, TRUE),
                      [s EXCEPT !.confirmed = @ \cup {c}, !.capsules[c] = <<>>],
                      s.capsules[c])
        deliver(d, r) == recv_wt_data_cb([r EXCEPT !.kept[d] = 0], d, r.kept[d])
    IN  IF t.error # "none" THEN t
        ELSE FoldSet(deliver, t, {d \in Remote : SessionOf[d] = c /\ t.kept[d] > 0})

-----------------------------------------------------------------------------
(* Receiving.                                                              *)

(* Mutated form: one more than the limit is let in.                        *)
over_limit_Late(n) == n > PreAcceptLimit + 1

over_limit(n) == n > PreAcceptLimit

(* n bytes of d were kept by nghttp3 in this read.                         *)
enforce_pre_accept_buffer_limit(s, d, n, fin) ==
    IF SessionOf[d] \in s.accepted \/ n = 0 THEN s
    ELSE IF ~over_limit(s.buffered[d] + n) THEN [s EXCEPT !.buffered[d] = @ + n]
    ELSE delete_stream(push_stop([forget_pre_accept_stream(s, d) EXCEPT
                           !.rejected = IF fin THEN @ ELSE @ \cup {d}], d), d)

read_from_nghttp3(s, x, items, fin) ==
    IF x \in s.rejected THEN [s EXCEPT !.rejected = IF fin THEN @ \ {x} ELSE @]
    ELSE LET t == IF x \in Sessions THEN read_connect(s, x, items, fin, table)
                                    ELSE read_data(s, x, items)
             u == [t EXCEPT !.error = "none"]
         IN  CASE t.error = "connection" -> [u EXCEPT !.closed = TRUE]
               [] t.error = "message" -> handle_wt_close_session_error(u, x)
               [] t.error = "none" /\ x \in Sessions -> t
               [] OTHER -> enforce_pre_accept_buffer_limit(t, x, t.kept[x] - s.kept[x], fin)

(* FIN of a CONNECT stream that nghttp3 does not report: before the        *)
(* response, and before the headers could be decoded.                      *)
note_unreported_fin(s, x) ==
    [s EXCEPT !.pre_accept_fin = IF x \in s.session_ids \ s.pending_fin
                                 THEN @ \cup {x} ELSE @,
              !.qpack_blocked_fin = IF x \in s.pending_headers \ s.session_ids
                                    THEN @ \cup {x} ELSE @]

(* Mutated form: a FIN noted while the headers were blocked stays noted.   *)
migrate_blocked_fin_Never(s) == s

migrate_blocked_fin(s) ==
    [s EXCEPT !.pre_accept_fin = @ \cup (s.qpack_blocked_fin \cap s.session_ids),
              !.qpack_blocked_fin = @ \ s.session_ids]

close_finished(s) ==
    [FoldSet(LAMBDA c, t : close_stream(t, c, "fin"), s, s.pending_fin)
        EXCEPT !.pending_fin = {}]

process_after_read(s, x, fin) ==
    discard_stale_2xx(close_finished(migrate_blocked_fin(
        IF fin THEN note_unreported_fin(s, x) ELSE s)))

(* Mutated form: what was held is fed while the headers are still blocked. *)
flushable_Blocked(s) ==
    {c \in Sessions : s.guard[c].held # <<>> /\ s.guard[c].forwarded = HeadersLen}

flushable(s) ==
    {c \in Sessions : /\ s.guard[c].held # <<>>
                      /\ s.guard[c].forwarded = HeadersLen
                      /\ c \notin s.pending_headers}

flush_unblocked_held_data(s) ==
    LET feed(c, t) ==
            LET g == t.guard[c]
                u == [t EXCEPT !.guard[c] = [@ EXCEPT !.held = <<>>, !.held_fin = FALSE]]
            IN  IF t.closed \/ c \notin flushable(t) THEN t
                ELSE process_after_read(read_from_nghttp3(u, c, g.held, g.held_fin),
                                        c, g.held_fin)
    IN  FoldSet(feed, s, flushable(s))

(* The frame boundary guard: what is forwarded of a chunk, and the guard   *)
(* it leaves.  wait: nothing is, and nothing else happens.                 *)
Pass(g, items, fin) == [guard |-> g, items |-> items, fin |-> fin, wait |-> FALSE]

split_headers(g, items, fin) ==
    LET n == HeadersLen - g.forwarded
    IN  IF Len(items) <= n
        THEN Pass([g EXCEPT !.forwarded = @ + Len(items)], items, fin)
        ELSE Pass([g EXCEPT !.forwarded = HeadersLen, !.held_fin = fin,
                            !.held = SubSeq(items, n + 1, Len(items))],
                  SubSeq(items, 1, n), FALSE)

split(s, x, data, fin) ==
    LET g   == s.guard[x]
        all == g.prefix \o data
        u   == [g EXCEPT !.prefix = <<>>, !.header_parsed = TRUE]
    IN  IF ~g.header_parsed
        THEN CASE Len(all) < 2 /\ fin -> Pass([g EXCEPT !.prefix = <<>>], all, TRUE)
               [] Len(all) < 2 /\ ~fin -> [Pass([g EXCEPT !.prefix = all], <<>>, FALSE)
                                               EXCEPT !.wait = TRUE]
               [] Len(all) >= 2 /\ all[2] # "K" -> Pass(u, all, fin)
               [] OTHER -> split_headers([u EXCEPT !.is_headers = TRUE], all, fin)
        ELSE IF ~g.is_headers THEN Pass(g, data, fin)
        ELSE IF g.forwarded < HeadersLen THEN split_headers(g, data, fin)
        ELSE IF x \in s.pending_headers
        THEN Pass([g EXCEPT !.held = @ \o data, !.held_fin = @ \/ fin], <<>>, FALSE)
        ELSE Pass(g, data, fin)

bypass_guard(s, x, data) == data = <<>> \/ x \in Uni \/ x \in s.stream_info

receive_stream_data(s, x, data, fin) ==
    IF s.closed THEN s
    ELSE IF x \in s.rejected THEN [s EXCEPT !.rejected = IF fin THEN @ \ {x} ELSE @]
    ELSE IF bypass_guard(s, x, data)
    THEN flush_unblocked_held_data(
             process_after_read(read_from_nghttp3(s, x, data, fin), x, fin))
    ELSE LET p == split(s, x, data, fin)
             t == [s EXCEPT !.guard[x] = p.guard]
             all_held == p.items = <<>> /\ ~p.fin /\ ~p.wait
             u == IF all_held THEN t ELSE read_from_nghttp3(t, x, p.items, p.fin)
         IN  IF p.wait THEN process_after_read(t, x, FALSE)
             ELSE flush_unblocked_held_data(
                      process_after_read(u, x, IF all_held THEN fin ELSE p.fin))

Deliver(x) ==
    \E k \in 0 .. Len(content[x]) - pos[x], fin \in BOOLEAN :
        /\ ~h.closed /\ x \notin finned \cup aborted /\ content[x] # <<>>
        /\ fin => pos[x] + k = Len(content[x])
        /\ k > 0 \/ fin
        /\ h' = receive_stream_data(h, x, SubSeq(content[x], pos[x] + 1, pos[x] + k), fin)
        /\ pos' = [pos EXCEPT ![x] = @ + k]
        /\ finned' = IF fin THEN finned \cup {x} ELSE finned
        /\ UNCHANGED <<table, aborted, datagrams>> /\ Fixed

(* The QPACK encoder stream: blocked field sections are decoded.           *)
DeliverTable ==
    /\ ~h.closed /\ ~table
    /\ LET unblock(c, s) == end_headers_cb([s EXCEPT !.blocked = @ \ {c}], c)
           s == FoldSet(unblock, h, h.blocked)
       IN  h' = flush_unblocked_held_data(process_after_read(s, "encoder", FALSE))
    /\ table' = TRUE
    /\ UNCHANGED <<pos, finned, aborted, datagrams>> /\ Fixed

(* RESET_STREAM of the client (STREAM_RESET in _h3_server.py).             *)
RecvReset(x) ==
    /\ ~h.closed /\ x \notin finned \cup aborted /\ pos[x] > 0
    /\ h' = close_stream(h, x, "reset")
    /\ aborted' = aborted \cup {x}
    /\ UNCHANGED <<table, pos, finned, datagrams>> /\ Fixed

receive_datagram(s, c) == IF is_active_session(s, c) THEN push_event(s, c) ELSE s

RecvDatagram(c) ==
    /\ ~h.closed /\ content[c] # <<>> /\ datagrams[c] < MaxDatagrams
    /\ h' = receive_datagram(h, c)
    /\ datagrams' = [datagrams EXCEPT ![c] = @ + 1]
    /\ UNCHANGED <<table, pos, finned, aborted>> /\ Fixed

-----------------------------------------------------------------------------
(* Calls of the application, and writing.                                  *)

(* Mutated form: the 2xx is left in the queue of a closed session.         *)
accept_session_Keeps2xx(s, c) ==
    LET t == [s EXCEPT !.response[c] = "ok",
                       !.fin_accepted = @ \cup (s.pre_accept_fin \cap {c}),
                       !.pre_accept_fin = @ \ {c}]
        u == confirm_wt_session(t, c)
    IN  IF u.error # "none"
        THEN discard_stale_2xx(handle_wt_close_session_error(
                 [u EXCEPT !.error = "none",
                           !.fin_accepted = @ \ {c},
                           !.pre_accept_fin = @ \cup (s.pre_accept_fin \cap {c})], c))
        ELSE forget_pre_accept_session(
                 [u EXCEPT !.accepted = @ \cup (u.session_ids \cap {c})], c)

(* Mutated form: a FIN received earlier is not taken over.                 *)
accept_session_ForgetsFin(s, c) ==
    LET u == confirm_wt_session([s EXCEPT !.response[c] = "ok"], c)
        v == discard_stale_2xx(u)
    IN  IF u.error # "none"
        THEN discard_stale_2xx(handle_wt_close_session_error(
                 [u EXCEPT !.error = "none"], c))
        ELSE forget_pre_accept_session(
                 [v EXCEPT !.accepted = @ \cup (v.session_ids \cap {c})], c)

accept_session(s, c) ==
    LET t == [s EXCEPT !.response[c] = "ok",
                       !.fin_accepted = @ \cup (s.pre_accept_fin \cap {c}),
                       !.pre_accept_fin = @ \ {c}]
        u == confirm_wt_session(t, c)
        v == discard_stale_2xx(u)
    IN  IF u.error # "none"
        THEN discard_stale_2xx(handle_wt_close_session_error(
                 [u EXCEPT !.error = "none",
                           !.fin_accepted = @ \ {c},
                           !.pre_accept_fin = @ \cup (s.pre_accept_fin \cap {c})], c))
        ELSE forget_pre_accept_session(
                 [v EXCEPT !.accepted = @ \cup (v.session_ids \cap {c})], c)

Call(s) == h' = s /\ UNCHANGED <<table, pos, finned, aborted, datagrams>> /\ Fixed

Answerable(c) == c \in h.session_ids /\ h.response[c] = "none" /\ ~h.closed

AcceptSession(c) == Answerable(c) /\ Call(accept_session(h, c))
RejectSession(c) == Answerable(c) /\ Call(reject_session(h, c))

(* close_session; nghttp3 stops reading the session's capsules.  For a     *)
(* session that is not established nghttp3 refuses, and close_session does *)
(* nothing: so the comment in _h3_server.py, close_session, has it.        *)
close_session(s, c) ==
    push_over([forget_session(s, c) EXCEPT !.ended = @ \cup {c}], c, "app")

CloseSession(c) == c \in h.accepted /\ ~h.closed /\ Call(close_session(h, c))

(* reset_stream of a CONNECT stream or of a data stream.                   *)
ResetStream(x) ==
    /\ ~h.closed
    /\ x \in h.session_ids \cup h.stream_info
    /\ Call(close_stream(h, x, "reset"))

OpenStream(d) ==
    /\ ~h.closed
    /\ is_active_session(h, SessionOf[d]) /\ d \notin h.stream_info
    /\ SessionOf[d] \in h.confirmed
    /\ Call([h EXCEPT !.stream_info = @ \cup {d}])

Unwritten == {c \in Sessions : /\ h.response[c] # "none"
                               /\ c \notin h.written /\ h.state[c] = "open"}

is_stream_flushed(s, c) == c \in s.written \/ s.state[c] # "open"

close_deferred(s) ==
    FoldSet(LAMBDA c, t : close_stream([t EXCEPT !.fin_accepted = @ \ {c}], c, "fin"),
            s, {c \in s.fin_accepted : is_stream_flushed(s, c)})

(* get_streams_to_send: QUIC takes the responses in W.                     *)
get_streams_to_send(s, W) == close_deferred([s EXCEPT !.written = @ \cup W])

Write(W) == ~h.closed /\ Call(get_streams_to_send(h, W))

Next ==
    \/ \E x \in Arriving : Deliver(x) \/ RecvReset(x)
    \/ DeliverTable
    \/ \E c \in Sessions : \/ RecvDatagram(c) \/ AcceptSession(c)
                           \/ RejectSession(c) \/ CloseSession(c)
    \/ \E x \in Sessions \cup Streams : ResetStream(x)
    \/ \E d \in Local : OpenStream(d)
    \/ \E W \in SUBSET Unwritten : Write(W)

Spec == Init /\ [][Next]_vars

FairSpec == Spec /\ WF_vars(Write(Unwritten))

-----------------------------------------------------------------------------
(* Properties.                                                             *)

TypeOK ==
    /\ h \in Record
    /\ wanted \subseteq Sessions /\ dynamic \subseteq Sessions /\ table \in BOOLEAN
    /\ pos \in [Arriving -> Nat]
    /\ finned \subseteq Arriving /\ aborted \subseteq Arriving
    /\ datagrams \in [Sessions -> 0 .. MaxDatagrams]

(* The application learns once that a session begins and once that it is   *)
(* over, and its StreamData, Datagram and SessionClosed come after         *)
(* SessionReady and never after SessionClosed or a refusal, whatever is    *)
(* still on its way: kept data and capsules, ghost streams, datagrams, a   *)
(* FIN noted earlier.  The two events that ask the driver to act on a      *)
(* stream have other places: ResetStream of a CONNECT stream comes only    *)
(* behind the SessionClosed of a malformed WT_CLOSE_SESSION                *)
(* (handle_wt_close_session_error), and StopSending only for a stream of   *)
(* a session not yet confirmed (enforce_pre_accept_buffer_limit).          *)
OverOnce == ~h.out_of_place /\ \A c \in Sessions : h.over[c] <= 1 /\ h.ready[c] <= 1

(* While a field section waits for the dynamic table, nothing but its      *)
(* HEADERS frame reaches nghttp3, which would corrupt its memory.          *)
NothingBehindBlocked == ~h.mixed

(* Once the FIN of a CONNECT stream has been received the session is       *)
(* either over or no longer takes part in sending and receiving, also when *)
(* the FIN came with blocked headers, behind held data or before the       *)
(* response.                                                               *)
EndLearned ==
    \A c \in finned \cap h.session_ids : h.closed \/ ~is_active_session(h, c)

(* What becomes of a queued 2xx.  When WT_CLOSE_SESSION is found while the *)
(* session is being accepted, or while its 2xx waits for the deferred      *)
(* close, the 2xx is dropped: the client never takes a closed session for  *)
(* an established one.  A session accepted after its FIN has its 2xx       *)
(* written before the deferred close ends it.                              *)
ResponseFits ==
    [][\A c \in Sessions : h.over[c] = 0 /\ h'.over[c] = 1 =>
          /\ h'.why[c] = "capsule"
                /\ (c \in h.fin_accepted \ h.written \/ h.response[c] = "none")
             => h'.state[c] = "gone" /\ c \notin h'.written \cup h'.fin_accepted
          /\ h'.why[c] = "fin" /\ c \in h.fin_accepted => c \in h'.written]_vars

(* What nghttp3 keeps of a stream whose session is not yet accepted is     *)
(* what the code counts, and within the limit.                             *)
PreAcceptCounted ==
    \A d \in Remote :
        \/ h.closed \/ SessionOf[d] \in h.confirmed
        \/ h.over[SessionOf[d]] > 0 \/ h.response[SessionOf[d]] = "refused"
        \/ h.buffered[d] = h.kept[d] /\ h.kept[d] <= PreAcceptLimit

(* Everything received of a data stream of an accepted session has been    *)
(* reported, unless the stream was reset or rejected.                      *)
DataReported ==
    \A d \in Remote :
        SessionOf[d] \in h.accepted /\ is_active_session(h, SessionOf[d])
            /\ d \notin h.deleted /\ ~h.closed
        => h.got[d] = Bytes(SubSeq(content[d], 1, pos[d]))

(* A session whose FIN has been received is reported over once it is       *)
(* accepted, if nghttp3 may write.                                         *)
FinEndsSession ==
    \A c \in Sessions : (c \in finned /\ c \in h.accepted) ~> (h.over[c] > 0 \/ h.closed)
=============================================================================
