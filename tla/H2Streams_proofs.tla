-------------------------- MODULE H2Streams_proofs --------------------------
(***************************************************************************)
(* Proofs about H2Streams, for every configuration and any number of       *)
(* streams and calls, in three parts:                                      *)
(*                                                                         *)
(*  1. the session records stay well typed, and no limit of flow control   *)
(*     is overrun in either direction, whoever the peer is;                *)
(*  2. what one end guarantees whoever its peer is: the queues account for *)
(*     every byte, nothing is reported behind the end of a stream, the     *)
(*     streams of the peer are bounded, and a closed end is silent;        *)
(*  3. what two ends of this code guarantee each other, for every          *)
(*     interleaving: bytes are processed in the order they were written,   *)
(*     an end is reported once, and neither end ever closes the session on *)
(*     the other.                                                          *)
(*                                                                         *)
(* Every function of the source is a transformer of the session record, so *)
(* the argument of parts 1 and 2 is one lemma per function: it takes a     *)
(* good record to a good record.  The actions then only combine these      *)
(* lemmas.                                                                 *)
(***************************************************************************)
EXTENDS H2Streams, FiniteSetTheorems, TLAPS

-----------------------------------------------------------------------------
(* Part 1.                                                                 *)

StreamCredit(f) == /\ f.bytes_sent <= f.max_stream_data_local
                   /\ f.bytes_received <= f.max_stream_data_remote

SessionCredit(s) == /\ s.bytes_sent <= s.max_data_local
                    /\ s.bytes_received <= s.max_data_remote

Good(s) == /\ s \in WtSessionInfo
           /\ SessionCredit(s)
           /\ \A id \in s.ids : StreamCredit(s.streams[id])

-----------------------------------------------------------------------------
(* Updates of single fields.                                               *)

LEMMA GoodFields ==
    ASSUME NEW s, Good(s)
    PROVE  /\ s \in WtSessionInfo
           /\ s.bytes_sent \in Nat /\ s.max_data_local \in Nat
           /\ s.bytes_received \in Nat /\ s.max_data_remote \in Nat
           /\ s.out \in Seq(Capsule)
           /\ s.ids \subseteq StreamId
           /\ s.streams \in [StreamId -> WtStreamInfo]
           /\ s.max_streams_remote \in [Dir -> Nat]
           /\ s.max_streams_local \in [Dir -> Nat]
BY DEF Good, WtSessionInfo

LEMMA StreamFields ==
    ASSUME NEW f \in WtStreamInfo
    PROVE  /\ f.bytes_sent \in Nat /\ f.max_stream_data_local \in Nat
           /\ f.bytes_received \in Nat /\ f.max_stream_data_remote \in Nat
           /\ f.written \in Nat
           /\ f.pending_sends \in Seq(PendingSend)
BY DEF WtStreamInfo

LEMMA SetOutType ==
    ASSUME NEW s \in WtSessionInfo, NEW q \in Seq(Capsule)
    PROVE  [s EXCEPT !.out = q] \in WtSessionInfo
BY DEF WtSessionInfo

LEMMA SetOut ==
    ASSUME NEW s, Good(s), NEW q \in Seq(Capsule)
    PROVE  Good([s EXCEPT !.out = q])
<1>1. [s EXCEPT !.out = q] \in WtSessionInfo
  BY DEF Good, WtSessionInfo
<1>2. QED
  BY <1>1 DEF Good, SessionCredit, WtSessionInfo

LEMMA SetStream ==
    ASSUME NEW s, Good(s), NEW id \in StreamId, NEW f \in WtStreamInfo,
           StreamCredit(f)
    PROVE  Good([s EXCEPT !.streams[id] = f])
<1> DEFINE t == [s EXCEPT !.streams[id] = f]
<1>1. t \in WtSessionInfo
  BY DEF Good, WtSessionInfo
<1>2. /\ t.ids = s.ids /\ t.streams = [s.streams EXCEPT ![id] = f]
      /\ t.bytes_sent = s.bytes_sent /\ t.max_data_local = s.max_data_local
      /\ t.bytes_received = s.bytes_received
      /\ t.max_data_remote = s.max_data_remote
  BY DEF Good, WtSessionInfo
<1>3. s.streams \in [StreamId -> WtStreamInfo] /\ s.ids \subseteq StreamId
  BY GoodFields
<1> HIDE DEF t
<1>4. \A i \in t.ids : StreamCredit(t.streams[i])
  BY <1>2, <1>3 DEF Good
<1>5. QED
  BY <1>1, <1>2, <1>4 DEF Good, SessionCredit, t

LEMMA SendCapsule ==
    ASSUME NEW s, Good(s), NEW t \in CapsuleType, NEW id \in StreamId,
           NEW v \in Nat
    PROVE  Good(send_capsule(s, t, id, v))
<1> DEFINE c == [type |-> t, id |-> id, len |-> 0, val |-> v,
                 form |-> "ok", off |-> 0, at |-> s.bytes_sent]
           q == Append(s.out, c)
<1>1. c \in Capsule
  BY GoodFields DEF Capsule, Form
<1> HIDE DEF c
<1>2. q \in Seq(Capsule)
  BY <1>1, GoodFields
<1> HIDE DEF q
<1>3. QED
  BY <1>2, SetOut DEF send_capsule, q, c

LEMMA ZeroId == 0 \in StreamId
BY BoundAssumption DEF StreamId

-----------------------------------------------------------------------------
(* The functions the handlers and calls are built from.                    *)

LEMMA CloseSessionGood ==
    ASSUME NEW s, Good(s), NEW why \in Reason
    PROVE  Good(close_session(s, why))
<1> DEFINE t == send_capsule(s, "WT_CLOSE_SESSION", 0, 0)
<1>1. Good(t)
  BY SendCapsule, ZeroId DEF CapsuleType
<1> HIDE DEF t
<1>2. Good([t EXCEPT !.status = "terminated", !.reason = why])
  BY <1>1 DEF Good, SessionCredit, WtSessionInfo, Status
<1>3. QED
  BY <1>2 DEF close_session, t

LEMMA MalformedGood ==
    ASSUME NEW s, Good(s)
    PROVE  Good(reset_stream_for_malformed_capsule(s))
BY DEF reset_stream_for_malformed_capsule, Good, SessionCredit, WtSessionInfo,
       Status, Reason

LEMMA PeerConfig ==
    ASSUME NEW e \in End
    PROVE  /\ Config[e].max_data \in Nat /\ Config[e].max_stream_data \in Nat
           /\ Config[e].max_streams \in [Dir -> Nat]
           /\ Peer(e) \in End
           /\ Config[Peer(e)].max_stream_data \in Nat
BY ConfigAssumption DEF End, Peer

LEMMA NoStreamType == NoStream \in WtStreamInfo
<1>1. <<>> \in Seq(PendingSend)
  OBVIOUS
<1>2. QED
  BY <1>1 DEF NoStream, WtStreamInfo, SendState, RecvState

LEMMA NewStreamGood ==
    ASSUME NEW s, Good(s), NEW e \in End, NEW id \in StreamId
    PROVE  Good(new_stream(s, e, id))
<1> DEFINE credit == initialize_stream_send_credit(s, e, id)
           limit == Config[e].max_stream_data
           f == [NoStream EXCEPT !.max_stream_data_local = credit,
                                 !.max_stream_data_remote = limit]
<1>1. credit \in Nat
  <2>1. s.received_max_stream_data_by_id[id] \in Nat \cup {-1}
    BY DEF Good, WtSessionInfo, Absent
  <2>2. QED
    BY <2>1, PeerConfig DEF initialize_stream_send_credit, Larger
<1> HIDE DEF credit
<1>2. f \in WtStreamInfo /\ StreamCredit(f)
  <2>1. limit \in Nat
    BY PeerConfig
  <2> HIDE DEF limit
  <2>2. f.bytes_sent = 0 /\ f.bytes_received = 0
        /\ f.max_stream_data_local = credit /\ f.max_stream_data_remote = limit
    BY DEF NoStream
  <2>3. f \in WtStreamInfo
    BY <1>1, <2>1, NoStreamType DEF WtStreamInfo
  <2> HIDE DEF f
  <2>4. QED
    BY <1>1, <2>1, <2>2, <2>3 DEF StreamCredit
<1> HIDE DEF f
<1> DEFINE u == [s EXCEPT !.ids = @ \cup {id}, !.streams[id] = f]
<1>3. u \in WtSessionInfo
  BY <1>2 DEF Good, WtSessionInfo
<1>4. /\ u.ids = s.ids \cup {id} /\ u.streams = [s.streams EXCEPT ![id] = f]
      /\ SessionCredit(u)
  BY DEF Good, SessionCredit, WtSessionInfo
<1>5. Good(u)
  <2> HIDE DEF u
  <2> QED BY <1>2, <1>3, <1>4, GoodFields DEF Good
<1>6. QED
  BY <1>5 DEF new_stream, f, credit

LEMMA RaisedLimit ==
    ASSUME NEW m \in Nat, NEW n \in Nat
    PROVE  raised_limit(m, n) \in Nat
BY LimitAssumption DEF raised_limit, Smaller

LEMMA MaxDataGood ==
    ASSUME NEW s, Good(s), NEW e \in End
    PROVE  Good(maybe_send_max_data(s, e))
<1> DEFINE updated == raised_limit(s.bytes_received, Config[e].max_data)
<1>1. updated \in Nat
  BY RaisedLimit, GoodFields, PeerConfig
<1> HIDE DEF updated
<1>2. ASSUME ~(updated <= s.max_data_remote)
      PROVE  Good(send_capsule([s EXCEPT !.max_data_remote = updated],
                               "WT_MAX_DATA", 0, updated))
  <2> DEFINE t == [s EXCEPT !.max_data_remote = updated]
  <2>1. s.bytes_received <= updated
    BY <1>1, <1>2, GoodFields DEF Good, SessionCredit
  <2>2. Good(t)
    BY <1>1, <2>1 DEF Good, SessionCredit, WtSessionInfo
  <2> HIDE DEF t
  <2>3. QED
    BY <1>1, <2>2, SendCapsule, ZeroId DEF CapsuleType, t
<1>3. QED
  BY <1>2 DEF maybe_send_max_data, updated

(* The stream must be one of s.ids, so that its credit is known.           *)
LEMMA MaxStreamDataGood ==
    ASSUME NEW s, Good(s), NEW e \in End, NEW id \in s.ids
    PROVE  Good(maybe_send_max_stream_data(s, e, id))
<1> DEFINE f == s.streams[id]
           updated == raised_limit(f.bytes_received, Config[e].max_stream_data)
<1>1. f \in WtStreamInfo /\ StreamCredit(f) /\ id \in StreamId
  BY GoodFields DEF Good
<1> HIDE DEF f
<1>2. updated \in Nat
  BY <1>1, RaisedLimit, StreamFields, PeerConfig
<1> HIDE DEF updated
<1>3. ASSUME ~(updated <= f.max_stream_data_remote)
      PROVE  Good(send_capsule([s EXCEPT !.streams[id].max_stream_data_remote = updated],
                               "WT_MAX_STREAM_DATA", id, updated))
  <2> DEFINE g == [f EXCEPT !.max_stream_data_remote = updated]
             t == [s EXCEPT !.streams[id] = g]
  <2>1. g \in WtStreamInfo /\ StreamCredit(g)
    BY <1>1, <1>2, <1>3 DEF WtStreamInfo, StreamCredit
  <2> HIDE DEF g
  <2>2. Good(t)
    BY <1>1, <2>1, SetStream
  <2>3. t = [s EXCEPT !.streams[id].max_stream_data_remote = updated]
    BY DEF g, f
  <2> HIDE DEF t
  <2>4. Good(send_capsule(t, "WT_MAX_STREAM_DATA", id, updated))
    BY <1>1, <1>2, <2>2, SendCapsule DEF CapsuleType
  <2>5. QED
    BY <2>3, <2>4
<1>4. QED
  BY <1>3 DEF maybe_send_max_stream_data, updated, f

LEMMA EraseGood ==
    ASSUME NEW s, Good(s), NEW e \in End, NEW id \in StreamId
    PROVE  Good(erase_stream(s, e, id))
<1> DEFINE released == IF /\ is_receivable_data_capsule(e, id)
                          /\ Cardinality(s.released_stream_ids) < kMaxReceivedMapEntries
                       THEN s.released_stream_ids \cup {id}
                       ELSE s.released_stream_ids
           u == [s EXCEPT !.ids = @ \ {id}, !.streams[id] = NoStream,
                          !.released_stream_ids = released]
<1>1. released \subseteq StreamId
  BY DEF Good, WtSessionInfo
<1>2. erase_stream(s, e, id) = u
  BY DEF erase_stream
<1> HIDE DEF released
<1>3. u \in WtSessionInfo
  BY <1>1, NoStreamType DEF Good, WtSessionInfo
<1>4. /\ u.ids = s.ids \ {id} /\ u.streams = [s.streams EXCEPT ![id] = NoStream]
      /\ SessionCredit(u)
  BY DEF Good, SessionCredit, WtSessionInfo
<1> HIDE DEF u
<1>5. Good(u)
  BY <1>3, <1>4, GoodFields DEF Good
<1>6. QED
  BY <1>2, <1>5

LEMMA ReplenishGood ==
    ASSUME NEW s, Good(s), NEW e \in End, NEW id \in StreamId
    PROVE  Good(replenish_streams(s, e, id))
<1> DEFINE d == DirOf(id)
           n == s.max_streams_remote[d] + 1
           t == [s EXCEPT !.max_streams_remote[d] = n]
           type == IF d = "uni" THEN "WT_MAX_STREAMS_UNI" ELSE "WT_MAX_STREAMS_BIDI"
<1>1. d \in Dir
  BY DEF DirOf, Dir
<1>2. type \in CapsuleType
  BY DEF CapsuleType, MaxStreamsCapsules
<1> HIDE DEF d
<1>3. n \in Nat
  BY <1>1, GoodFields
<1> HIDE DEF n
<1>4. Good(t)
  BY <1>1, <1>3 DEF Good, SessionCredit, WtSessionInfo
<1> HIDE DEF t, type
<1>5. Good(send_capsule(t, type, 0, n))
  BY <1>2, <1>3, <1>4, SendCapsule, ZeroId
<1>6. QED
  BY <1>5 DEF replenish_streams, d, n, t, type

LEMMA ReleaseGood ==
    ASSUME NEW s, Good(s), NEW e \in End, NEW id \in StreamId
    PROVE  Good(maybe_release_stream(s, e, id))
<1> DEFINE t == erase_stream(s, e, id)
<1>1. Good(t)
  BY EraseGood
<1> HIDE DEF t
<1>2. Good(replenish_streams(t, e, id))
  BY <1>1, ReplenishGood
<1>3. QED
  BY <1>2 DEF maybe_release_stream, t

-----------------------------------------------------------------------------
(* Sending.                                                                *)

(* sendable never exceeds what both limits leave.                          *)
LEMMA SendableFits ==
    ASSUME NEW s, Good(s), NEW id \in s.ids, NEW n \in Nat
    PROVE  /\ sendable(s, id, n) \in Nat
           /\ sendable(s, id, n) <= n
           /\ s.bytes_sent + sendable(s, id, n) <= s.max_data_local
           /\ s.streams[id].bytes_sent + sendable(s, id, n)
                  <= s.streams[id].max_stream_data_local
<1> DEFINE f == s.streams[id]
<1>1. f \in WtStreamInfo /\ StreamCredit(f)
  BY GoodFields DEF Good
<1> HIDE DEF f
<1>2. /\ s.bytes_sent \in Nat /\ s.max_data_local \in Nat
      /\ f.bytes_sent \in Nat /\ f.max_stream_data_local \in Nat
  BY <1>1, GoodFields, StreamFields
<1>3. /\ s.bytes_sent <= s.max_data_local
      /\ f.bytes_sent <= f.max_stream_data_local
  BY <1>1 DEF Good, SessionCredit, StreamCredit
<1>4. sendable(s, id, n) = Smaller(
          Smaller(remaining(s.max_data_local, s.bytes_sent), n),
          Smaller(remaining(f.max_stream_data_local, f.bytes_sent), n))
  BY DEF sendable, session_avail, stream_avail, f
<1>5. QED
  BY <1>2, <1>3, <1>4 DEF Smaller, remaining, f

(* A WT_STREAM capsule of n bytes, when both limits have room for them.    *)
LEMMA SendStreamCapsuleGood ==
    ASSUME NEW s, Good(s), NEW id \in s.ids, NEW p \in PendingSend, NEW n \in Nat,
           s.bytes_sent + n <= s.max_data_local,
           s.streams[id].bytes_sent + n <= s.streams[id].max_stream_data_local
    PROVE  /\ Good(send_stream_capsule(s, id, p, n))
           /\ send_stream_capsule(s, id, p, n).ids = s.ids
<1> DEFINE c == [type |-> IF n = p.len /\ p.fin THEN "WT_STREAM_FIN"
                                                ELSE "WT_STREAM",
                 id |-> id, len |-> n, val |-> 0, form |-> "ok",
                 off |-> p.off, at |-> s.bytes_sent]
           q == Append(s.out, c)
           f == s.streams[id]
           g == [f EXCEPT !.bytes_sent = @ + n]
           total == s.bytes_sent + n
           u == [s EXCEPT !.out = q, !.bytes_sent = total, !.streams[id] = g]
<1>1. f \in WtStreamInfo /\ StreamCredit(f) /\ id \in StreamId
  BY GoodFields DEF Good
<1>2. c \in Capsule
  BY <1>1, GoodFields DEF Capsule, Form, CapsuleType, StreamCapsules, PendingSend
<1>3. send_stream_capsule(s, id, p, n) = u
  BY DEF send_stream_capsule
<1> HIDE DEF c
<1>4. q \in Seq(Capsule)
  BY <1>2, GoodFields
<1>5. total \in Nat /\ total <= s.max_data_local
  BY GoodFields
<1>6. f.bytes_sent + n <= f.max_stream_data_local
  OBVIOUS
<1> HIDE DEF q, total, f
<1>8. g \in WtStreamInfo /\ StreamCredit(g)
  BY <1>1, <1>6, StreamFields, SMTT(60) DEF WtStreamInfo, StreamCredit
<1> HIDE DEF g
<1>9. u \in WtSessionInfo
  BY <1>1, <1>4, <1>5, <1>8 DEF Good, WtSessionInfo
<1>10. /\ u.ids = s.ids /\ u.streams = [s.streams EXCEPT ![id] = g]
       /\ SessionCredit(u)
  BY <1>5 DEF Good, SessionCredit, WtSessionInfo
<1>11. Good(u)
  <2> HIDE DEF u
  <2> QED BY <1>1, <1>8, <1>9, <1>10, GoodFields DEF Good
<1>12. QED
  BY <1>3, <1>10, <1>11

LEMMA SendCapsuleFrame ==
    ASSUME NEW s \in WtSessionInfo, NEW t, NEW id, NEW v
    PROVE  /\ send_capsule(s, t, id, v).ids = s.ids
           /\ send_capsule(s, t, id, v).streams = s.streams
BY DEF send_capsule, WtSessionInfo

LEMMA RestOfSend ==
    ASSUME NEW p \in PendingSend, NEW n \in Nat, n <= p.len
    PROVE  rest_of_send(p, n) \in PendingSend
<1>1. p.len \in Nat /\ p.off \in Nat /\ p.len - n \in Nat /\ p.off + n \in Nat
  BY DEF PendingSend
<1>2. QED
  BY <1>1 DEF rest_of_send, PendingSend

LEMMA SetPending ==
    ASSUME NEW s, Good(s), NEW id \in s.ids, NEW q \in Seq(PendingSend)
    PROVE  Good([s EXCEPT !.streams[id].pending_sends = q])
<1> DEFINE f == s.streams[id]
           g == [f EXCEPT !.pending_sends = q]
<1>1. f \in WtStreamInfo /\ StreamCredit(f) /\ id \in StreamId
  BY GoodFields DEF Good
<1>2. g \in WtStreamInfo /\ StreamCredit(g)
  <2> HIDE DEF f
  <2> QED BY <1>1 DEF WtStreamInfo, StreamCredit
<1>3. [s EXCEPT !.streams[id].pending_sends = q] = [s EXCEPT !.streams[id] = g]
  OBVIOUS
<1> HIDE DEF g
<1>4. QED
  BY <1>1, <1>2, <1>3, SetStream

LEMMA SetSendState ==
    ASSUME NEW s, Good(s), NEW id \in s.ids, NEW state \in SendState
    PROVE  Good([s EXCEPT !.streams[id].send_state = state])
<1> DEFINE f == s.streams[id]
           g == [f EXCEPT !.send_state = state]
<1>1. f \in WtStreamInfo /\ StreamCredit(f) /\ id \in StreamId
  BY GoodFields DEF Good
<1>2. g \in WtStreamInfo /\ StreamCredit(g)
  <2> HIDE DEF f
  <2> QED BY <1>1 DEF WtStreamInfo, StreamCredit
<1>3. [s EXCEPT !.streams[id].send_state = state] = [s EXCEPT !.streams[id] = g]
  OBVIOUS
<1> HIDE DEF g
<1>4. QED
  BY <1>1, <1>2, <1>3, SetStream

LEMMA QueueGood ==
    ASSUME NEW s, Good(s), NEW id \in s.ids, NEW p \in PendingSend
    PROVE  Good(queue_send(s, id, p))
<1> DEFINE q == Append(s.streams[id].pending_sends, p)
<1>1. q \in Seq(PendingSend)
  BY GoodFields, StreamFields
<1>2. queue_send(s, id, p) = [s EXCEPT !.streams[id].pending_sends = q]
  BY DEF queue_send
<1> HIDE DEF q
<1>3. QED
  BY <1>1, <1>2, SetPending

LEMMA FinishGood ==
    ASSUME NEW s, Good(s), NEW e \in End, NEW id \in s.ids
    PROVE  Good(finish_sending(s, e, id))
<1> DEFINE t == [s EXCEPT !.streams[id].send_state = "DataSent"]
<1>1. Good(t)
  BY SetSendState DEF SendState
<1>2. id \in StreamId
  BY GoodFields
<1> HIDE DEF t
<1>3. Good(maybe_release_stream(t, e, id))
  BY <1>1, <1>2, ReleaseGood
<1>4. QED
  BY <1>3 DEF finish_sending, t

LEMMA ReportDataBlockedGood ==
    ASSUME NEW s, Good(s), NEW blocked
    PROVE  /\ Good(report_data_blocked(s, blocked))
           /\ report_data_blocked(s, blocked).ids = s.ids
<1> DEFINE t == send_capsule(s, "WT_DATA_BLOCKED", 0, s.max_data_local)
<1>1. Good(t) /\ t.ids = s.ids
  <2>1. s \in WtSessionInfo /\ s.max_data_local \in Nat
    BY GoodFields
  <2>2. Good(t)
    BY <2>1, SendCapsule, ZeroId DEF CapsuleType
  <2>3. t.ids = s.ids
    BY <2>1, SendCapsuleFrame
  <2>4. QED
    BY <2>2, <2>3
<1> HIDE DEF t
<1> DEFINE u == [t EXCEPT !.data_blocked_sent = TRUE]
<1>2. Good(u) /\ u.ids = t.ids
  BY <1>1 DEF Good, SessionCredit, WtSessionInfo
<1>3. report_data_blocked(s, blocked) = s \/ report_data_blocked(s, blocked) = u
  <2>1. CASE blocked /\ ~s.data_blocked_sent
    BY <2>1, Zenon DEF report_data_blocked, t
  <2>2. CASE ~(blocked /\ ~s.data_blocked_sent)
    BY <2>2, Zenon DEF report_data_blocked
  <2>3. QED
    BY <2>1, <2>2
<1> HIDE DEF u
<1>4. QED
  BY <1>1, <1>2, <1>3

LEMMA ReportStreamDataBlockedGood ==
    ASSUME NEW s, Good(s), NEW id \in s.ids, NEW blocked
    PROVE  /\ Good(report_stream_data_blocked(s, id, blocked))
           /\ report_stream_data_blocked(s, id, blocked).ids = s.ids
<1> DEFINE v == s.streams[id].max_stream_data_local
           t == send_capsule(s, "WT_STREAM_DATA_BLOCKED", id, v)
           f == t.streams[id]
           g == [f EXCEPT !.stream_data_blocked_sent = TRUE]
           u == [t EXCEPT !.streams[id] = g]
<1>1. id \in StreamId /\ v \in Nat
  BY GoodFields, StreamFields
<1> HIDE DEF v
<1>2. Good(t) /\ t.ids = s.ids
  <2>1. Good(t)
    BY <1>1, SendCapsule DEF CapsuleType
  <2>2. t.ids = s.ids
    BY GoodFields, SendCapsuleFrame
  <2>3. QED
    BY <2>1, <2>2
<1>3. \/ report_stream_data_blocked(s, id, blocked) = s
      \/ report_stream_data_blocked(s, id, blocked) = u
  <2>1. CASE blocked /\ ~s.streams[id].stream_data_blocked_sent
    <3>1. report_stream_data_blocked(s, id, blocked) =
              [t EXCEPT !.streams[id].stream_data_blocked_sent = TRUE]
      BY <2>1, Zenon DEF report_stream_data_blocked, t, v
    <3>2. QED
      BY <3>1
  <2>2. CASE ~(blocked /\ ~s.streams[id].stream_data_blocked_sent)
    BY <2>2, Zenon DEF report_stream_data_blocked
  <2>3. QED
    BY <2>1, <2>2
<1> HIDE DEF t
<1>4. f \in WtStreamInfo /\ StreamCredit(f)
  BY <1>1, <1>2, GoodFields DEF Good
<1> HIDE DEF f
<1>5. g \in WtStreamInfo /\ StreamCredit(g)
  BY <1>4 DEF WtStreamInfo, StreamCredit
<1> HIDE DEF g
<1>6. Good(u) /\ u.ids = t.ids
  BY <1>1, <1>2, <1>5, SetStream DEF Good, WtSessionInfo
<1> HIDE DEF u
<1>7. QED
  BY <1>2, <1>3, <1>6

LEMMA SendPartGood ==
    ASSUME NEW s, Good(s), NEW id \in s.ids, NEW p \in PendingSend
    PROVE  Good(send_part(s, id, p))
<1> DEFINE session == session_avail(s, p.len)
           stream == stream_avail(s, id, p.len)
           n == sendable(s, id, p.len)
           sent == IF n > 0 THEN send_stream_capsule(s, id, p, n) ELSE s
           a == report_data_blocked(sent, session <= stream)
           b == report_stream_data_blocked(a, id, stream <= session)
           rest == rest_of_send(p, n)
<1>1. p.len \in Nat
  BY DEF PendingSend
<1>2. /\ n \in Nat /\ n <= p.len
      /\ s.bytes_sent + n <= s.max_data_local
      /\ s.streams[id].bytes_sent + n <= s.streams[id].max_stream_data_local
  BY <1>1, SendableFits
<1>3. send_part(s, id, p) = queue_send(b, id, rest)
  BY DEF send_part
<1> HIDE DEF n, session, stream
<1>4. Good(sent) /\ sent.ids = s.ids
  <2>1. CASE n > 0
    BY <1>2, <2>1, SendStreamCapsuleGood
  <2>2. CASE ~(n > 0)
    BY <2>2
  <2>3. QED
    BY <2>1, <2>2
<1>5. rest \in PendingSend
  BY <1>2, RestOfSend
<1> HIDE DEF sent, rest
<1>6. Good(a) /\ a.ids = s.ids
  BY <1>4, ReportDataBlockedGood
<1> HIDE DEF a
<1>7. Good(b) /\ b.ids = s.ids
  BY <1>6, ReportStreamDataBlockedGood
<1> HIDE DEF b
<1>8. QED
  BY <1>3, <1>5, <1>7, QueueGood

LEMMA SendAllGood ==
    ASSUME NEW s, Good(s), NEW e \in End, NEW id \in s.ids, NEW p \in PendingSend,
           s.bytes_sent + p.len <= s.max_data_local,
           s.streams[id].bytes_sent + p.len <= s.streams[id].max_stream_data_local
    PROVE  Good(send_all(s, e, id, p))
<1> DEFINE sent == send_stream_capsule(s, id, p, p.len)
<1>1. p.len \in Nat
  BY DEF PendingSend
<1>2. Good(sent) /\ sent.ids = s.ids
  BY <1>1, SendStreamCapsuleGood
<1> HIDE DEF sent
<1>3. Good(finish_sending(sent, e, id))
  BY <1>2, FinishGood
<1>4. QED
  BY <1>2, <1>3 DEF send_all, sent

LEMMA SendStreamDataGood ==
    ASSUME NEW s, Good(s), NEW e \in End, NEW id \in s.ids,
           NEW n \in Nat, NEW fin \in BOOLEAN
    PROVE  Good(send_stream_data(s, e, id, n, fin))
<1> DEFINE f == s.streams[id]
           g == [f EXCEPT !.written = @ + n]
           p == [off |-> f.written, len |-> n, fin |-> fin]
           t == [s EXCEPT !.streams[id] = g]
<1>1. f \in WtStreamInfo /\ StreamCredit(f) /\ id \in StreamId
  BY GoodFields DEF Good
<1>2. send_stream_data(s, e, id, n, fin) =
          IF f.pending_sends # <<>> THEN queue_send(t, id, p)
          ELSE IF sendable(s, id, n) < n THEN send_part(t, id, p)
          ELSE send_all(t, e, id, p)
  BY DEF send_stream_data
<1>3. sendable(s, id, n) < n \/ (/\ s.bytes_sent + n <= s.max_data_local
                                 /\ f.bytes_sent + n <= f.max_stream_data_local)
  BY SendableFits
<1> HIDE DEF f
<1>4. p \in PendingSend /\ p.len = n
  BY <1>1, StreamFields DEF PendingSend
<1>5. /\ g \in WtStreamInfo /\ StreamCredit(g)
      /\ g.bytes_sent = f.bytes_sent
      /\ g.max_stream_data_local = f.max_stream_data_local
  BY <1>1, StreamFields DEF WtStreamInfo, StreamCredit
<1> HIDE DEF g, p
<1>6. Good(t)
  BY <1>1, <1>5, SetStream
<1>7. /\ t.ids = s.ids /\ t.streams[id] = g
      /\ t.bytes_sent = s.bytes_sent /\ t.max_data_local = s.max_data_local
  BY <1>1 DEF Good, WtSessionInfo
<1> HIDE DEF t
<1>8. Good(queue_send(t, id, p)) /\ Good(send_part(t, id, p))
  BY <1>4, <1>6, <1>7, QueueGood, SendPartGood
<1>9. CASE sendable(s, id, n) < n
  BY <1>2, <1>8, <1>9
<1>10. CASE ~(sendable(s, id, n) < n)
  <2>1. Good(send_all(t, e, id, p))
    BY <1>3, <1>4, <1>5, <1>6, <1>7, <1>10, SendAllGood
  <2>2. QED
    BY <1>2, <1>8, <1>10, <2>1
<1>11. QED
  BY <1>9, <1>10

LEMMA ResetStreamGood ==
    ASSUME NEW s, Good(s), NEW e \in End, NEW id \in s.ids
    PROVE  Good(reset_stream(s, e, id))
<1> DEFINE v == s.streams[id].bytes_sent
           t == send_capsule(s, "WT_RESET_STREAM", id, v)
           f == t.streams[id]
           g == [f EXCEPT !.send_state = "ResetSent", !.pending_sends = <<>>]
           u == [t EXCEPT !.streams[id] = g]
<1>1. id \in StreamId /\ v \in Nat /\ <<>> \in Seq(PendingSend)
  BY GoodFields, StreamFields
<1>2. reset_stream(s, e, id) = maybe_release_stream(
          [t EXCEPT !.streams[id].send_state = "ResetSent",
                    !.streams[id].pending_sends = <<>>], e, id)
  BY DEF reset_stream
<1> HIDE DEF v
<1>3. Good(t)
  BY <1>1, SendCapsule DEF CapsuleType
<1>4. t.ids = s.ids
  BY GoodFields, SendCapsuleFrame
<1> HIDE DEF t
<1>5. u = [t EXCEPT !.streams[id].send_state = "ResetSent",
                    !.streams[id].pending_sends = <<>>]
  BY <1>1, <1>3 DEF Good, WtSessionInfo
<1>6. f \in WtStreamInfo /\ StreamCredit(f)
  BY <1>1, <1>3, <1>4, GoodFields DEF Good
<1> HIDE DEF f
<1>7. g \in WtStreamInfo /\ StreamCredit(g)
  BY <1>1, <1>6 DEF WtStreamInfo, StreamCredit, SendState
<1> HIDE DEF g
<1>8. Good(u)
  BY <1>1, <1>3, <1>7, SetStream
<1> HIDE DEF u
<1>9. QED
  BY <1>1, <1>2, <1>5, <1>8, ReleaseGood

LEMMA StopSendingGood ==
    ASSUME NEW s, Good(s), NEW id \in s.ids
    PROVE  Good(stop_sending(s, id))
<1> DEFINE t == [s EXCEPT !.sent_stop_sending_stream_ids = @ \cup {id}]
<1>1. id \in StreamId
  BY GoodFields
<1>2. Good(t)
  BY <1>1 DEF Good, SessionCredit, WtSessionInfo
<1> HIDE DEF t
<1>3. Good(send_capsule(t, "WT_STOP_SENDING", id, 0))
  BY <1>1, <1>2, SendCapsule DEF CapsuleType
<1>4. QED
  BY <1>3 DEF stop_sending, t

LEMMA SendStreamCapsuleFrame ==
    ASSUME NEW s \in WtSessionInfo, NEW id \in StreamId, NEW p, NEW n
    PROVE  send_stream_capsule(s, id, p, n).streams[id].pending_sends
               = s.streams[id].pending_sends
<1>1. s.streams \in [StreamId -> WtStreamInfo]
  BY DEF WtSessionInfo
<1>2. send_stream_capsule(s, id, p, n).streams
          = [s.streams EXCEPT ![id].bytes_sent = @ + n]
  BY DEF send_stream_capsule, WtSessionInfo
<1>3. s.streams[id] \in WtStreamInfo
  BY <1>1
<1>4. [s.streams EXCEPT ![id].bytes_sent = @ + n][id]
          = [s.streams[id] EXCEPT !.bytes_sent = @ + n]
  BY <1>1
<1>5. QED
  BY <1>2, <1>3, <1>4 DEF WtStreamInfo

LEMMA ReplaceHead ==
    ASSUME NEW q \in Seq(PendingSend), q # <<>>, NEW p \in PendingSend
    PROVE  [q EXCEPT ![1] = p] \in Seq(PendingSend)
OBVIOUS

LEMMA FlushOneGood ==
    ASSUME NEW s, Good(s), NEW e \in End, NEW id \in Flushable(s)
    PROVE  Good(flush_one(s, e, id))
<1> DEFINE q == s.streams[id].pending_sends
           p == Head(q)
           n == sendable(s, id, p.len)
           sent == send_stream_capsule(s, id, p, n)
           popped == [sent EXCEPT !.streams[id].pending_sends = Tail(q)]
           rest == [q EXCEPT ![1] = rest_of_send(p, n)]
<1>1. id \in s.ids /\ id \in StreamId /\ q # <<>> /\ q \in Seq(PendingSend)
  BY GoodFields, StreamFields DEF Flushable
<1>2. p \in PendingSend /\ Tail(q) \in Seq(PendingSend)
  <2> HIDE DEF q
  <2> QED BY <1>1
<1>3. sent.streams[id].pending_sends = q
  BY <1>1, GoodFields, SendStreamCapsuleFrame
<1>4. flush_one(s, e, id) =
          IF n < p.len THEN [sent EXCEPT !.streams[id].pending_sends = rest]
          ELSE IF p.fin THEN finish_sending(popped, e, id) ELSE popped
  <2>1. [sent EXCEPT !.streams[id].pending_sends = Tail(@)] = popped
    BY <1>3
  <2>2. [sent EXCEPT !.streams[id].pending_sends[1] = rest_of_send(p, n)]
            = [sent EXCEPT !.streams[id].pending_sends = rest]
    BY <1>3
  <2>3. QED
    BY <2>1, <2>2 DEF flush_one
<1> HIDE DEF q, p
<1>5. /\ n \in Nat /\ n <= p.len
      /\ s.bytes_sent + n <= s.max_data_local
      /\ s.streams[id].bytes_sent + n <= s.streams[id].max_stream_data_local
  BY <1>1, <1>2, SendableFits DEF PendingSend
<1> HIDE DEF n
<1>6. Good(sent) /\ sent.ids = s.ids
  BY <1>1, <1>2, <1>5, SendStreamCapsuleGood
<1>7. rest \in Seq(PendingSend)
  BY <1>1, <1>2, <1>5, RestOfSend, ReplaceHead
<1> HIDE DEF sent, rest
<1>8. Good([sent EXCEPT !.streams[id].pending_sends = rest]) /\ Good(popped)
  BY <1>1, <1>2, <1>6, <1>7, SetPending
<1>9. popped.ids = s.ids
  BY <1>6 DEF Good, WtSessionInfo
<1> HIDE DEF popped
<1>10. Good(finish_sending(popped, e, id))
  BY <1>1, <1>8, <1>9, FinishGood
<1>11. QED
  BY <1>4, <1>8, <1>10

LEMMA FlushReturnsGood ==
    ASSUME NEW s, Good(s)
    PROVE  Good(flush_returns(s))
<1> DEFINE g(id) == IF s.streams[id].send_state \in SendDone
                    THEN [s.streams[id] EXCEPT !.pending_sends = <<>>]
                    ELSE s.streams[id]
           u == [s EXCEPT !.flushing = FALSE, !.streams = [id \in StreamId |-> g(id)]]
<1>1. ASSUME NEW id \in StreamId
      PROVE  g(id) \in WtStreamInfo /\ (StreamCredit(s.streams[id]) => StreamCredit(g(id)))
  <2>1. s.streams[id] \in WtStreamInfo /\ <<>> \in Seq(PendingSend)
    BY GoodFields
  <2>2. QED
    BY <2>1 DEF WtStreamInfo, StreamCredit
<1>2. flush_returns(s) = u
  BY DEF flush_returns
<1> HIDE DEF g
<1>3. u \in WtSessionInfo
  BY <1>1 DEF Good, WtSessionInfo
<1>4. u.ids = s.ids /\ u.streams = [id \in StreamId |-> g(id)] /\ SessionCredit(u)
  BY DEF Good, SessionCredit, WtSessionInfo
<1> HIDE DEF u
<1>5. QED
  BY <1>1, <1>2, <1>3, <1>4, GoodFields DEF Good

-----------------------------------------------------------------------------
(* Receiving.                                                              *)

LEMMA MaxDataFrame ==
    ASSUME NEW s \in WtSessionInfo, NEW e
    PROVE  maybe_send_max_data(s, e).ids = s.ids
<1> DEFINE updated == raised_limit(s.bytes_received, Config[e].max_data)
           t == [s EXCEPT !.max_data_remote = updated]
<1> HIDE DEF updated
<1>1. send_capsule(t, "WT_MAX_DATA", 0, updated).ids = s.ids
  BY DEF send_capsule, WtSessionInfo
<1> HIDE DEF t
<1>2. QED
  BY <1>1 DEF maybe_send_max_data, t, updated

LEMMA MaxStreamDataFrame ==
    ASSUME NEW s \in WtSessionInfo, NEW e, NEW id
    PROVE  maybe_send_max_stream_data(s, e, id).ids = s.ids
<1> DEFINE updated == raised_limit(s.streams[id].bytes_received, Config[e].max_stream_data)
           t == [s EXCEPT !.streams[id].max_stream_data_remote = updated]
<1> HIDE DEF updated
<1>1. send_capsule(t, "WT_MAX_STREAM_DATA", id, updated).ids = s.ids
  BY DEF send_capsule, WtSessionInfo
<1> HIDE DEF t
<1>2. QED
  BY <1>1 DEF maybe_send_max_stream_data, t, updated

LEMMA NewStreamFrame ==
    ASSUME NEW s \in WtSessionInfo, NEW e, NEW id
    PROVE  LET t == new_stream(s, e, id)
           IN  /\ t.ids = s.ids \cup {id}
               /\ t.bytes_received = s.bytes_received
               /\ t.max_data_remote = s.max_data_remote
BY DEF new_stream, WtSessionInfo

LEMMA PushEventGood ==
    ASSUME NEW s, Good(s), NEW id \in StreamId, NEW n \in Nat,
           NEW reset \in BOOLEAN, NEW fin \in BOOLEAN
    PROVE  LET t == push_event(s, id, n, reset, fin)
           IN  /\ Good(t)
               /\ t.ids = s.ids /\ t.streams = s.streams
               /\ t.bytes_received = s.bytes_received
               /\ t.max_data_remote = s.max_data_remote
<1> DEFINE new == IF s.seen[id] = "live" THEN (IF fin \/ reset THEN "ended" ELSE "live")
                  ELSE IF n > 0 \/ reset THEN "broken"
                  ELSE IF fin /\ s.seen[id] = "ended" THEN "reended" ELSE s.seen[id]
           t == [s EXCEPT !.seen[id] = new]
<1>1. new \in SeenState
  BY DEF Good, WtSessionInfo, SeenState
<1>2. push_event(s, id, n, reset, fin) = t
  BY DEF push_event
<1> HIDE DEF new
<1>3. /\ t.ids = s.ids /\ t.streams = s.streams
      /\ t.bytes_received = s.bytes_received
      /\ t.max_data_remote = s.max_data_remote
  BY DEF Good, WtSessionInfo
<1>4. Good(t)
  BY <1>1 DEF Good, SessionCredit, WtSessionInfo
<1> HIDE DEF t
<1>5. QED
  BY <1>2, <1>3, <1>4

(* The record on which the handlers of data capsules work.                 *)
Known(s, e, c) == IF c.id \in s.ids THEN s ELSE new_stream(s, e, c.id)

LEMMA KnownGood ==
    ASSUME NEW s, Good(s), NEW e \in End, NEW c \in Capsule
    PROVE  /\ Good(Known(s, e, c))
           /\ c.id \in StreamId /\ c.id \in Known(s, e, c).ids
           /\ Known(s, e, c).bytes_received = s.bytes_received
           /\ Known(s, e, c).max_data_remote = s.max_data_remote
<1>1. c.id \in StreamId
  BY DEF Capsule
<1>2. CASE c.id \in s.ids
  BY <1>1, <1>2 DEF Known
<1>3. CASE c.id \notin s.ids
  <2> DEFINE t == new_stream(s, e, c.id)
  <2>1. Good(t)
    BY <1>1, NewStreamGood
  <2>2. /\ t.ids = s.ids \cup {c.id}
        /\ t.bytes_received = s.bytes_received
        /\ t.max_data_remote = s.max_data_remote
    BY GoodFields, NewStreamFrame
  <2> HIDE DEF t
  <2>3. QED
    BY <1>1, <1>3, <2>1, <2>2 DEF Known, t
<1>4. QED
  BY <1>2, <1>3

LEMMA CountGood ==
    ASSUME NEW s, Good(s), NEW id \in s.ids, NEW n \in Nat,
           s.bytes_received + n <= s.max_data_remote,
           s.streams[id].bytes_received + n <= s.streams[id].max_stream_data_remote
    PROVE  LET t == [s EXCEPT !.bytes_received = @ + n,
                              !.streams[id].bytes_received = @ + n]
           IN  Good(t) /\ t.ids = s.ids
<1> DEFINE f == s.streams[id]
           g == [f EXCEPT !.bytes_received = @ + n]
           total == s.bytes_received + n
           u == [s EXCEPT !.bytes_received = total, !.streams[id] = g]
<1>1. f \in WtStreamInfo /\ StreamCredit(f) /\ id \in StreamId
  BY GoodFields DEF Good
<1>2. total \in Nat /\ total <= s.max_data_remote
  BY GoodFields
<1>3. f.bytes_received + n <= f.max_stream_data_remote
  OBVIOUS
<1>4. u = [s EXCEPT !.bytes_received = @ + n, !.streams[id].bytes_received = @ + n]
  OBVIOUS
<1> HIDE DEF total, f
<1>5. g \in WtStreamInfo /\ StreamCredit(g)
  BY <1>1, <1>3, StreamFields DEF WtStreamInfo, StreamCredit
<1> HIDE DEF g
<1>6. u \in WtSessionInfo
  BY <1>1, <1>2, <1>5 DEF Good, WtSessionInfo
<1>7. /\ u.ids = s.ids /\ u.streams = [s.streams EXCEPT ![id] = g]
      /\ SessionCredit(u)
  BY <1>2 DEF Good, SessionCredit, WtSessionInfo
<1>8. Good(u)
  <2> HIDE DEF u
  <2> QED BY <1>1, <1>5, <1>6, <1>7, GoodFields DEF Good
<1> HIDE DEF u
<1>9. QED
  BY <1>4, <1>7, <1>8

LEMMA SetRecvState ==
    ASSUME NEW s, Good(s), NEW id \in s.ids, NEW state \in RecvState
    PROVE  Good([s EXCEPT !.streams[id].recv_state = state])
<1> DEFINE f == s.streams[id]
           g == [f EXCEPT !.recv_state = state]
<1>1. f \in WtStreamInfo /\ StreamCredit(f) /\ id \in StreamId
  BY GoodFields DEF Good
<1>2. g \in WtStreamInfo /\ StreamCredit(g)
  <2> HIDE DEF f
  <2> QED BY <1>1 DEF WtStreamInfo, StreamCredit
<1>3. [s EXCEPT !.streams[id].recv_state = state] = [s EXCEPT !.streams[id] = g]
  OBVIOUS
<1> HIDE DEF g
<1>4. QED
  BY <1>1, <1>2, <1>3, SetStream

(* The verdict accept means that the data fits both limits.                *)
LEMMA AcceptFits ==
    ASSUME NEW s, Good(s), NEW e \in End, NEW c \in Capsule,
           wt_stream_verdict(s, e, c) = "accept"
    PROVE  /\ s.bytes_received + c.len <= s.max_data_remote
           /\ Known(s, e, c).streams[c.id].bytes_received + c.len
                  <= Known(s, e, c).streams[c.id].max_stream_data_remote
<1> DEFINE info == IF c.id \in s.ids THEN s.streams[c.id]
                                     ELSE new_stream(s, e, c.id).streams[c.id]
<1>1. info = Known(s, e, c).streams[c.id]
  BY DEF Known
<1>0. /\ info.bytes_received \in Nat /\ info.max_stream_data_remote \in Nat
      /\ s.bytes_received \in Nat /\ s.max_data_remote \in Nat /\ c.len \in Nat
  <2> HIDE DEF info
  <2>1. info \in WtStreamInfo
    BY <1>1, KnownGood, GoodFields
  <2>2. QED
    BY <2>1, GoodFields, StreamFields DEF Capsule
<1> HIDE DEF info
<1>2. ~ \/ s.bytes_received + c.len > s.max_data_remote
        \/ info.bytes_received + c.len > info.max_stream_data_remote
  BY DEF wt_stream_verdict, info
<1>3. QED
  BY <1>0, <1>1, <1>2

LEMMA HandleWtStreamGood ==
    ASSUME NEW s, Good(s), NEW e \in End, NEW c \in Capsule,
           wt_stream_verdict(s, e, c) = "accept"
    PROVE  Good(handle_wt_stream(s, e, c))
<1> DEFINE fin   == c.type = "WT_STREAM_FIN"
           known == Known(s, e, c)
           told  == push_event(known, c.id, c.len, FALSE, fin)
           count == [told EXCEPT !.bytes_received = @ + c.len,
                                 !.streams[c.id].bytes_received = @ + c.len]
           data  == maybe_send_max_data(count, e)
           grant == maybe_send_max_stream_data(data, e, c.id)
           done  == [grant EXCEPT !.streams[c.id].recv_state = "DataRecvd"]
<1>1. c.len \in Nat /\ c.id \in StreamId
  BY DEF Capsule
<1>2. /\ Good(known) /\ c.id \in known.ids
      /\ known.bytes_received + c.len <= known.max_data_remote
      /\ known.streams[c.id].bytes_received + c.len
             <= known.streams[c.id].max_stream_data_remote
  BY KnownGood, AcceptFits
<1>3. handle_wt_stream(s, e, c) =
          IF fin THEN maybe_release_stream(done, e, c.id) ELSE grant
  BY DEF handle_wt_stream, Known
<1> HIDE DEF known
<1>4. /\ Good(told) /\ c.id \in told.ids
      /\ told.bytes_received + c.len <= told.max_data_remote
      /\ told.streams[c.id].bytes_received + c.len
             <= told.streams[c.id].max_stream_data_remote
  BY <1>1, <1>2, PushEventGood, ZenonT(60)
<1> HIDE DEF told
<1>5. Good(count) /\ c.id \in count.ids
  BY <1>1, <1>4, CountGood
<1> HIDE DEF count
<1>6. Good(data) /\ c.id \in data.ids
  BY <1>5, MaxDataGood, MaxDataFrame, GoodFields
<1> HIDE DEF data
<1>7. Good(grant) /\ c.id \in grant.ids
  BY <1>6, MaxStreamDataGood, MaxStreamDataFrame, GoodFields
<1> HIDE DEF grant
<1>8. Good(done)
  BY <1>7, SetRecvState DEF RecvState
<1> HIDE DEF done
<1>9. Good(maybe_release_stream(done, e, c.id))
  BY <1>1, <1>8, ReleaseGood
<1>10. QED
  BY <1>3, <1>7, <1>9

LEMMA HandleWtResetStreamGood ==
    ASSUME NEW s, Good(s), NEW e \in End, NEW c \in Capsule
    PROVE  Good(handle_wt_reset_stream(s, e, c))
<1> DEFINE known == Known(s, e, c)
           told  == push_event(known, c.id, 0, TRUE, FALSE)
           done  == [told EXCEPT !.streams[c.id].recv_state = "ResetRecvd"]
<1>1. c.id \in StreamId /\ Good(known) /\ c.id \in known.ids
  BY KnownGood
<1>2. handle_wt_reset_stream(s, e, c) = maybe_release_stream(done, e, c.id)
  BY DEF handle_wt_reset_stream, Known
<1> HIDE DEF known
<1>3. Good(told) /\ c.id \in told.ids
  BY <1>1, PushEventGood
<1> HIDE DEF told
<1>4. Good(done)
  BY <1>3, SetRecvState DEF RecvState
<1> HIDE DEF done
<1>5. QED
  BY <1>1, <1>2, <1>4, ReleaseGood

LEMMA HandleWtStopSendingGood ==
    ASSUME NEW s, Good(s), NEW e \in End, NEW c \in Capsule
    PROVE  Good(handle_wt_stop_sending(s, e, c))
<1> DEFINE ids == IF Cardinality(s.received_stop_sending_stream_ids) < kMaxReceivedMapEntries
                  THEN s.received_stop_sending_stream_ids \cup {c.id}
                  ELSE s.received_stop_sending_stream_ids
           noted == [s EXCEPT !.received_stop_sending_stream_ids = ids]
           marked == [noted EXCEPT !.streams[c.id].stop_sending_received = TRUE]
<1>1. c.id \in StreamId
  BY DEF Capsule
<1>2. ids \subseteq StreamId
  BY <1>1 DEF Good, WtSessionInfo
<1>3. handle_wt_stop_sending(s, e, c) =
          IF c.id \notin s.ids THEN noted
          ELSE IF s.streams[c.id].send_state \in SendDone THEN marked
          ELSE reset_stream(marked, e, c.id)
  BY DEF handle_wt_stop_sending
<1> HIDE DEF ids
<1>4. Good(noted) /\ noted.ids = s.ids
  BY <1>2 DEF Good, SessionCredit, WtSessionInfo
<1> HIDE DEF noted
<1>5. ASSUME c.id \in s.ids
      PROVE  Good(marked) /\ marked.ids = s.ids
  <2> DEFINE f == noted.streams[c.id]
             g == [f EXCEPT !.stop_sending_received = TRUE]
  <2>1. f \in WtStreamInfo /\ StreamCredit(f)
    BY <1>1, <1>4, <1>5, GoodFields DEF Good
  <2>2. marked = [noted EXCEPT !.streams[c.id] = g]
    OBVIOUS
  <2>3. marked.ids = s.ids
    BY <1>4 DEF Good, WtSessionInfo
  <2> HIDE DEF f
  <2>4. g \in WtStreamInfo /\ StreamCredit(g)
    BY <2>1 DEF WtStreamInfo, StreamCredit
  <2> HIDE DEF g, marked
  <2>5. QED
    BY <1>1, <1>4, <2>2, <2>3, <2>4, SetStream
<1> HIDE DEF marked
<1>6. ASSUME c.id \in s.ids PROVE Good(reset_stream(marked, e, c.id))
  BY <1>5, <1>6, ResetStreamGood
<1>7. QED
  BY <1>3, <1>4, <1>5, <1>6

LEMMA HandleWtMaxDataGood ==
    ASSUME NEW s, Good(s), NEW c \in Capsule
    PROVE  Good(handle_wt_max_data(s, c))
<1>1. c.val \in Nat
  BY DEF Capsule
<1> DEFINE noted == [s EXCEPT !.received_max_data = c.val]
<1>2. Good(noted) /\ noted.max_data_local = s.max_data_local
  BY <1>1 DEF Good, SessionCredit, WtSessionInfo
<1> HIDE DEF noted
<1>3. ASSUME c.val > s.max_data_local
      PROVE  Good([noted EXCEPT !.max_data_local = c.val, !.data_blocked_sent = FALSE,
                                !.flushing = TRUE])
  <2> DEFINE u == [noted EXCEPT !.max_data_local = c.val, !.data_blocked_sent = FALSE,
                                !.flushing = TRUE]
  <2>1. u \in WtSessionInfo
    BY <1>1, <1>2 DEF Good, WtSessionInfo
  <2>2. /\ u.bytes_sent = noted.bytes_sent /\ u.max_data_local = c.val
        /\ u.bytes_received = noted.bytes_received
        /\ u.max_data_remote = noted.max_data_remote
        /\ u.ids = noted.ids /\ u.streams = noted.streams
    BY <1>2 DEF Good, WtSessionInfo
  <2>3. noted.bytes_sent <= c.val
    BY <1>1, <1>2, <1>3, GoodFields DEF Good, SessionCredit
  <2> HIDE DEF u
  <2>4. Good(u)
    BY <1>2, <2>1, <2>2, <2>3 DEF Good, SessionCredit
  <2>5. QED
    BY <2>4 DEF u
<1>4. QED
  BY <1>2, <1>3 DEF handle_wt_max_data, noted

LEMMA HandleWtMaxStreamDataGood ==
    ASSUME NEW s, Good(s), NEW c \in Capsule
    PROVE  Good(handle_wt_max_stream_data(s, c))
<1>1. c.val \in Nat /\ c.id \in StreamId
  BY DEF Capsule
<1> DEFINE noted == [s EXCEPT !.received_max_stream_data_by_id[c.id] = c.val]
           kept == IF \/ c.id \in received_ids(s)
                      \/ Cardinality(received_ids(s)) < kMaxReceivedMapEntries
                   THEN noted ELSE s
<1>2. Good(noted) /\ noted.ids = s.ids /\ noted.streams = s.streams
  BY <1>1 DEF Good, SessionCredit, WtSessionInfo
<1> HIDE DEF noted
<1>3. Good(kept) /\ kept.ids = s.ids /\ kept.streams = s.streams
  BY <1>2
<1>4. handle_wt_max_stream_data(s, c) =
          IF c.id \in s.ids /\ c.val > s.streams[c.id].max_stream_data_local
          THEN [kept EXCEPT !.streams[c.id].max_stream_data_local = c.val,
                            !.streams[c.id].stream_data_blocked_sent = FALSE,
                            !.flushing = TRUE]
          ELSE kept
  BY DEF handle_wt_max_stream_data, noted
<1> HIDE DEF kept
<1>5. ASSUME c.id \in s.ids, c.val > s.streams[c.id].max_stream_data_local
      PROVE  Good([kept EXCEPT !.streams[c.id].max_stream_data_local = c.val,
                               !.streams[c.id].stream_data_blocked_sent = FALSE,
                               !.flushing = TRUE])
  <2> DEFINE f == kept.streams[c.id]
             g == [f EXCEPT !.max_stream_data_local = c.val,
                            !.stream_data_blocked_sent = FALSE]
             t == [kept EXCEPT !.streams[c.id] = g]
  <2>1. f \in WtStreamInfo /\ StreamCredit(f) /\ c.val > f.max_stream_data_local
    BY <1>1, <1>3, <1>5, GoodFields DEF Good
  <2>2. [kept EXCEPT !.streams[c.id].max_stream_data_local = c.val,
                     !.streams[c.id].stream_data_blocked_sent = FALSE,
                     !.flushing = TRUE] = [t EXCEPT !.flushing = TRUE]
    <3>1. [kept EXCEPT !.streams[c.id].max_stream_data_local = c.val,
                       !.streams[c.id].stream_data_blocked_sent = FALSE] = t
      BY <1>1, <1>3 DEF Good, WtSessionInfo
    <3> HIDE DEF t
    <3>2. QED
      BY <3>1
  <2> HIDE DEF f
  <2>3. g \in WtStreamInfo /\ StreamCredit(g)
    <3>1. g \in WtStreamInfo
      BY <1>1, <2>1 DEF WtStreamInfo
    <3>2. /\ g.bytes_sent = f.bytes_sent /\ g.max_stream_data_local = c.val
          /\ g.bytes_received = f.bytes_received
          /\ g.max_stream_data_remote = f.max_stream_data_remote
      BY <2>1 DEF WtStreamInfo
    <3> HIDE DEF g
    <3>3. QED
      BY <1>1, <2>1, <3>1, <3>2, StreamFields DEF StreamCredit
  <2> HIDE DEF g
  <2>4. Good(t)
    BY <1>1, <1>3, <2>3, SetStream
  <2> HIDE DEF t
  <2>5. Good([t EXCEPT !.flushing = TRUE])
    BY <2>4 DEF Good, SessionCredit, WtSessionInfo
  <2>6. QED
    BY <2>2, <2>5
<1>6. QED
  BY <1>3, <1>4, <1>5

LEMMA HandleWtMaxStreamsGood ==
    ASSUME NEW s, Good(s), NEW c \in Capsule
    PROVE  Good(handle_wt_max_streams(s, c))
<1> DEFINE d == dir_of_capsule(c)
           noted == [s EXCEPT !.received_max_streams[d] = c.val]
<1>1. c.val \in Nat /\ d \in Dir
  BY DEF Capsule, dir_of_capsule, Dir
<1> HIDE DEF d
<1>2. Good(noted)
  BY <1>1 DEF Good, SessionCredit, WtSessionInfo
<1> HIDE DEF noted
<1>3. Good([noted EXCEPT !.max_streams_local[d] = c.val,
                         !.streams_blocked_sent = @ \ {d}])
  BY <1>1, <1>2 DEF Good, SessionCredit, WtSessionInfo
<1>4. QED
  BY <1>2, <1>3 DEF handle_wt_max_streams, noted, d

LEMMA HandleWtCloseSessionGood ==
    ASSUME NEW s, Good(s)
    PROVE  Good(handle_wt_close_session(s))
<1>1. <<>> \in Seq(Capsule)
  OBVIOUS
<1>2. QED
  BY <1>1 DEF handle_wt_close_session, Good, SessionCredit, WtSessionInfo, Status

-----------------------------------------------------------------------------
(* The inductive invariant: well typed, and at every end that runs this    *)
(* code the session and each of its streams are within their limits.       *)
Inv == /\ TypeOK
       /\ \A e \in Impl : Good(wt[e])

LEMMA ImplEnd == \A e \in Impl : e \in End /\ Peer(e) \in End /\ Peer(e) # e
BY ImplAssumption DEF End, Peer

LEMMA InitInv == Init => Inv
<1> SUFFICES ASSUME Init PROVE Inv
  OBVIOUS
<1>1. ASSUME NEW e \in End PROVE Good(InitialSession(e))
  <2> DEFINE own == Config[e]
             peer == Config[Peer(e)]
  <2>1. /\ own \in [max_data : Nat, max_stream_data : Nat, max_streams : [Dir -> Nat]]
        /\ peer \in [max_data : Nat, max_stream_data : Nat, max_streams : [Dir -> Nat]]
    BY ConfigAssumption DEF End, Peer
  <2>2. /\ <<>> \in Seq(Capsule)
        /\ [id \in StreamId |-> NoStream] \in [StreamId -> WtStreamInfo]
        /\ [id \in StreamId |-> Absent] \in [StreamId -> Nat \cup {Absent}]
        /\ [id \in StreamId |-> "live"] \in [StreamId -> SeenState]
        /\ [d \in Dir |-> 0] \in [Dir -> Nat]
    BY NoStreamType DEF SeenState
  <2> HIDE DEF own, peer
  <2> DEFINE s == InitialSession(e)
  <2>3. s \in WtSessionInfo
    BY <2>1, <2>2 DEF InitialSession, WtSessionInfo, Status, Reason, own, peer
  <2>4. /\ s.bytes_sent = 0 /\ s.bytes_received = 0 /\ s.ids = {}
        /\ s.max_data_local \in Nat /\ s.max_data_remote \in Nat
    BY <2>3 DEF InitialSession, WtSessionInfo
  <2> HIDE DEF s
  <2>5. QED
    BY <2>3, <2>4 DEF Good, SessionCredit, s
<1>2. wt \in [End -> WtSessionInfo]
  BY <1>1 DEF Init, Good
<1>3. calls \in [End -> Nat]
  BY DEF Init
<1>4. \A e \in Impl : Good(wt[e])
  BY <1>1, ImplEnd DEF Init
<1>5. QED
  BY <1>2, <1>3, <1>4 DEF Inv, TypeOK

(* A step of e that leaves the peer alone.                                 *)
LEMMA SetSession ==
    ASSUME Inv, NEW e \in Impl, NEW s, Good(s),
           wt' = [wt EXCEPT ![e] = s], calls' \in [End -> Nat]
    PROVE  Inv'
<1>1. wt \in [End -> WtSessionInfo] /\ s \in WtSessionInfo /\ e \in End
  BY ImplEnd DEF Inv, TypeOK, Good
<1>2. wt' \in [End -> WtSessionInfo]
  BY <1>1
<1>3. \A o \in Impl : Good(wt[o]) /\ o \in End
  BY ImplEnd DEF Inv
<1>4. \A o \in Impl : Good(wt'[o])
  <2> SUFFICES ASSUME NEW o \in Impl PROVE Good(wt'[o])
    OBVIOUS
  <2>1. CASE o = e
    BY <1>1, <2>1
  <2>2. CASE o # e
    BY <1>1, <1>3, <2>2
  <2>3. QED
    BY <2>1, <2>2
<1>5. QED
  BY <1>2, <1>4 DEF Inv, TypeOK

LEMMA CallInv ==
    ASSUME Inv, NEW e \in Impl, NEW s, Good(s), Call(e, s)
    PROVE  Inv'
<1>1. calls' \in [End -> Nat]
  BY ImplEnd DEF Call, Inv, TypeOK
<1>2. QED
  BY <1>1, SetSession DEF Call

(* A capsule leaves the peer's queue, whoever the peer is.                 *)
LEMMA ReceiveInv ==
    ASSUME Inv, NEW e \in Impl, wt[Peer(e)].out # <<>>,
           NEW s, Good(s), Receive(e, s)
    PROVE  Inv'
<1> DEFINE p == Peer(e)
           q == Tail(wt[p].out)
           t == [wt[p] EXCEPT !.out = q]
<1>1. /\ wt \in [End -> WtSessionInfo] /\ s \in WtSessionInfo
      /\ e \in End /\ p \in End /\ p # e
  BY ImplEnd DEF Inv, TypeOK, Good
<1>2. q \in Seq(Capsule)
  <2>1. wt[p].out \in Seq(Capsule)
    BY <1>1 DEF WtSessionInfo
  <2>2. QED
    BY <2>1
<1>5. wt' = [[wt EXCEPT ![p] = t] EXCEPT ![e] = s]
  BY DEF Receive
<1>7. \A o \in Impl : o = e \/ o = p
  BY ImplAssumption DEF End, Peer
<1> HIDE DEF p, q
<1>3. t \in WtSessionInfo
  BY <1>1, <1>2, SetOutType
<1>4. p \in Impl => Good(t)
  BY <1>2, SetOut DEF Inv
<1> HIDE DEF t
<1>6. wt' \in [End -> WtSessionInfo]
  BY <1>1, <1>3, <1>5
<1>8. wt'[e] = s /\ wt'[p] = t
  BY <1>1, <1>5
<1>9. \A o \in Impl : Good(wt'[o])
  BY <1>4, <1>7, <1>8
<1>10. calls' \in [End -> Nat]
  BY DEF Receive, Inv, TypeOK
<1>11. QED
  BY <1>6, <1>9, <1>10 DEF Inv, TypeOK

LEMMA UntrustedType ==
    ASSUME NEW types \in SUBSET CapsuleType, NEW ids \in SUBSET StreamId,
           NEW lens \in SUBSET Nat, NEW vals \in SUBSET Nat, NEW forms \in SUBSET Form
    PROVE  Untrusted(types, ids, lens, vals, forms) \subseteq Capsule
<1> SUFFICES ASSUME NEW c \in Untrusted(types, ids, lens, vals, forms)
             PROVE  c \in Capsule
  OBVIOUS
<1>1. /\ c \in [type : types, id : ids, len : lens, val : vals, form : forms,
                off : {0}, at : {0}]
      /\ {0} \subseteq Nat
  BY DEF Untrusted
<1>2. QED
  BY <1>1 DEF Capsule

LEMMA PeerCapsulesType == PeerCapsules \subseteq Capsule
<1>1. /\ PeerIds \in SUBSET StreamId /\ PeerLens \in SUBSET Nat
      /\ PeerVals \in SUBSET Nat /\ {0} \in SUBSET Nat /\ {0} \in SUBSET StreamId
  BY BoundAssumption, ZeroId DEF StreamId
<1>2. /\ {"ok"} \in SUBSET Form /\ {"ok", "range"} \in SUBSET Form
      /\ Form \in SUBSET Form
  BY DEF Form
<1>3. /\ StreamCapsules \in SUBSET CapsuleType
      /\ {"WT_RESET_STREAM"} \in SUBSET CapsuleType
      /\ {"WT_STOP_SENDING"} \in SUBSET CapsuleType
      /\ {"WT_MAX_STREAM_DATA"} \in SUBSET CapsuleType
      /\ {"WT_STREAM_DATA_BLOCKED"} \in SUBSET CapsuleType
      /\ {"WT_MAX_DATA", "WT_DATA_BLOCKED"} \cup MaxStreamsCapsules
             \cup StreamsBlockedCapsules \in SUBSET CapsuleType
      /\ {"WT_CLOSE_SESSION"} \in SUBSET CapsuleType
  BY DEF CapsuleType
<1>4. /\ Untrusted(StreamCapsules, PeerIds, PeerLens, {0}, {"ok"}) \subseteq Capsule
      /\ Untrusted({"WT_RESET_STREAM"}, PeerIds, {0}, PeerVals, {"ok", "range"})
             \subseteq Capsule
      /\ Untrusted({"WT_STOP_SENDING"}, PeerIds, {0}, {0}, {"ok", "range"})
             \subseteq Capsule
      /\ Untrusted({"WT_MAX_STREAM_DATA"}, PeerIds, {0}, PeerVals, {"ok"})
             \subseteq Capsule
      /\ Untrusted({"WT_STREAM_DATA_BLOCKED"}, PeerIds, {0}, {0}, {"ok"})
             \subseteq Capsule
      /\ Untrusted({"WT_MAX_DATA", "WT_DATA_BLOCKED"} \cup MaxStreamsCapsules
                       \cup StreamsBlockedCapsules, {0}, {0}, PeerVals, {"ok"})
             \subseteq Capsule
      /\ Untrusted({"WT_CLOSE_SESSION"}, {0}, {0}, {0}, Form) \subseteq Capsule
  BY <1>1, <1>2, <1>3, UntrustedType
<1>5. QED
  BY <1>4 DEF PeerCapsules

LEMMA PeerSendsInv ==
    ASSUME Inv, NEW p \in End, NEW c \in PeerCapsules, PeerSends(p, c)
    PROVE  Inv'
<1> DEFINE e == Peer(p)
           a == [wt[p] EXCEPT !.out = <<c>>]
           b == [wt[e] EXCEPT !.out = <<>>]
<1>1. /\ wt \in [End -> WtSessionInfo] /\ e \in End /\ p # e /\ p \notin Impl
  BY DEF Inv, TypeOK, End, Peer, PeerSends
<1>2. <<c>> \in Seq(Capsule) /\ <<>> \in Seq(Capsule)
  BY PeerCapsulesType
<1>3. a \in WtSessionInfo /\ b \in WtSessionInfo
  BY <1>1, <1>2, SetOutType
<1>4. e \in Impl => Good(b)
  BY <1>2, SetOut DEF Inv
<1>5. wt' = [[wt EXCEPT ![p] = a] EXCEPT ![e] = b]
  BY <1>1 DEF PeerSends
<1>6. \A o \in Impl : o = e
  BY <1>1, ImplAssumption DEF End, Peer
<1> HIDE DEF a, b, e
<1>7. wt' \in [End -> WtSessionInfo] /\ wt'[e] = b
  BY <1>1, <1>3, <1>5
<1>8. calls' \in [End -> Nat]
  BY DEF PeerSends, Inv, TypeOK
<1>9. QED
  BY <1>4, <1>6, <1>7, <1>8 DEF Inv, TypeOK

(* The calls of the application.                                           *)
LEMMA CallsInv ==
    ASSUME Inv, NEW e \in End, ApplicationCall(e)
    PROVE  Inv'
<1>1. e \in Impl
  BY DEF ApplicationCall, OpenStream, OpenStreamBlocked, SendStreamData, ResetStream,
         StopSending, CloseSession, Callable
<1> DEFINE s == wt[e]
<1>2. Good(s)
  BY <1>1 DEF Inv
<1>3. ASSUME NEW d \in Dir, OpenStream(e, d) PROVE Inv'
  <2> DEFINE id == build_stream_id(e, d, s.streams_opened[d])
             t == new_stream(s, e, id)
             u == [t EXCEPT !.streams_opened[d] = @ + 1, !.seen[id] = "live"]
  <2>1. Call(e, u)
    BY <1>3 DEF OpenStream
  <2>2. id \in StreamId
    <3>1. s.streams_opened[d] \in Nat /\ s.streams_opened[d] < MaxStreamCount
      BY <1>2, <1>3 DEF OpenStream, Good, WtSessionInfo
    <3>2. QED
      BY <3>1, BoundAssumption DEF build_stream_id, StreamId
  <2> HIDE DEF id
  <2>3. Good(t)
    BY <1>2, <2>2, NewStreamGood
  <2> HIDE DEF t
  <2>4. Good(u)
    <3> DEFINE opened == [t.streams_opened EXCEPT ![d] = @ + 1]
               seen == [t.seen EXCEPT ![id] = "live"]
    <3>0. opened \in [Dir -> Nat] /\ seen \in [StreamId -> SeenState]
      BY <2>2, <2>3 DEF Good, WtSessionInfo, SeenState
    <3>1. u \in WtSessionInfo
      <4>1. u = [t EXCEPT !.streams_opened = opened, !.seen = seen]
        OBVIOUS
      <4> HIDE DEF opened, seen, u
      <4>2. QED
        BY <2>3, <3>0, <4>1 DEF Good, WtSessionInfo
    <3>2. /\ u.ids = t.ids /\ u.streams = t.streams
          /\ u.bytes_sent = t.bytes_sent /\ u.max_data_local = t.max_data_local
          /\ u.bytes_received = t.bytes_received
          /\ u.max_data_remote = t.max_data_remote
      BY <2>3 DEF Good, WtSessionInfo
    <3> HIDE DEF u
    <3>3. QED
      BY <2>3, <3>1, <3>2 DEF Good, SessionCredit
  <2> HIDE DEF u
  <2>5. QED
    BY <1>1, <2>1, <2>4, CallInv
<1>4. ASSUME NEW d \in Dir, OpenStreamBlocked(e, d) PROVE Inv'
  <2> DEFINE type == IF d = "uni" THEN "WT_STREAMS_BLOCKED_UNI"
                                  ELSE "WT_STREAMS_BLOCKED_BIDI"
             t == send_capsule(s, type, 0, s.max_streams_local[d])
             u == [t EXCEPT !.streams_blocked_sent = @ \cup {d}]
  <2>1. Call(e, u)
    BY <1>4 DEF OpenStreamBlocked
  <2>2. type \in CapsuleType
    BY DEF CapsuleType, StreamsBlockedCapsules
  <2> HIDE DEF type, s
  <2>3. s.max_streams_local[d] \in Nat
    BY <1>2, GoodFields
  <2>4. Good(t)
    BY <1>2, <2>2, <2>3, SendCapsule, ZeroId
  <2> HIDE DEF t
  <2>5. Good(u)
    BY <2>4 DEF Good, SessionCredit, WtSessionInfo
  <2> HIDE DEF u
  <2>6. QED
    BY <1>1, <2>1, <2>5, CallInv
<1>5. ASSUME NEW id \in StreamId, NEW n \in WriteSizes, NEW fin \in BOOLEAN,
             SendStreamData(e, id, n, fin)
      PROVE  Inv'
  <2>1. n \in Nat /\ id \in s.ids
    BY <1>5, BoundAssumption DEF SendStreamData
  <2>2. Good(send_stream_data(s, e, id, n, fin))
    BY <1>2, <2>1, SendStreamDataGood
  <2>3. Call(e, send_stream_data(s, e, id, n, fin))
    BY <1>5 DEF SendStreamData
  <2>4. QED
    BY <1>1, <2>2, <2>3, CallInv
<1>6. ASSUME NEW id \in StreamId, ResetStream(e, id) PROVE Inv'
  <2>1. id \in s.ids /\ Call(e, reset_stream(s, e, id))
    BY <1>6 DEF ResetStream
  <2>2. Good(reset_stream(s, e, id))
    BY <1>2, <2>1, ResetStreamGood
  <2>3. QED
    BY <1>1, <2>1, <2>2, CallInv
<1>7. ASSUME NEW id \in StreamId, StopSending(e, id) PROVE Inv'
  <2>1. id \in s.ids /\ Call(e, stop_sending(s, id))
    BY <1>7 DEF StopSending
  <2>2. Good(stop_sending(s, id))
    BY <1>2, <2>1, StopSendingGood
  <2>3. QED
    BY <1>1, <2>1, <2>2, CallInv
<1>8. CASE CloseSession(e)
  <2>1. Good(close_session(s, "app"))
    BY <1>2, CloseSessionGood DEF Reason
  <2>2. QED
    BY <1>1, <1>8, <2>1, CallInv DEF CloseSession
<1>9. QED
  BY <1>3, <1>4, <1>5, <1>6, <1>7, <1>8 DEF ApplicationCall

(* The capsules that arrive.                                               *)
LEMMA CapsulesInv ==
    ASSUME Inv, NEW e \in End, ProcessCapsule(e)
    PROVE  Inv'
<1> DEFINE s == wt[e]
           c == Arriving(e)
<1>1. e \in Impl /\ wt[Peer(e)].out # <<>>
  BY DEF ProcessCapsule, HandleWtStream, HandleWtResetStream, HandleWtStopSending,
         HandleWtMaxData, HandleWtMaxStreamData, HandleWtMaxStreams,
         HandleWtCloseSession, IgnoreCapsule, RefuseMalformed, RefuseCapsule,
         Accepts, Arrives
<1>2. Good(s)
  BY <1>1 DEF Inv
<1>3. c \in Capsule
  <2>1. wt[Peer(e)].out \in Seq(Capsule)
    BY <1>1, ImplEnd DEF Inv, TypeOK, WtSessionInfo
  <2>2. QED
    BY <1>1, <2>1 DEF Arriving
<1>4. CASE HandleWtStream(e)
  <2>1. wt_stream_verdict(s, e, c) = "accept"
    <3>1. process_capsule(s, e, c) = "accept" /\ c.type \in StreamCapsules
      BY <1>4 DEF HandleWtStream, Accepts, Arrives
    <3> HIDE DEF s, c
    <3>2. capsule_verdict(s, e, c) = "accept"
      BY <3>1 DEF process_capsule
    <3>3. capsule_verdict(s, e, c) = wt_stream_verdict(s, e, c)
      BY <3>1 DEF capsule_verdict, StreamCapsules, MaxStreamsCapsules,
                  StreamsBlockedCapsules
    <3>4. QED
      BY <3>2, <3>3
  <2>2. Receive(e, handle_wt_stream(s, e, c))
    BY <1>4 DEF HandleWtStream
  <2> HIDE DEF s, c
  <2>3. Good(handle_wt_stream(s, e, c))
    BY <1>2, <1>3, <2>1, HandleWtStreamGood
  <2>4. QED
    BY <1>1, <2>2, <2>3, ReceiveInv
<1>5. CASE HandleWtResetStream(e)
  BY <1>1, <1>2, <1>3, <1>5, HandleWtResetStreamGood, ReceiveInv DEF HandleWtResetStream
<1>6. CASE HandleWtStopSending(e)
  BY <1>1, <1>2, <1>3, <1>6, HandleWtStopSendingGood, ReceiveInv DEF HandleWtStopSending
<1>7. CASE HandleWtMaxData(e)
  BY <1>1, <1>2, <1>3, <1>7, HandleWtMaxDataGood, ReceiveInv DEF HandleWtMaxData
<1>8. CASE HandleWtMaxStreamData(e)
  BY <1>1, <1>2, <1>3, <1>8, HandleWtMaxStreamDataGood, ReceiveInv
  DEF HandleWtMaxStreamData
<1>9. CASE HandleWtMaxStreams(e)
  BY <1>1, <1>2, <1>3, <1>9, HandleWtMaxStreamsGood, ReceiveInv DEF HandleWtMaxStreams
<1>10. CASE HandleWtCloseSession(e)
  BY <1>1, <1>2, <1>10, HandleWtCloseSessionGood, ReceiveInv DEF HandleWtCloseSession
<1>11. CASE IgnoreCapsule(e)
  BY <1>1, <1>2, <1>11, ReceiveInv DEF IgnoreCapsule
<1>12. CASE RefuseMalformed(e)
  BY <1>1, <1>2, <1>12, MalformedGood, ReceiveInv DEF RefuseMalformed
<1>13. CASE RefuseCapsule(e)
  <2> DEFINE why == process_capsule(s, e, c)
  <2>1. why \in Reason
    BY <1>13 DEF RefuseCapsule, Arrives, Reason
  <2>2. Receive(e, close_session(s, why))
    BY <1>13 DEF RefuseCapsule
  <2> HIDE DEF why
  <2>3. Good(close_session(s, why))
    BY <1>2, <2>1, CloseSessionGood
  <2>4. QED
    BY <1>1, <2>2, <2>3, ReceiveInv
<1>14. QED
  BY <1>4, <1>5, <1>6, <1>7, <1>8, <1>9, <1>10, <1>11, <1>12, <1>13 DEF ProcessCapsule

LEMMA FlushInv ==
    ASSUME Inv, NEW e \in End, Flush(e)
    PROVE  Inv'
<1>1. e \in Impl /\ UNCHANGED calls
  BY DEF Flush, FlushPendingSends, FlushReturns
<1>2. Good(wt[e]) /\ calls' \in [End -> Nat]
  BY <1>1 DEF Inv, TypeOK
<1>3. CASE FlushPendingSends(e)
  <2>1. PICK id \in Flushable(wt[e]) : wt' = [wt EXCEPT ![e] = flush_one(wt[e], e, id)]
    BY <1>3 DEF FlushPendingSends
  <2>2. Good(flush_one(wt[e], e, id))
    BY <1>2, FlushOneGood
  <2>3. QED
    BY <1>1, <1>2, <2>1, <2>2, SetSession
<1>4. CASE FlushReturns(e)
  <2>1. Good(flush_returns(wt[e]))
    BY <1>2, FlushReturnsGood
  <2>2. QED
    BY <1>1, <1>2, <1>4, <2>1, SetSession DEF FlushReturns
<1>5. QED
  BY <1>3, <1>4 DEF Flush

LEMMA NextInv == Inv /\ [Next]_vars => Inv'
<1> SUFFICES ASSUME Inv, [Next]_vars PROVE Inv'
  OBVIOUS
<1>1. CASE UNCHANGED vars
  BY <1>1 DEF Inv, TypeOK, vars
<1>2. CASE Next
  BY <1>2, CapsulesInv, FlushInv, CallsInv, PeerSendsInv DEF Next
<1>3. QED
  BY <1>1, <1>2

LEMMA InvHolds == Spec => []Inv
BY InitInv, NextInv, PTL DEF Spec

-----------------------------------------------------------------------------
(* The session records of both ends stay well typed, whatever capsules     *)
(* arrive: in particular no subtraction of send_stream_data and            *)
(* flush_pending_sends goes below zero.                                    *)
THEOREM TypeCorrect == Spec => []TypeOK
<1>1. Inv => TypeOK
  BY DEF Inv
<1>2. QED
  BY <1>1, InvHolds, PTL

(* For every configuration, any number of streams and calls and against    *)
(* any peer: no end running this code sends more than it was allowed to,   *)
(* on a stream or in the session, or accepts more than it advertised.      *)
THEOREM CreditAlwaysRespected == Spec => []CreditRespected
<1>1. Inv => CreditRespected
  BY DEF Inv, Good, SessionCredit, StreamCredit, CreditRespected
<1>2. QED
  BY <1>1, InvHolds, PTL

-----------------------------------------------------------------------------
(* Part 2.  Each function of the source gets a lemma on the fields these   *)
(* properties read; the types of the records come from part 1.             *)

(* The invariant of one end, whoever its peer is.                          *)

(* flush_pending_sends runs only in a session that is open.                *)
Quiet(s) == s.flushing => s.status = "open"

(* bytes_sent and the queue account for what the application has written.  *)
Accounted(f) ==
    LET q == f.pending_sends
    IN  /\ q # <<>> =>
             /\ f.send_state = "Ready"
             /\ q[1].off = f.bytes_sent
             /\ \A i \in 1 .. Len(q) :
                   q[i].off + q[i].len =
                       IF i < Len(q) THEN q[i + 1].off ELSE f.written
             /\ \A i \in 1 .. Len(q) - 1 : ~q[i].fin
        /\ (q = <<>> /\ f.send_state = "Ready") => f.bytes_sent = f.written

AllAccounted(s) == \A id \in s.ids : Accounted(s.streams[id])

NotFull(s) == Cardinality(s.released_stream_ids) < kMaxReceivedMapEntries

(* A stream whose end was reported is finished, or released and known as   *)
(* such.                                                                   *)
Over(s, id) == IF id \in s.ids THEN s.streams[id].recv_state \in RecvDone
                               ELSE id \in s.released_stream_ids

Heard(e, s) ==
    \A id \in StreamId :
        s.seen[id] # "live" => /\ is_receivable_data_capsule(e, id)
                               /\ s.seen[id] # "broken"
                               /\ Over(s, id)

(* The streams of the peer: those in the map and those released are        *)
(* different streams below the limit, and a limit is above the configured  *)
(* one by no more than the streams released.                               *)
Remote(e, d, ids) == {id \in ids : DirOf(id) = d /\ ~is_local(e, id)}

Below(e, s, d) == {id \in StreamId : /\ DirOf(id) = d /\ ~is_local(e, id)
                                     /\ id \div 4 < s.max_streams_remote[d]}

Places(e, s) ==
    \A d \in Dir :
        /\ Remote(e, d, s.ids) \subseteq Below(e, s, d)
        /\ Remote(e, d, s.released_stream_ids) \subseteq Below(e, s, d)
        /\ Remote(e, d, s.ids) \cap Remote(e, d, s.released_stream_ids) = {}
        /\ s.max_streams_remote[d] <=
               Config[e].max_streams[d]
                   + Cardinality(Remote(e, d, s.released_stream_ids))

Local(e, s) == /\ Quiet(s)
               /\ AllAccounted(s)
               /\ NotFull(s) => Heard(e, s) /\ Places(e, s)

LocalInv == \A e \in Impl : Local(e, wt[e])

-----------------------------------------------------------------------------
(* What a function leaves alone.                                           *)

Kept(s, t) == /\ t.ids = s.ids
              /\ t.released_stream_ids = s.released_stream_ids
              /\ t.seen = s.seen
              /\ t.max_streams_remote = s.max_streams_remote
              /\ t.status = s.status
              /\ t.flushing = s.flushing

(* It touches one stream only, and not what that stream has received.      *)
Only(s, t, id) ==
    /\ Kept(s, t)
    /\ \A o \in StreamId : o # id => t.streams[o] = s.streams[o]
    /\ t.streams[id].recv_state = s.streams[id].recv_state

(* The fields of a stream the account is about.                            *)
SameBooks(f, g) == /\ g.send_state = f.send_state
                   /\ g.pending_sends = f.pending_sends
                   /\ g.bytes_sent = f.bytes_sent
                   /\ g.written = f.written

LEMMA SameAccount ==
    ASSUME NEW f, NEW g, Accounted(f), SameBooks(f, g)
    PROVE  Accounted(g)
BY DEF Accounted, SameBooks

LEMMA NewAccount ==
    ASSUME NEW f, f.pending_sends = <<>>, f.bytes_sent = f.written
    PROVE  Accounted(f)
BY DEF Accounted

LEMMA DoneAccount ==
    ASSUME NEW f, f.pending_sends = <<>>, f.send_state \in SendDone
    PROVE  Accounted(f)
BY DEF Accounted, SendDone

LEMMA OnlyTransitive ==
    ASSUME NEW s, NEW t, NEW u, NEW id, Only(s, t, id), Only(t, u, id)
    PROVE  Only(s, u, id)
BY DEF Only, Kept

LEMMA KeptOnly ==
    ASSUME NEW s, NEW t, NEW id, Kept(s, t), t.streams = s.streams
    PROVE  Only(s, t, id)
BY DEF Only

(* A function that touches one stream, and keeps its account, keeps the    *)
(* invariant.                                                              *)
LEMMA OnlyLocal ==
    ASSUME NEW e, NEW s, NEW t, NEW id, s.ids \subseteq StreamId,
           Local(e, s), Only(s, t, id),
           id \in s.ids => Accounted(t.streams[id])
    PROVE  Local(e, t)
<1>1. Quiet(t)
  BY DEF Local, Quiet, Only, Kept
<1>2. AllAccounted(t)
  BY DEF Local, AllAccounted, Only, Kept
<1>3. NotFull(t) => NotFull(s)
  BY DEF NotFull, Only, Kept
<1>4. Heard(e, s) => Heard(e, t)
  <2>1. \A o \in StreamId : Over(s, o) => Over(t, o)
    BY DEF Over, Only, Kept
  <2>2. t.seen = s.seen
    BY DEF Only, Kept
  <2>3. QED
    BY <2>1, <2>2 DEF Heard
<1>5. Places(e, s) => Places(e, t)
  <2>1. /\ t.ids = s.ids /\ t.released_stream_ids = s.released_stream_ids
        /\ t.max_streams_remote = s.max_streams_remote
    BY DEF Only, Kept
  <2>2. \A d : Below(e, t, d) = Below(e, s, d)
    BY <2>1 DEF Below
  <2>3. QED
    BY <2>1, <2>2 DEF Places
<1>6. QED
  BY <1>1, <1>2, <1>3, <1>4, <1>5 DEF Local

LEMMA KeptLocal ==
    ASSUME NEW e, NEW s, NEW t, s.ids \subseteq StreamId,
           Local(e, s), Kept(s, t), t.streams = s.streams
    PROVE  Local(e, t)
<1>1. ASSUME NEW id PROVE Only(s, t, id) /\ (id \in s.ids => Accounted(t.streams[id]))
  BY KeptOnly DEF Local, AllAccounted
<1>2. QED
  BY <1>1, OnlyLocal

-----------------------------------------------------------------------------
(* Functions that only send capsules or move limits of the receiver.       *)

LEMMA SendCapsuleKept ==
    ASSUME NEW s \in WtSessionInfo, NEW t, NEW id, NEW v
    PROVE  /\ Kept(s, send_capsule(s, t, id, v))
           /\ send_capsule(s, t, id, v).streams = s.streams
BY DEF send_capsule, WtSessionInfo, Kept

LEMMA MaxDataKept ==
    ASSUME NEW s \in WtSessionInfo, NEW e
    PROVE  /\ Kept(s, maybe_send_max_data(s, e))
           /\ maybe_send_max_data(s, e).streams = s.streams
<1> DEFINE updated == raised_limit(s.bytes_received, Config[e].max_data)
           t == [s EXCEPT !.max_data_remote = updated]
           u == send_capsule(t, "WT_MAX_DATA", 0, updated)
<1> HIDE DEF updated
<1>1. Kept(s, u) /\ u.streams = s.streams
  BY DEF send_capsule, WtSessionInfo, Kept
<1> HIDE DEF u
<1>2. maybe_send_max_data(s, e) \in {s, u}
  BY DEF maybe_send_max_data, updated, u
<1>3. QED
  BY <1>1, <1>2 DEF Kept

LEMMA MaxStreamDataOnly ==
    ASSUME NEW s \in WtSessionInfo, NEW e, NEW id \in StreamId
    PROVE  /\ Only(s, maybe_send_max_stream_data(s, e, id), id)
           /\ SameBooks(s.streams[id], maybe_send_max_stream_data(s, e, id).streams[id])
<1> DEFINE updated == raised_limit(s.streams[id].bytes_received, Config[e].max_stream_data)
           t == [s EXCEPT !.streams[id].max_stream_data_remote = updated]
           u == send_capsule(t, "WT_MAX_STREAM_DATA", id, updated)
<1> HIDE DEF updated
<1>1. Kept(s, u)
  BY DEF send_capsule, WtSessionInfo, Kept
<1>2. u.streams = [s.streams EXCEPT ![id].max_stream_data_remote = updated]
  BY DEF send_capsule, WtSessionInfo
<1>3. s.streams \in [StreamId -> WtStreamInfo]
  BY DEF WtSessionInfo
<1>4. maybe_send_max_stream_data(s, e, id) \in {s, u}
  BY DEF maybe_send_max_stream_data, updated
<1> HIDE DEF u
<1>5. Only(s, u, id) /\ SameBooks(s.streams[id], u.streams[id])
  BY <1>1, <1>2, <1>3 DEF Only, SameBooks, WtStreamInfo
<1>6. Only(s, s, id) /\ SameBooks(s.streams[id], s.streams[id])
  BY DEF Only, SameBooks, Kept
<1>7. QED
  BY <1>4, <1>5, <1>6

(* close_session and a malformed capsule end the session at an end that is *)
(* not in the middle of a flush.                                           *)
LEMMA EndedLocal ==
    ASSUME NEW e, NEW s, NEW t, s.ids \subseteq StreamId, Local(e, s), ~s.flushing,
           Kept([s EXCEPT !.status = t.status], t), t.streams = s.streams,
           s \in WtSessionInfo
    PROVE  Local(e, t)
<1> DEFINE u == [s EXCEPT !.status = t.status]
<1>1. /\ u.ids = s.ids /\ u.released_stream_ids = s.released_stream_ids
      /\ u.seen = s.seen /\ u.max_streams_remote = s.max_streams_remote
      /\ u.flushing = s.flushing /\ u.streams = s.streams
  BY DEF WtSessionInfo
<1> HIDE DEF u
<1>2. Quiet(u) /\ AllAccounted(u) /\ (NotFull(u) <=> NotFull(s))
  BY <1>1 DEF Local, Quiet, AllAccounted, NotFull
<1>3. Heard(e, s) => Heard(e, u)
  BY <1>1 DEF Heard, Over
<1>4. Places(e, s) => Places(e, u)
  <2>1. \A d : Below(e, u, d) = Below(e, s, d)
    BY <1>1 DEF Below
  <2>2. QED
    BY <1>1, <2>1 DEF Places
<1>5. Local(e, u)
  BY <1>2, <1>3, <1>4 DEF Local
<1>6. Kept(u, t) /\ t.streams = u.streams /\ u.ids \subseteq StreamId
  BY <1>1 DEF u
<1>7. QED
  BY <1>5, <1>6, KeptLocal

LEMMA CloseLocal ==
    ASSUME NEW e, NEW s \in WtSessionInfo, NEW why, Local(e, s), ~s.flushing
    PROVE  Local(e, close_session(s, why))
<1> DEFINE t == close_session(s, why)
<1>1. t.status = "terminated" /\ t.streams = s.streams
  BY DEF close_session, send_capsule, WtSessionInfo
<1>2. Kept([s EXCEPT !.status = t.status], t)
  BY DEF close_session, send_capsule, WtSessionInfo, Kept
<1>3. s.ids \subseteq StreamId
  BY DEF WtSessionInfo
<1> HIDE DEF t
<1>4. QED
  BY <1>1, <1>2, <1>3, EndedLocal DEF t

LEMMA MalformedLocal ==
    ASSUME NEW e, NEW s \in WtSessionInfo, Local(e, s), ~s.flushing
    PROVE  Local(e, reset_stream_for_malformed_capsule(s))
<1> DEFINE t == reset_stream_for_malformed_capsule(s)
<1>1. t.streams = s.streams
  BY DEF reset_stream_for_malformed_capsule, WtSessionInfo
<1>2. Kept([s EXCEPT !.status = t.status], t)
  BY DEF reset_stream_for_malformed_capsule, WtSessionInfo, Kept
<1>3. s.ids \subseteq StreamId
  BY DEF WtSessionInfo
<1> HIDE DEF t
<1>4. QED
  BY <1>1, <1>2, <1>3, EndedLocal DEF t

LEMMA HandleCloseLocal ==
    ASSUME NEW e, NEW s \in WtSessionInfo, Local(e, s), ~s.flushing
    PROVE  Local(e, handle_wt_close_session(s))
<1> DEFINE t == handle_wt_close_session(s)
<1>1. t.streams = s.streams
  BY DEF handle_wt_close_session, WtSessionInfo
<1>2. Kept([s EXCEPT !.status = t.status], t)
  BY DEF handle_wt_close_session, WtSessionInfo, Kept
<1>3. s.ids \subseteq StreamId
  BY DEF WtSessionInfo
<1> HIDE DEF t
<1>4. QED
  BY <1>1, <1>2, <1>3, EndedLocal DEF t

-----------------------------------------------------------------------------
(* Releasing a stream.                                                     *)

LEMMA FiniteIds == \A S \in SUBSET StreamId : IsFiniteSet(S) /\ Cardinality(S) \in Nat
<1>1. IsFiniteSet(StreamId)
  BY FS_Interval, BoundAssumption DEF StreamId
<1>2. QED
  BY <1>1, FS_Subset, FS_CardinalityType

LEMMA RemoteFinite ==
    ASSUME NEW e, NEW d, NEW S \in SUBSET StreamId
    PROVE  /\ IsFiniteSet(Remote(e, d, S))
           /\ Cardinality(Remote(e, d, S)) \in Nat
<1>1. Remote(e, d, S) \in SUBSET StreamId
  BY DEF Remote
<1>2. QED
  BY <1>1, FiniteIds

(* A set of released ids that is not full was not full before.             *)
LEMMA ReleasedGrows ==
    ASSUME NEW S \in SUBSET StreamId, NEW T \in SUBSET StreamId, S \subseteq T,
           Cardinality(T) < kMaxReceivedMapEntries
    PROVE  Cardinality(S) < kMaxReceivedMapEntries
<1>1. Cardinality(S) <= Cardinality(T)
  BY FiniteIds, FS_Subset
<1>2. QED
  BY <1>1, FiniteIds, LimitAssumption

Erased(e, s, t, id) ==
    /\ t.ids = s.ids \ {id}
    /\ t.streams = [s.streams EXCEPT ![id] = NoStream]
    /\ t.seen = s.seen /\ t.status = s.status /\ t.flushing = s.flushing
    /\ t.max_streams_remote = s.max_streams_remote
    /\ t.released_stream_ids =
           (IF is_receivable_data_capsule(e, id) /\ NotFull(s)
            THEN s.released_stream_ids \cup {id} ELSE s.released_stream_ids)

LEMMA EraseFields ==
    ASSUME NEW s \in WtSessionInfo, NEW e, NEW id \in StreamId
    PROVE  Erased(e, s, erase_stream(s, e, id), id)
BY DEF erase_stream, WtSessionInfo, NotFull, Erased

LEMMA ReplenishFields ==
    ASSUME NEW s \in WtSessionInfo, NEW e, NEW id \in StreamId
    PROVE  LET t == replenish_streams(s, e, id)
               m == s.max_streams_remote
           IN  /\ t.ids = s.ids /\ t.streams = s.streams
               /\ t.seen = s.seen /\ t.status = s.status /\ t.flushing = s.flushing
               /\ t.released_stream_ids = s.released_stream_ids
               /\ \/ t.max_streams_remote = m
                  \/ /\ ~is_local(e, id)
                     /\ t.max_streams_remote = [m EXCEPT ![DirOf(id)] = @ + 1]
<1> DEFINE d == DirOf(id)
           n == s.max_streams_remote[d] + 1
           r == [s EXCEPT !.max_streams_remote[d] = n]
           type == IF d = "uni" THEN "WT_MAX_STREAMS_UNI" ELSE "WT_MAX_STREAMS_BIDI"
           u == send_capsule(r, type, 0, n)
<1>1. /\ u.ids = s.ids /\ u.streams = s.streams
      /\ u.seen = s.seen /\ u.status = s.status /\ u.flushing = s.flushing
      /\ u.released_stream_ids = s.released_stream_ids
      /\ u.max_streams_remote = [s.max_streams_remote EXCEPT ![d] = n]
  BY DEF send_capsule, WtSessionInfo
<1>2. replenish_streams(s, e, id) = s \/ (replenish_streams(s, e, id) = u /\ ~is_local(e, id))
  BY DEF replenish_streams
<1> HIDE DEF u
<1>3. QED
  BY <1>1, <1>2

(* The fields after a release, as one record of facts.                     *)
Released(e, s, t, id) ==
    /\ t.ids = s.ids \ {id}
    /\ t.streams = [s.streams EXCEPT ![id] = NoStream]
    /\ t.seen = s.seen /\ t.status = s.status /\ t.flushing = s.flushing
    /\ t.released_stream_ids =
           (IF is_receivable_data_capsule(e, id) /\ NotFull(s)
            THEN s.released_stream_ids \cup {id} ELSE s.released_stream_ids)
    /\ \/ t.max_streams_remote = s.max_streams_remote
       \/ /\ ~is_local(e, id)
          /\ t.max_streams_remote = [s.max_streams_remote EXCEPT ![DirOf(id)] = @ + 1]

LEMMA ReleaseFields ==
    ASSUME NEW s, Good(s), NEW e \in End, NEW id \in StreamId
    PROVE  \/ maybe_release_stream(s, e, id) = s
           \/ /\ Released(e, s, maybe_release_stream(s, e, id), id)
              /\ id \in s.ids /\ releasable(s, e, id)
<1> DEFINE t == erase_stream(s, e, id)
           u == replenish_streams(t, e, id)
<1>1. Good(t) /\ t \in WtSessionInfo /\ s \in WtSessionInfo
  BY EraseGood DEF Good
<1>2. Erased(e, s, t, id)
  BY <1>1, EraseFields
<1> HIDE DEF t
<1>3. /\ u.ids = t.ids /\ u.streams = t.streams
      /\ u.seen = t.seen /\ u.status = t.status /\ u.flushing = t.flushing
      /\ u.released_stream_ids = t.released_stream_ids
      /\ \/ u.max_streams_remote = t.max_streams_remote
         \/ /\ ~is_local(e, id)
            /\ u.max_streams_remote = [t.max_streams_remote EXCEPT ![DirOf(id)] = @ + 1]
  BY <1>1, ReplenishFields
<1> HIDE DEF u
<1>4. Released(e, s, u, id)
  BY <1>2, <1>3 DEF Released, Erased
<1>5. QED
  BY <1>4 DEF maybe_release_stream, u, t

LEMMA ReleasedPlaces ==
    ASSUME NEW e \in End, NEW s \in WtSessionInfo, NEW t, NEW id \in s.ids,
           Released(e, s, t, id), NotFull(s), Places(e, s), NEW d \in Dir
    PROVE  /\ Remote(e, d, t.ids) \subseteq Below(e, t, d)
           /\ Remote(e, d, t.released_stream_ids) \subseteq Below(e, t, d)
           /\ Remote(e, d, t.ids) \cap Remote(e, d, t.released_stream_ids) = {}
           /\ t.max_streams_remote[d] <=
                  Config[e].max_streams[d]
                      + Cardinality(Remote(e, d, t.released_stream_ids))
<1> DEFINE R == Remote(e, d, s.released_stream_ids)
           m == s.max_streams_remote[d]
<1>1. /\ s.ids \subseteq StreamId /\ s.released_stream_ids \subseteq StreamId
      /\ s.max_streams_remote \in [Dir -> Nat] /\ DirOf(id) \in Dir /\ m \in Nat
      /\ id \in StreamId
  BY DEF WtSessionInfo, DirOf, Dir
<1>2. /\ Remote(e, d, s.ids) \subseteq Below(e, s, d) /\ R \subseteq Below(e, s, d)
      /\ Remote(e, d, s.ids) \cap R = {}
      /\ m <= Config[e].max_streams[d] + Cardinality(R)
  BY DEF Places
<1>3. /\ IsFiniteSet(R) /\ Cardinality(R) \in Nat /\ Config[e].max_streams[d] \in Nat
  BY <1>1, RemoteFinite, PeerConfig
<1>4. Remote(e, d, t.ids) = Remote(e, d, s.ids) \ {id}
  BY DEF Released, Remote
<1>5. t.max_streams_remote[d] \in Nat /\ t.max_streams_remote[d] >= m
  BY <1>1 DEF Released
<1>6. Below(e, s, d) \subseteq Below(e, t, d)
  <2> SUFFICES ASSUME NEW o \in StreamId, o \div 4 < m
               PROVE  o \div 4 < t.max_streams_remote[d]
    BY DEF Below
  <2>1. o \div 4 \in Int
    BY BoundAssumption DEF StreamId
  <2>2. QED
    BY <1>1, <1>5, <2>1
<1>7. CASE DirOf(id) = d /\ ~is_local(e, id)
  <2>1. t.released_stream_ids = s.released_stream_ids \cup {id}
    BY <1>7 DEF Released, is_receivable_data_capsule
  <2>2. Remote(e, d, t.released_stream_ids) = R \cup {id}
    BY <1>7, <2>1 DEF Remote
  <2>3. id \in Remote(e, d, s.ids)
    BY <1>7 DEF Remote
  <2>4. id \notin R /\ id \in Below(e, s, d)
    BY <1>2, <2>3
  <2> HIDE DEF R
  <2>5. Cardinality(R \cup {id}) = Cardinality(R) + 1
    BY <1>3, <2>4, FS_AddElement
  <2>6. t.max_streams_remote[d] <= m + 1
    BY <1>1, <1>7 DEF Released
  <2>7. t.max_streams_remote[d] <= Config[e].max_streams[d] + Cardinality(R \cup {id})
    BY <1>1, <1>2, <1>3, <1>5, <2>5, <2>6
  <2>8. QED
    BY <1>2, <1>4, <1>6, <2>2, <2>4, <2>7
<1>8. CASE ~(DirOf(id) = d /\ ~is_local(e, id))
  <2>1. Remote(e, d, t.released_stream_ids) = R
    BY <1>8 DEF Released, Remote
  <2>2. t.max_streams_remote[d] = m
    BY <1>1, <1>8 DEF Released
  <2> HIDE DEF R
  <2>3. QED
    BY <1>2, <1>4, <1>6, <2>1, <2>2
<1>9. QED
  BY <1>7, <1>8

LEMMA ReleasedHeard ==
    ASSUME NEW e, NEW s \in WtSessionInfo, NEW t, NEW id \in StreamId,
           Released(e, s, t, id), NotFull(s), Heard(e, s)
    PROVE  Heard(e, t)
<1> SUFFICES ASSUME NEW o \in StreamId, s.seen[o] # "live" PROVE Over(t, o)
  BY DEF Heard, Released
<1>1. Over(s, o) /\ is_receivable_data_capsule(e, o)
  BY DEF Heard
<1>2. CASE o = id
  BY <1>1, <1>2 DEF Over, Released
<1>3. CASE o # id
  <2>1. t.streams[o] = s.streams[o]
    BY <1>3 DEF Released, WtSessionInfo
  <2>2. QED
    BY <1>1, <1>3, <2>1 DEF Over, Released
<1>4. QED
  BY <1>2, <1>3

LEMMA ReleaseLocal ==
    ASSUME NEW s, Good(s), NEW e \in End, NEW id \in StreamId, Local(e, s)
    PROVE  Local(e, maybe_release_stream(s, e, id))
<1> DEFINE t == maybe_release_stream(s, e, id)
<1>1. t = s \/ (Released(e, s, t, id) /\ id \in s.ids)
  BY ReleaseFields
<1> HIDE DEF t
<1>2. CASE t = s
  BY <1>2 DEF t
<1>3. CASE Released(e, s, t, id) /\ id \in s.ids
  <2>0. s \in WtSessionInfo /\ s.released_stream_ids \subseteq StreamId
    BY DEF Good, WtSessionInfo
  <2>1. Quiet(t)
    BY <1>3 DEF Released, Local, Quiet
  <2>2. AllAccounted(t)
    <3> SUFFICES ASSUME NEW o \in s.ids, o # id PROVE Accounted(t.streams[o])
      BY <1>3 DEF AllAccounted, Released
    <3>1. t.streams[o] = s.streams[o]
      BY <1>3, <2>0 DEF Released, WtSessionInfo
    <3>2. QED
      BY <3>1 DEF Local, AllAccounted
  <2>3. NotFull(t) => NotFull(s)
    BY <1>3, <2>0, ReleasedGrows DEF NotFull, Released
  <2>4. NotFull(s) => Heard(e, t)
    BY <1>3, <2>0, ReleasedHeard DEF Local
  <2>5. NotFull(s) => Places(e, t)
    BY <1>3, <2>0, ReleasedPlaces DEF Local, Places
  <2>6. NotFull(t) => Heard(e, t) /\ Places(e, t)
    BY <2>3, <2>4, <2>5
  <2>7. Local(e, t)
    BY <2>1, <2>2, <2>6 DEF Local
  <2>8. QED
    BY <2>7 DEF t
<1>4. QED
  BY <1>1, <1>2, <1>3 DEF t

(* Different streams of the peer have different places.                    *)
LEMMA BelowSize ==
    ASSUME NEW e, NEW s, NEW d, s.max_streams_remote[d] \in Nat
    PROVE  /\ IsFiniteSet(Below(e, s, d))
           /\ Cardinality(Below(e, s, d)) <= s.max_streams_remote[d]
<1> DEFINE m == s.max_streams_remote[d]
           B == Below(e, s, d)
           T == 0 .. (m - 1)
           f == [id \in B |-> id \div 4]
<1>1. ASSUME NEW id \in B
      PROVE  /\ id \in Nat /\ id \div 4 \in T
             /\ (id % 2 = 1) <=> (e # "server")
             /\ ((id \div 2) % 2 = 1) <=> (d = "uni")
  <2>1. id \in Nat /\ id \div 4 \in Nat
    BY BoundAssumption DEF Below, StreamId
  <2>2. /\ id \div 4 < m /\ DirOf(id) = d /\ ~is_local(e, id)
    BY DEF Below
  <2>3. QED
    BY <2>1, <2>2 DEF is_local, DirOf, is_unidirectional
<1>2. \A x, y \in B : x \div 4 = y \div 4 => x = y
  <2> SUFFICES ASSUME NEW x \in B, NEW y \in B, x \div 4 = y \div 4 PROVE x = y
    OBVIOUS
  <2>1. /\ x \in Nat /\ y \in Nat
        /\ (x % 2 = 1) <=> (y % 2 = 1)
        /\ ((x \div 2) % 2 = 1) <=> ((y \div 2) % 2 = 1)
    BY <1>1
  <2>2. QED
    BY <2>1
<1> HIDE DEF B
<1>3. f \in Injection(B, T)
  <2>1. f \in [B -> T]
    BY <1>1
  <2>2. \A x, y \in B : f[x] = f[y] => x = y
    BY <1>2
  <2>3. QED
    BY <2>1, <2>2 DEF Injection, IsInjective
<1>4. IsFiniteSet(T) /\ Cardinality(T) = m
  <2>1. 0 \in Int /\ m - 1 \in Int /\ m \in Nat
    OBVIOUS
  <2> HIDE DEF m
  <2>2. IsFiniteSet(T) /\ Cardinality(T) = IF 0 > m - 1 THEN 0 ELSE (m - 1) - 0 + 1
    BY <2>1, FS_Interval
  <2>3. QED
    BY <2>1, <2>2
<1> HIDE DEF f, T
<1>5. IsFiniteSet(B) /\ Cardinality(B) <= Cardinality(T)
  BY <1>3, <1>4, FS_Injection
<1>6. QED
  BY <1>4, <1>5 DEF B

(* What is live is at most what was configured.                            *)
LEMMA PlacesBound ==
    ASSUME NEW e \in End, NEW s \in WtSessionInfo, Places(e, s), NEW d \in Dir
    PROVE  Cardinality(Remote(e, d, s.ids)) <= Config[e].max_streams[d]
<1> DEFINE L == Remote(e, d, s.ids)
           R == Remote(e, d, s.released_stream_ids)
           B == Below(e, s, d)
           m == s.max_streams_remote[d]
<1>1. s.ids \subseteq StreamId /\ s.released_stream_ids \subseteq StreamId /\ m \in Nat
  BY DEF WtSessionInfo
<1>2. /\ IsFiniteSet(L) /\ Cardinality(L) \in Nat
      /\ IsFiniteSet(R) /\ Cardinality(R) \in Nat
  BY <1>1, RemoteFinite
<1>3. IsFiniteSet(B) /\ Cardinality(B) <= m
  BY <1>1, BelowSize
<1>4. Config[e].max_streams[d] \in Nat
  BY PeerConfig
<1>5. /\ L \subseteq B /\ R \subseteq B /\ L \cap R = {}
      /\ m <= Config[e].max_streams[d] + Cardinality(R)
  BY DEF Places
<1> HIDE DEF L, R, B, m
<1>6. Cardinality(L \cup R) = Cardinality(L) + Cardinality(R)
  <2>1. Cardinality(L \cup R) = Cardinality(L) + Cardinality(R) - Cardinality(L \cap R)
    BY <1>2, FS_Union
  <2>2. Cardinality(L \cap R) = 0
    BY <1>5, FS_EmptySet
  <2>3. QED
    BY <1>2, <2>1, <2>2
<1>7. Cardinality(L \cup R) <= Cardinality(B) /\ Cardinality(B) \in Nat
  BY <1>3, <1>5, FS_Subset, FS_CardinalityType
<1>8. QED
  BY <1>1, <1>2, <1>3, <1>4, <1>5, <1>6, <1>7 DEF L

-----------------------------------------------------------------------------
(* Sending.                                                                *)

LEMMA SetStreamOnly ==
    ASSUME NEW s \in WtSessionInfo, NEW id \in StreamId, NEW t, NEW f,
           Kept(s, t), t.streams = [s.streams EXCEPT ![id] = f],
           f.recv_state = s.streams[id].recv_state
    PROVE  Only(s, t, id) /\ t.streams[id] = f
BY DEF Only, WtSessionInfo

LEMMA SendStreamCapsuleOnly ==
    ASSUME NEW s \in WtSessionInfo, NEW id \in StreamId, NEW p, NEW n
    PROVE  /\ Only(s, send_stream_capsule(s, id, p, n), id)
           /\ send_stream_capsule(s, id, p, n).streams[id]
                  = [s.streams[id] EXCEPT !.bytes_sent = @ + n]
<1> DEFINE t == send_stream_capsule(s, id, p, n)
           f == [s.streams[id] EXCEPT !.bytes_sent = @ + n]
<1>1. Kept(s, t)
  BY DEF send_stream_capsule, WtSessionInfo, Kept
<1>2. t.streams = [s.streams EXCEPT ![id] = f]
  BY DEF send_stream_capsule, WtSessionInfo
<1>3. f.recv_state = s.streams[id].recv_state
  BY DEF WtSessionInfo, WtStreamInfo
<1> HIDE DEF t, f
<1>4. Only(s, t, id) /\ t.streams[id] = f
  BY <1>1, <1>2, <1>3, SetStreamOnly
<1>5. QED
  BY <1>4 DEF t, f

LEMMA QueueOnly ==
    ASSUME NEW s \in WtSessionInfo, NEW id \in StreamId, NEW p
    PROVE  /\ Only(s, queue_send(s, id, p), id)
           /\ queue_send(s, id, p).streams[id]
                  = [s.streams[id] EXCEPT !.pending_sends = Append(@, p)]
<1> DEFINE t == queue_send(s, id, p)
           f == [s.streams[id] EXCEPT !.pending_sends = Append(@, p)]
<1>1. Kept(s, t)
  BY DEF queue_send, WtSessionInfo, Kept
<1>2. t.streams = [s.streams EXCEPT ![id] = f]
  BY DEF queue_send, WtSessionInfo
<1>3. f.recv_state = s.streams[id].recv_state
  BY DEF WtSessionInfo, WtStreamInfo
<1> HIDE DEF t, f
<1>4. Only(s, t, id) /\ t.streams[id] = f
  BY <1>1, <1>2, <1>3, SetStreamOnly
<1>5. QED
  BY <1>4 DEF t, f

LEMMA ReportDataBlockedKept ==
    ASSUME NEW s \in WtSessionInfo, NEW blocked
    PROVE  /\ Kept(s, report_data_blocked(s, blocked))
           /\ report_data_blocked(s, blocked).streams = s.streams
<1> DEFINE t == send_capsule(s, "WT_DATA_BLOCKED", 0, s.max_data_local)
           u == [t EXCEPT !.data_blocked_sent = TRUE]
<1>1. Kept(s, u) /\ u.streams = s.streams
  BY DEF send_capsule, WtSessionInfo, Kept
<1>2. report_data_blocked(s, blocked) \in {s, u}
  BY DEF report_data_blocked
<1> HIDE DEF u
<1>3. QED
  BY <1>1, <1>2 DEF Kept

LEMMA ReportStreamDataBlockedOnly ==
    ASSUME NEW s \in WtSessionInfo, NEW id \in StreamId, NEW blocked
    PROVE  /\ Only(s, report_stream_data_blocked(s, id, blocked), id)
           /\ SameBooks(s.streams[id],
                        report_stream_data_blocked(s, id, blocked).streams[id])
<1> DEFINE t == send_capsule(s, "WT_STREAM_DATA_BLOCKED", id,
                             s.streams[id].max_stream_data_local)
           u == [t EXCEPT !.streams[id].stream_data_blocked_sent = TRUE]
           f == [s.streams[id] EXCEPT !.stream_data_blocked_sent = TRUE]
<1>1. Kept(s, u)
  BY DEF send_capsule, WtSessionInfo, Kept
<1>2. u.streams = [s.streams EXCEPT ![id] = f]
  BY DEF send_capsule, WtSessionInfo
<1>3. f.recv_state = s.streams[id].recv_state /\ SameBooks(s.streams[id], f)
  BY DEF WtSessionInfo, WtStreamInfo, SameBooks
<1>4. report_stream_data_blocked(s, id, blocked) \in {s, u}
  BY DEF report_stream_data_blocked
<1> HIDE DEF u, f
<1>5. Only(s, u, id) /\ u.streams[id] = f
  BY <1>1, <1>2, <1>3, SetStreamOnly
<1>6. Only(s, s, id) /\ SameBooks(s.streams[id], s.streams[id])
  BY DEF Only, SameBooks, Kept
<1>7. QED
  BY <1>3, <1>4, <1>5, <1>6

(* The account after bytes were sent from the head of an empty queue, and  *)
(* after the rest was queued.                                              *)
Books(f, state, pending, sent, written) ==
    /\ f.send_state = state /\ f.pending_sends = pending
    /\ f.bytes_sent = sent /\ f.written = written

LEMMA SendPartOnly ==
    ASSUME NEW s, Good(s), NEW id \in s.ids, NEW p \in PendingSend,
           s.streams[id].pending_sends = <<>>
    PROVE  LET f == s.streams[id]
               n == sendable(s, id, p.len)
               t == send_part(s, id, p)
           IN  /\ Only(s, t, id)
               /\ Books(t.streams[id], f.send_state, <<rest_of_send(p, n)>>,
                        f.bytes_sent + n, f.written)
<1> DEFINE session == session_avail(s, p.len)
           stream == stream_avail(s, id, p.len)
           f == s.streams[id]
           n == sendable(s, id, p.len)
           sent == IF n > 0 THEN send_stream_capsule(s, id, p, n) ELSE s
           a == report_data_blocked(sent, session <= stream)
           b == report_stream_data_blocked(a, id, stream <= session)
           r == rest_of_send(p, n)
           t == queue_send(b, id, r)
<1>0. send_part(s, id, p) = t
  BY DEF send_part
<1>1. /\ id \in StreamId /\ s \in WtSessionInfo /\ f \in WtStreamInfo
      /\ f.bytes_sent \in Nat /\ p.len \in Nat
  BY GoodFields, StreamFields DEF Good, PendingSend
<1>2. /\ n \in Nat /\ s.bytes_sent + n <= s.max_data_local
      /\ f.bytes_sent + n <= f.max_stream_data_local
  BY <1>1, SendableFits
<1> HIDE DEF n, session, stream, r
<1>3. /\ Good(sent) /\ sent.ids = s.ids /\ Only(s, sent, id)
      /\ Books(sent.streams[id], f.send_state, <<>>, f.bytes_sent + n, f.written)
  <2>1. CASE n > 0
    <3> DEFINE x == send_stream_capsule(s, id, p, n)
    <3>1. Good(x) /\ x.ids = s.ids
      BY <1>1, <1>2, SendStreamCapsuleGood
    <3>2. Only(s, x, id) /\ x.streams[id] = [f EXCEPT !.bytes_sent = @ + n]
      BY <1>1, SendStreamCapsuleOnly
    <3> HIDE DEF x
    <3>3. Books(x.streams[id], f.send_state, <<>>, f.bytes_sent + n, f.written)
      BY <1>1, <3>2 DEF Books, WtStreamInfo
    <3>4. sent = x
      BY <2>1 DEF x
    <3>5. QED
      BY <3>1, <3>2, <3>3, <3>4
  <2>2. CASE ~(n > 0)
    <3>1. sent = s /\ n = 0
      BY <1>2, <2>2
    <3>2. Only(s, s, id)
      BY DEF Only, Kept
    <3>3. QED
      BY <1>1, <3>1, <3>2 DEF Books
  <2>3. QED
    BY <2>1, <2>2
<1> HIDE DEF sent
<1>4. Good(a) /\ a.ids = sent.ids /\ Kept(sent, a) /\ a.streams = sent.streams
  BY <1>3, ReportDataBlockedGood, ReportDataBlockedKept DEF Good
<1> HIDE DEF a
<1>5. /\ Good(b) /\ b.ids = a.ids /\ Only(a, b, id)
      /\ SameBooks(a.streams[id], b.streams[id])
  BY <1>1, <1>3, <1>4, ReportStreamDataBlockedGood, ReportStreamDataBlockedOnly DEF Good
<1> HIDE DEF b
<1>6. Only(b, t, id) /\ t.streams[id] = [b.streams[id] EXCEPT !.pending_sends = Append(@, r)]
  BY <1>1, <1>5, QueueOnly DEF Good
<1>7. Only(s, t, id)
  BY <1>3, <1>4, <1>5, <1>6, KeptOnly, OnlyTransitive
<1> HIDE DEF t
<1>8. b.streams[id] \in WtStreamInfo
  BY <1>1, <1>5, GoodFields
<1>9. Books(b.streams[id], f.send_state, <<>>, f.bytes_sent + n, f.written)
  BY <1>3, <1>4, <1>5 DEF Books, SameBooks
<1>10. Books(t.streams[id], f.send_state, <<r>>, f.bytes_sent + n, f.written)
  BY <1>6, <1>8, <1>9 DEF Books, WtStreamInfo
<1>11. QED
  BY <1>0, <1>7, <1>10 DEF n, r

-----------------------------------------------------------------------------
(* The account of a stream as its queue grows and shrinks.                 *)

LEMMA AccountAppend ==
    ASSUME NEW f \in WtStreamInfo, Accounted(f), f.pending_sends # <<>>,
           ~f.pending_sends[Len(f.pending_sends)].fin,
           NEW p \in PendingSend, p.off = f.written, NEW g,
           Books(g, f.send_state, Append(f.pending_sends, p), f.bytes_sent,
                 f.written + p.len)
    PROVE  Accounted(g)
<1> DEFINE q == f.pending_sends
           r == g.pending_sends
<1>1. /\ q \in Seq(PendingSend) /\ f.written \in Nat /\ p.len \in Nat /\ p.off \in Nat
  BY DEF WtStreamInfo, PendingSend
<1>2. /\ r = Append(q, p) /\ g.written = f.written + p.len
      /\ g.send_state = f.send_state /\ g.bytes_sent = f.bytes_sent
  BY DEF Books
<1>3. /\ q # <<>> /\ f.send_state = "Ready" /\ q[1].off = f.bytes_sent
      /\ \A i \in 1 .. Len(q) :
            q[i].off + q[i].len = IF i < Len(q) THEN q[i + 1].off ELSE f.written
      /\ \A i \in 1 .. Len(q) - 1 : ~q[i].fin
      /\ ~q[Len(q)].fin
  BY DEF Accounted
<1> HIDE DEF q, r
<1>4. /\ Len(r) = Len(q) + 1 /\ Len(q) \in Nat /\ Len(q) > 0
      /\ \A i \in 1 .. Len(q) : r[i] = q[i]
      /\ r[Len(q) + 1] = p
      /\ r # <<>>
  BY <1>1, <1>2, <1>3
<1>5. \A i \in 1 .. Len(r) :
         r[i].off + r[i].len = IF i < Len(r) THEN r[i + 1].off ELSE g.written
  <2> SUFFICES ASSUME NEW i \in 1 .. Len(r)
               PROVE  r[i].off + r[i].len = IF i < Len(r) THEN r[i + 1].off
                                                          ELSE g.written
    OBVIOUS
  <2>1. CASE i = Len(q) + 1
    BY <1>1, <1>2, <1>4, <2>1
  <2>2. CASE i = Len(q)
    <3>1. r[i + 1] = p /\ r[i] = q[i] /\ i < Len(r) /\ i \in 1 .. Len(q)
      BY <1>4, <2>2
    <3>2. q[i].off + q[i].len = f.written
      BY <1>3, <2>2, <3>1
    <3>3. QED
      BY <3>1, <3>2
  <2>3. CASE i < Len(q)
    <3>1. r[i + 1] = q[i + 1] /\ r[i] = q[i] /\ i < Len(r) /\ i \in 1 .. Len(q)
      BY <1>4, <2>3
    <3>2. q[i].off + q[i].len = q[i + 1].off
      BY <1>3, <2>3, <3>1
    <3>3. QED
      BY <3>1, <3>2
  <2>4. QED
    BY <1>4, <2>1, <2>2, <2>3
<1>6. \A i \in 1 .. Len(r) - 1 : ~r[i].fin
  BY <1>3, <1>4
<1>7. r[1].off = g.bytes_sent
  BY <1>2, <1>3, <1>4
<1>8. QED
  BY <1>2, <1>3, <1>4, <1>5, <1>6, <1>7 DEF Accounted, r

LEMMA AccountRest ==
    ASSUME NEW f \in WtStreamInfo, Accounted(f), f.pending_sends # <<>>,
           NEW k \in Nat, k <= Head(f.pending_sends).len, NEW g,
           Books(g, f.send_state,
                 [f.pending_sends EXCEPT ![1] = rest_of_send(Head(f.pending_sends), k)],
                 f.bytes_sent + k, f.written)
    PROVE  Accounted(g)
<1> DEFINE q == f.pending_sends
           r == g.pending_sends
           p == Head(q)
           x == rest_of_send(p, k)
<1>1. /\ q \in Seq(PendingSend) /\ f.written \in Nat /\ f.bytes_sent \in Nat
  BY DEF WtStreamInfo
<1>2. /\ r = [q EXCEPT ![1] = x] /\ g.written = f.written
      /\ g.send_state = f.send_state /\ g.bytes_sent = f.bytes_sent + k
  BY DEF Books
<1>3. /\ q # <<>> /\ f.send_state = "Ready" /\ q[1].off = f.bytes_sent
      /\ \A i \in 1 .. Len(q) :
            q[i].off + q[i].len = IF i < Len(q) THEN q[i + 1].off ELSE f.written
      /\ \A i \in 1 .. Len(q) - 1 : ~q[i].fin
  BY DEF Accounted
<1>4. p = q[1] /\ p \in PendingSend /\ k <= p.len
  <2> HIDE DEF q
  <2> QED BY <1>1, <1>3 DEF q
<1>5. /\ x.off = p.off + k /\ x.len = p.len - k /\ x.fin = p.fin
      /\ p.off \in Nat /\ p.len \in Nat
  BY <1>4 DEF rest_of_send, PendingSend
<1> HIDE DEF q, r, p, x
<1>6. /\ Len(r) = Len(q) /\ Len(q) \in Nat /\ Len(q) > 0 /\ r # <<>>
      /\ r[1] = x /\ \A i \in 2 .. Len(q) : r[i] = q[i]
  BY <1>1, <1>2, <1>3
<1>7. \A i \in 1 .. Len(r) :
         r[i].off + r[i].len = IF i < Len(r) THEN r[i + 1].off ELSE g.written
  <2> SUFFICES ASSUME NEW i \in 1 .. Len(r)
               PROVE  r[i].off + r[i].len = IF i < Len(r) THEN r[i + 1].off
                                                          ELSE g.written
    OBVIOUS
  <2>1. r[i].off + r[i].len = q[i].off + q[i].len
    BY <1>4, <1>5, <1>6
  <2>2. i < Len(r) => r[i + 1] = q[i + 1]
    BY <1>6
  <2>3. QED
    BY <1>2, <1>3, <1>6, <2>1, <2>2
<1>8. \A i \in 1 .. Len(r) - 1 : ~r[i].fin
  BY <1>3, <1>4, <1>5, <1>6
<1>9. r[1].off = g.bytes_sent
  BY <1>1, <1>2, <1>3, <1>4, <1>5, <1>6
<1>10. QED
  BY <1>2, <1>3, <1>6, <1>7, <1>8, <1>9 DEF Accounted, r

LEMMA EmptyLen ==
    ASSUME NEW S, NEW r \in Seq(S)
    PROVE  /\ r = <<>> => Len(r) = 0
           /\ Len(r) = 0 => r = <<>>
<1>1. Len(<<>>) = 0
  OBVIOUS
<1>2. r = <<>> => Len(r) = 0
  BY <1>1
<1>3. Len(r) = 0 => r = <<>>
  OBVIOUS
<1>4. QED
  BY <1>2, <1>3

LEMMA AccountPop ==
    ASSUME NEW f \in WtStreamInfo, Accounted(f), f.pending_sends # <<>>, NEW g,
           Books(g, f.send_state, Tail(f.pending_sends),
                 f.bytes_sent + Head(f.pending_sends).len, f.written)
    PROVE  /\ Accounted(g)
           /\ Head(f.pending_sends).fin => g.pending_sends = <<>>
<1> DEFINE q == f.pending_sends
           r == g.pending_sends
           p == Head(q)
<1>1. /\ q \in Seq(PendingSend) /\ f.written \in Nat /\ f.bytes_sent \in Nat
  BY DEF WtStreamInfo
<1>2. /\ r = Tail(q) /\ g.written = f.written
      /\ g.send_state = f.send_state /\ g.bytes_sent = f.bytes_sent + p.len
  BY DEF Books
<1>3. /\ q # <<>> /\ f.send_state = "Ready" /\ q[1].off = f.bytes_sent
      /\ \A i \in 1 .. Len(q) :
            q[i].off + q[i].len = IF i < Len(q) THEN q[i + 1].off ELSE f.written
      /\ \A i \in 1 .. Len(q) - 1 : ~q[i].fin
  BY DEF Accounted
<1>4. p = q[1]
  <2> HIDE DEF q
  <2> QED BY <1>1, <1>3 DEF q
<1> HIDE DEF q, r, p
<1>5. /\ Len(r) = Len(q) - 1 /\ Len(q) \in Nat /\ Len(q) > 0
      /\ \A i \in 1 .. Len(r) : r[i] = q[i + 1]
      /\ r = <<>> => Len(q) = 1
      /\ Len(q) = 1 => r = <<>>
  <2>1. /\ Len(r) = Len(q) - 1 /\ Len(q) \in Nat /\ Len(q) > 0 /\ r \in Seq(PendingSend)
    BY <1>1, <1>2, <1>3
  <2>2. \A i \in 1 .. Len(r) : r[i] = q[i + 1]
    BY <1>1, <1>2, <1>3
  <2>3. (r = <<>> => Len(r) = 0) /\ (Len(r) = 0 => r = <<>>)
    BY <2>1, EmptyLen
  <2>4. QED
    BY <2>1, <2>2, <2>3
<1>6. p.fin => r = <<>>
  BY <1>3, <1>4, <1>5
<1>7. CASE r = <<>>
  <2>1. q[1].off + q[1].len = f.written
    <3>1. Len(q) = 1
      BY <1>5, <1>7, Zenon
    <3>2. 1 \in 1 .. Len(q) /\ ~(1 < Len(q))
      BY <3>1
    <3>3. QED
      BY <1>3, <3>2
  <2>2. g.bytes_sent = g.written
    BY <1>2, <1>3, <1>4, <2>1
  <2>3. Accounted(g)
    BY <1>7, <2>2, NewAccount DEF r
  <2>4. QED
    BY <1>6, <2>3 DEF r, p, q
<1>8. CASE r # <<>>
  <2>1. \A i \in 1 .. Len(r) :
           r[i].off + r[i].len = IF i < Len(r) THEN r[i + 1].off ELSE g.written
    <3> SUFFICES ASSUME NEW i \in 1 .. Len(r)
                 PROVE  r[i].off + r[i].len = IF i < Len(r) THEN r[i + 1].off
                                                            ELSE g.written
      OBVIOUS
    <3>1. i + 1 \in 1 .. Len(q) /\ r[i] = q[i + 1]
      BY <1>5
    <3>2. q[i + 1].off + q[i + 1].len =
              IF i + 1 < Len(q) THEN q[i + 1 + 1].off ELSE f.written
      BY <1>3, <3>1
    <3>3. i < Len(r) => r[i + 1] = q[i + 1 + 1] /\ i + 1 < Len(q)
      BY <1>5
    <3>4. ~(i < Len(r)) => ~(i + 1 < Len(q))
      BY <1>5
    <3>5. QED
      BY <1>2, <3>1, <3>2, <3>3, <3>4
  <2>2. \A i \in 1 .. Len(r) - 1 : ~r[i].fin
    BY <1>3, <1>5
  <2>3. Len(q) > 1 /\ 1 \in 1 .. Len(q) /\ r[1] = q[1 + 1]
    BY <1>5, <1>8
  <2>4. q[1].off + q[1].len = q[1 + 1].off
    BY <1>3, <2>3
  <2>5. r[1].off = g.bytes_sent
    BY <1>2, <1>3, <1>4, <2>3, <2>4
  <2>6. Accounted(g)
    BY <1>2, <1>3, <1>8, <2>1, <2>2, <2>5 DEF Accounted, r
  <2>7. QED
    BY <1>6, <2>6 DEF r, p, q
<1>9. QED
  BY <1>7, <1>8

LEMMA AccountPart ==
    ASSUME NEW g, NEW b \in Nat, NEW n \in Nat, NEW k \in Nat, NEW r,
           r.off = b + k, r.len = n - k, Books(g, "Ready", <<r>>, b + k, b + n)
    PROVE  Accounted(g)
<1> DEFINE q == g.pending_sends
<1>1. q = <<r>> /\ q # <<>> /\ Len(q) = 1 /\ q[1] = r
  BY DEF Books
<1>2. g.send_state = "Ready" /\ g.bytes_sent = b + k /\ g.written = b + n
  BY DEF Books
<1> HIDE DEF q
<1>3. \A i \in 1 .. Len(q) :
         q[i].off + q[i].len = IF i < Len(q) THEN q[i + 1].off ELSE g.written
  BY <1>1, <1>2
<1>4. \A i \in 1 .. Len(q) - 1 : ~q[i].fin
  BY <1>1
<1>5. QED
  BY <1>1, <1>2, <1>3, <1>4 DEF Accounted, q

-----------------------------------------------------------------------------
(* The functions of the source that send.                                  *)

LEMMA FinishLocal ==
    ASSUME NEW s, Good(s), NEW e \in End, NEW id \in s.ids, Local(e, s),
           s.streams[id].pending_sends = <<>>
    PROVE  Local(e, finish_sending(s, e, id))
<1> DEFINE f == [s.streams[id] EXCEPT !.send_state = "DataSent"]
           t == [s EXCEPT !.streams[id].send_state = "DataSent"]
<1>1. id \in StreamId /\ s \in WtSessionInfo /\ s.ids \subseteq StreamId
  BY GoodFields
<1>2. Good(t)
  BY SetSendState DEF SendState
<1>3. Kept(s, t) /\ t.streams = [s.streams EXCEPT ![id] = f]
  BY <1>1 DEF Kept, WtSessionInfo
<1>4. /\ f.recv_state = s.streams[id].recv_state
      /\ f.pending_sends = <<>> /\ f.send_state \in SendDone
  BY <1>1 DEF WtSessionInfo, WtStreamInfo, SendDone
<1>5. finish_sending(s, e, id) = maybe_release_stream(t, e, id)
  BY DEF finish_sending
<1> HIDE DEF t, f
<1>6. Only(s, t, id) /\ t.streams[id] = f
  BY <1>1, <1>3, <1>4, SetStreamOnly
<1>7. Local(e, t)
  BY <1>1, <1>4, <1>6, DoneAccount, OnlyLocal
<1>8. QED
  BY <1>1, <1>2, <1>5, <1>7, ReleaseLocal

LEMMA SendStreamDataLocal ==
    ASSUME NEW s, Good(s), NEW e \in End, NEW id \in s.ids, Local(e, s),
           NEW n \in Nat, NEW fin \in BOOLEAN,
           s.streams[id].send_state \notin SendDone,
           s.streams[id].pending_sends # <<>> =>
               ~s.streams[id].pending_sends[Len(s.streams[id].pending_sends)].fin
    PROVE  Local(e, send_stream_data(s, e, id, n, fin))
<1> DEFINE f == s.streams[id]
           q == f.pending_sends
           g == [f EXCEPT !.written = @ + n]
           p == [off |-> f.written, len |-> n, fin |-> fin]
           t == [s EXCEPT !.streams[id] = g]
<1>1. /\ f \in WtStreamInfo /\ StreamCredit(f) /\ id \in StreamId /\ s \in WtSessionInfo
      /\ s.ids \subseteq StreamId
  BY GoodFields DEF Good
<1>2. send_stream_data(s, e, id, n, fin) =
          IF f.pending_sends # <<>> THEN queue_send(t, id, p)
          ELSE IF sendable(s, id, n) < n THEN send_part(t, id, p)
          ELSE send_all(t, e, id, p)
  BY DEF send_stream_data
<1>3. sendable(s, id, n) < n \/ (/\ s.bytes_sent + n <= s.max_data_local
                                 /\ f.bytes_sent + n <= f.max_stream_data_local)
  BY SendableFits
<1>4. Accounted(f) /\ f.send_state = "Ready"
  BY <1>1 DEF Local, AllAccounted, WtStreamInfo, SendState, SendDone
<1>5. q # <<>> => ~q[Len(q)].fin
  OBVIOUS
<1> HIDE DEF f
<1>6. /\ p \in PendingSend /\ p.len = n /\ p.off = f.written /\ p.fin = fin
  BY <1>1, StreamFields DEF PendingSend
<1>7. /\ g \in WtStreamInfo /\ StreamCredit(g) /\ g.recv_state = f.recv_state
      /\ g.max_stream_data_local = f.max_stream_data_local
      /\ Books(g, f.send_state, q, f.bytes_sent, f.written + n)
  BY <1>1, StreamFields DEF WtStreamInfo, StreamCredit, Books
<1>8. f.bytes_sent \in Nat /\ f.written \in Nat
  BY <1>1, StreamFields
<1> HIDE DEF g, p, q
<1>9. Good(t)
  BY <1>1, <1>7, SetStream
<1>10. /\ Kept(s, t) /\ t.streams = [s.streams EXCEPT ![id] = g]
       /\ t.bytes_sent = s.bytes_sent /\ t.max_data_local = s.max_data_local
  BY <1>1 DEF Kept, WtSessionInfo
<1> HIDE DEF t
<1>11. Only(s, t, id) /\ t.streams[id] = g /\ id \in t.ids /\ t \in WtSessionInfo
  <2>1. Only(s, t, id) /\ t.streams[id] = g
    BY <1>1, <1>7, <1>10, SetStreamOnly DEF f
  <2>2. QED
    BY <1>9, <1>10, <2>1 DEF Kept, Good
<1>12. CASE q # <<>>
  <2> DEFINE u == queue_send(t, id, p)
  <2>1. Only(t, u, id) /\ u.streams[id] = [g EXCEPT !.pending_sends = Append(@, p)]
    BY <1>1, <1>11, QueueOnly, SMTT(60)
  <2> HIDE DEF u
  <2>2. Books(u.streams[id], f.send_state, Append(q, p), f.bytes_sent, f.written + p.len)
    BY <1>6, <1>7, <2>1 DEF Books, WtStreamInfo
  <2>3. Accounted(u.streams[id])
    BY <1>1, <1>4, <1>5, <1>6, <1>12, <2>2, AccountAppend DEF q
  <2>4. Only(s, u, id)
    BY <1>11, <2>1, OnlyTransitive
  <2>5. Local(e, u)
    BY <1>1, <2>3, <2>4, OnlyLocal
  <2>6. QED
    BY <1>2, <1>12, <2>5 DEF u, q
<1>13. CASE q = <<>> /\ sendable(s, id, n) < n
  <2> DEFINE u == send_part(t, id, p)
             k == sendable(t, id, p.len)
             r == rest_of_send(p, k)
  <2>0. g.pending_sends = <<>> /\ g.send_state = "Ready" /\ f.bytes_sent = f.written
    BY <1>4, <1>7, <1>13 DEF Books, Accounted, q
  <2>1. /\ Only(t, u, id)
        /\ Books(u.streams[id], g.send_state, <<r>>, g.bytes_sent + k, g.written)
    BY <1>6, <1>9, <1>11, <2>0, SendPartOnly
  <2>2. k \in Nat
    BY <1>6, <1>9, <1>11, SendableFits
  <2> HIDE DEF u, k
  <2>3. r.off = f.written + k /\ r.len = n - k
    BY <1>6, <1>8, <2>2 DEF rest_of_send, PendingSend
  <2> HIDE DEF r
  <2>4. Books(u.streams[id], "Ready", <<r>>, f.written + k, f.written + n)
    BY <1>7, <2>0, <2>1 DEF Books
  <2>5. Accounted(u.streams[id])
    BY <1>8, <2>2, <2>3, <2>4, AccountPart
  <2>6. Only(s, u, id)
    BY <1>11, <2>1, OnlyTransitive
  <2>7. Local(e, u)
    BY <1>1, <2>5, <2>6, OnlyLocal
  <2>8. QED
    BY <1>2, <1>13, <2>7 DEF u, q
<1>14. CASE q = <<>> /\ ~(sendable(s, id, n) < n)
  <2> DEFINE sent == send_stream_capsule(t, id, p, p.len)
  <2>0. g.pending_sends = <<>> /\ f.bytes_sent = f.written
    BY <1>4, <1>7, <1>14 DEF Books, Accounted, q
  <2>1. Only(t, sent, id) /\ sent.streams[id] = [g EXCEPT !.bytes_sent = @ + p.len]
    BY <1>1, <1>11, SendStreamCapsuleOnly
  <2>2. Good(sent) /\ sent.ids = t.ids
    <3>1. g.bytes_sent = f.bytes_sent
      BY <1>7 DEF Books
    <3>2. /\ t.bytes_sent + p.len <= t.max_data_local
          /\ t.streams[id].bytes_sent + p.len <= t.streams[id].max_stream_data_local
      BY <1>3, <1>6, <1>7, <1>10, <1>11, <1>14, <3>1
    <3>3. p.len \in Nat
      BY <1>6
    <3>4. QED
      BY <1>6, <1>9, <1>11, <3>2, <3>3, SendStreamCapsuleGood
  <2>3. send_all(t, e, id, p) = IF p.fin THEN finish_sending(sent, e, id) ELSE sent
    BY DEF send_all
  <2> HIDE DEF sent
  <2>4. /\ sent.streams[id].pending_sends = <<>>
        /\ sent.streams[id].bytes_sent = sent.streams[id].written
    BY <1>6, <1>7, <1>8, <2>0, <2>1 DEF Books, WtStreamInfo
  <2>5. Only(s, sent, id)
    BY <1>11, <2>1, OnlyTransitive
  <2>6. Local(e, sent)
    BY <1>1, <2>4, <2>5, NewAccount, OnlyLocal
  <2>7. Local(e, finish_sending(sent, e, id))
    BY <1>11, <2>2, <2>4, <2>6, FinishLocal
  <2>8. QED
    BY <1>2, <1>14, <2>3, <2>6, <2>7 DEF q
<1>15. QED
  BY <1>12, <1>13, <1>14

LEMMA ResetStreamLocal ==
    ASSUME NEW s, Good(s), NEW e \in End, NEW id \in s.ids, Local(e, s)
    PROVE  Local(e, reset_stream(s, e, id))
<1> DEFINE v == s.streams[id].bytes_sent
           t == send_capsule(s, "WT_RESET_STREAM", id, v)
           f == s.streams[id]
           g == [f EXCEPT !.send_state = "ResetSent", !.pending_sends = <<>>]
           u == [t EXCEPT !.streams[id] = g]
<1>1. /\ id \in StreamId /\ v \in Nat /\ <<>> \in Seq(PendingSend)
      /\ s \in WtSessionInfo /\ s.ids \subseteq StreamId
  BY GoodFields, StreamFields
<1>2. reset_stream(s, e, id) = maybe_release_stream(
          [t EXCEPT !.streams[id].send_state = "ResetSent",
                    !.streams[id].pending_sends = <<>>], e, id)
  BY DEF reset_stream
<1> HIDE DEF v
<1>3. Good(t) /\ Kept(s, t) /\ t.streams = s.streams
  BY <1>1, SendCapsule, SendCapsuleKept DEF CapsuleType
<1> HIDE DEF t
<1>4. u = [t EXCEPT !.streams[id].send_state = "ResetSent",
                    !.streams[id].pending_sends = <<>>]
  BY <1>1, <1>3 DEF Good, WtSessionInfo
<1>5. f \in WtStreamInfo /\ StreamCredit(f)
  BY <1>1, GoodFields DEF Good
<1>6. t.streams[id] = f
  BY <1>3
<1> HIDE DEF f
<1>7. /\ g \in WtStreamInfo /\ StreamCredit(g) /\ g.recv_state = f.recv_state
      /\ g.pending_sends = <<>> /\ g.send_state \in SendDone
  BY <1>1, <1>5 DEF WtStreamInfo, StreamCredit, SendState, SendDone
<1> HIDE DEF g
<1>8. Good(u)
  BY <1>1, <1>3, <1>7, SetStream
<1>9. Kept(t, u) /\ u.streams = [t.streams EXCEPT ![id] = g]
  BY <1>3 DEF Good, WtSessionInfo, Kept
<1> HIDE DEF u
<1>10. Only(t, u, id) /\ u.streams[id] = g
  BY <1>1, <1>3, <1>6, <1>7, <1>9, SetStreamOnly DEF Good
<1>11. Only(s, u, id)
  BY <1>3, <1>10, KeptOnly, OnlyTransitive
<1>12. Local(e, u)
  BY <1>1, <1>7, <1>10, <1>11, DoneAccount, OnlyLocal
<1>13. QED
  BY <1>1, <1>2, <1>4, <1>8, <1>12, ReleaseLocal

LEMMA StopSendingLocal ==
    ASSUME NEW s, Good(s), NEW e, NEW id, Local(e, s)
    PROVE  Local(e, stop_sending(s, id))
<1> DEFINE t == stop_sending(s, id)
<1>1. s \in WtSessionInfo /\ s.ids \subseteq StreamId
  BY GoodFields
<1>2. Kept(s, t) /\ t.streams = s.streams
  BY <1>1 DEF stop_sending, send_capsule, WtSessionInfo, Kept
<1> HIDE DEF t
<1>3. Local(e, t)
  BY <1>1, <1>2, KeptLocal
<1>4. QED
  BY <1>3 DEF t

LEMMA FlushOneLocal ==
    ASSUME NEW s, Good(s), NEW e \in End, NEW id \in Flushable(s), Local(e, s)
    PROVE  Local(e, flush_one(s, e, id))
<1> DEFINE f == s.streams[id]
           q == f.pending_sends
           p == Head(q)
           n == sendable(s, id, p.len)
           sent == send_stream_capsule(s, id, p, n)
           popped == [sent EXCEPT !.streams[id].pending_sends = Tail(q)]
           rest == [q EXCEPT ![1] = rest_of_send(p, n)]
           moved == [sent EXCEPT !.streams[id].pending_sends = rest]
<1>1. /\ id \in s.ids /\ id \in StreamId /\ q # <<>> /\ q \in Seq(PendingSend)
      /\ s \in WtSessionInfo /\ s.ids \subseteq StreamId /\ f \in WtStreamInfo
  BY GoodFields, StreamFields DEF Flushable
<1>2. p \in PendingSend /\ Tail(q) \in Seq(PendingSend)
  <2> HIDE DEF q
  <2> QED BY <1>1
<1>3. sent.streams[id].pending_sends = q
  BY <1>1, SendStreamCapsuleFrame
<1>4. flush_one(s, e, id) =
          IF n < p.len THEN moved
          ELSE IF p.fin THEN finish_sending(popped, e, id) ELSE popped
  <2>1. [sent EXCEPT !.streams[id].pending_sends = Tail(@)] = popped
    BY <1>3
  <2>2. [sent EXCEPT !.streams[id].pending_sends[1] = rest_of_send(p, n)] = moved
    BY <1>3
  <2>3. QED
    BY <2>1, <2>2 DEF flush_one
<1>5. Accounted(f)
  BY <1>1 DEF Local, AllAccounted
<1>6. Only(s, sent, id) /\ sent.streams[id] = [f EXCEPT !.bytes_sent = @ + n]
  BY <1>1, SendStreamCapsuleOnly
<1> HIDE DEF f
<1>7. /\ n \in Nat /\ n <= p.len /\ p.len \in Nat
      /\ s.bytes_sent + n <= s.max_data_local
      /\ f.bytes_sent + n <= f.max_stream_data_local
  BY <1>1, <1>2, SendableFits DEF PendingSend, f
<1> HIDE DEF q, p, n
<1>8. Good(sent) /\ sent.ids = s.ids
  BY <1>1, <1>2, <1>7, SendStreamCapsuleGood DEF f
<1>9. rest \in Seq(PendingSend)
  BY <1>1, <1>2, <1>7, RestOfSend, ReplaceHead
<1>10. sent.streams[id] \in WtStreamInfo /\ sent \in WtSessionInfo
  BY <1>1, <1>8, GoodFields
<1> HIDE DEF sent, rest
<1>11. ASSUME NEW x, NEW u, u = [sent EXCEPT !.streams[id].pending_sends = x]
       PROVE  /\ Only(s, u, id) /\ u.ids = s.ids
              /\ Books(u.streams[id], f.send_state, x, f.bytes_sent + n, f.written)
  <2> DEFINE g == [sent.streams[id] EXCEPT !.pending_sends = x]
  <2>1. Kept(sent, u) /\ u.streams = [sent.streams EXCEPT ![id] = g]
    BY <1>10, <1>11 DEF Kept, WtSessionInfo
  <2>2. /\ g.recv_state = sent.streams[id].recv_state
        /\ Books(g, f.send_state, x, f.bytes_sent + n, f.written)
    BY <1>1, <1>6, <1>10 DEF WtStreamInfo, Books
  <2> HIDE DEF g
  <2>3. Only(sent, u, id) /\ u.streams[id] = g
    BY <1>1, <1>10, <2>1, <2>2, SetStreamOnly
  <2>4. QED
    BY <1>6, <1>8, <2>1, <2>2, <2>3, OnlyTransitive DEF Kept
<1>12. /\ Good(moved) /\ Good(popped)
  BY <1>1, <1>2, <1>8, <1>9, SetPending
<1>13. /\ Only(s, moved, id)
       /\ Books(moved.streams[id], f.send_state, rest, f.bytes_sent + n, f.written)
       /\ Only(s, popped, id) /\ popped.ids = s.ids
       /\ Books(popped.streams[id], f.send_state, Tail(q), f.bytes_sent + n, f.written)
  BY <1>11
<1> HIDE DEF moved, popped
<1>14. Local(e, moved)
  <2>1. Accounted(moved.streams[id])
    BY <1>1, <1>5, <1>7, <1>13, AccountRest DEF rest, p, q
  <2>2. QED
    BY <1>1, <1>13, <2>1, OnlyLocal
<1>15. CASE ~(n < p.len)
  <2>1. n = p.len
    BY <1>7, <1>15
  <2>2. /\ Accounted(popped.streams[id])
        /\ p.fin => popped.streams[id].pending_sends = <<>>
    BY <1>1, <1>5, <1>13, <2>1, AccountPop DEF p, q
  <2>3. Local(e, popped)
    BY <1>1, <1>13, <2>2, OnlyLocal
  <2>4. p.fin => Local(e, finish_sending(popped, e, id))
    BY <1>1, <1>12, <1>13, <2>2, <2>3, FinishLocal
  <2>5. QED
    BY <1>4, <1>15, <2>3, <2>4
<1>16. QED
  BY <1>4, <1>14, <1>15

LEMMA FlushReturnsLocal ==
    ASSUME NEW s, Good(s), NEW e, Local(e, s)
    PROVE  Local(e, flush_returns(s))
<1> DEFINE g(id) == IF s.streams[id].send_state \in SendDone
                    THEN [s.streams[id] EXCEPT !.pending_sends = <<>>]
                    ELSE s.streams[id]
           t == flush_returns(s)
<1>1. s \in WtSessionInfo /\ s.ids \subseteq StreamId
  BY GoodFields
<1>2. /\ t.ids = s.ids /\ t.seen = s.seen /\ t.flushing = FALSE
      /\ t.released_stream_ids = s.released_stream_ids
      /\ t.max_streams_remote = s.max_streams_remote
      /\ t.streams = [id \in StreamId |-> g(id)]
  BY <1>1 DEF flush_returns, WtSessionInfo
<1> HIDE DEF t
<1>3. ASSUME NEW id \in StreamId
      PROVE  /\ t.streams[id].recv_state = s.streams[id].recv_state
             /\ Accounted(s.streams[id]) => Accounted(t.streams[id])
  <2>1. t.streams[id] = g(id) /\ s.streams[id] \in WtStreamInfo
    BY <1>1, <1>2 DEF WtSessionInfo
  <2>2. CASE s.streams[id].send_state \in SendDone
    <3>1. /\ t.streams[id].recv_state = s.streams[id].recv_state
          /\ t.streams[id].pending_sends = <<>>
          /\ t.streams[id].send_state \in SendDone
      BY <2>1, <2>2 DEF WtStreamInfo
    <3>2. QED
      BY <3>1, DoneAccount
  <2>3. CASE s.streams[id].send_state \notin SendDone
    BY <2>1, <2>3
  <2>4. QED
    BY <2>2, <2>3
<1>4. Quiet(t) /\ AllAccounted(t) /\ (NotFull(t) => NotFull(s))
  BY <1>1, <1>2, <1>3 DEF Quiet, AllAccounted, Local, NotFull
<1>5. Heard(e, s) => Heard(e, t)
  <2>1. \A id \in StreamId : Over(s, id) => Over(t, id)
    BY <1>2, <1>3 DEF Over
  <2>2. QED
    BY <1>2, <2>1 DEF Heard
<1>6. Places(e, s) => Places(e, t)
  <2>1. \A d : Below(e, t, d) = Below(e, s, d)
    BY <1>2 DEF Below
  <2>2. QED
    BY <1>2, <2>1 DEF Places
<1>7. Local(e, t)
  BY <1>4, <1>5, <1>6 DEF Local
<1>8. QED
  BY <1>7 DEF t

-----------------------------------------------------------------------------
(* The capsules that arrive.                                               *)

(* A new entry of the map.                                                 *)
Created(s, t, id) ==
    /\ t.ids = s.ids \cup {id}
    /\ t.released_stream_ids = s.released_stream_ids
    /\ t.max_streams_remote = s.max_streams_remote
    /\ t.status = s.status /\ t.flushing = s.flushing
    /\ \A o \in StreamId : o # id => t.streams[o] = s.streams[o] /\ t.seen[o] = s.seen[o]
    /\ Accounted(t.streams[id])

LEMMA CreatedLocal ==
    ASSUME NEW e, NEW s, NEW t, NEW id \in StreamId, s.ids \subseteq StreamId,
           Local(e, s), Created(s, t, id), id \notin s.ids,
           NotFull(s) => t.seen[id] = "live",
           ~is_local(e, id) => /\ id \notin s.released_stream_ids
                               /\ id \div 4 < s.max_streams_remote[DirOf(id)]
    PROVE  Local(e, t)
<1>1. Quiet(t) /\ AllAccounted(t) /\ (NotFull(t) => NotFull(s))
  BY DEF Local, Quiet, AllAccounted, NotFull, Created
<1>2. NotFull(s) /\ Heard(e, s) => Heard(e, t)
  <2> SUFFICES ASSUME NotFull(s), Heard(e, s), NEW o \in StreamId, t.seen[o] # "live"
               PROVE  /\ is_receivable_data_capsule(e, o)
                      /\ t.seen[o] # "broken"
                      /\ Over(t, o)
    BY DEF Heard
  <2>1. o # id /\ t.seen[o] = s.seen[o] /\ t.streams[o] = s.streams[o]
    BY DEF Created
  <2>2. Over(s, o) => Over(t, o)
    BY <2>1 DEF Over, Created
  <2>3. QED
    BY <2>1, <2>2 DEF Heard
<1>3. Places(e, s) => Places(e, t)
  <2> SUFFICES ASSUME Places(e, s), NEW d \in Dir
               PROVE  /\ Remote(e, d, t.ids) \subseteq Below(e, s, d)
                      /\ Remote(e, d, t.ids) \cap Remote(e, d, s.released_stream_ids) = {}
    <3>1. \A d_1 : Below(e, t, d_1) = Below(e, s, d_1)
      BY DEF Below, Created
    <3>2. QED
      BY <3>1 DEF Places, Created
  <2>1. /\ Remote(e, d, s.ids) \subseteq Below(e, s, d)
        /\ Remote(e, d, s.ids) \cap Remote(e, d, s.released_stream_ids) = {}
    BY DEF Places
  <2>2. \A o \in Remote(e, d, t.ids) : o \in Remote(e, d, s.ids) \/ o = id
    BY DEF Remote, Created
  <2>3. id \in Remote(e, d, t.ids) =>
            id \in Below(e, s, d) /\ id \notin Remote(e, d, s.released_stream_ids)
    BY DEF Remote, Below
  <2>4. QED
    BY <2>1, <2>2, <2>3
<1>4. QED
  BY <1>1, <1>2, <1>3 DEF Local

LEMMA NewStreamFields ==
    ASSUME NEW s \in WtSessionInfo, NEW e, NEW id \in StreamId
    PROVE  LET t == new_stream(s, e, id)
           IN  /\ Created(s, t, id) /\ t.seen = s.seen
               /\ t.streams[id].recv_state = "Recv"
               /\ t.streams[id].bytes_received = 0
<1> DEFINE t == new_stream(s, e, id)
           f == [NoStream EXCEPT
                    !.max_stream_data_local = initialize_stream_send_credit(s, e, id),
                    !.max_stream_data_remote = Config[e].max_stream_data]
<1>1. /\ t.ids = s.ids \cup {id} /\ t.seen = s.seen
      /\ t.released_stream_ids = s.released_stream_ids
      /\ t.max_streams_remote = s.max_streams_remote
      /\ t.status = s.status /\ t.flushing = s.flushing
      /\ t.streams = [s.streams EXCEPT ![id] = f]
  BY DEF new_stream, WtSessionInfo
<1>2. /\ f.pending_sends = <<>> /\ f.bytes_sent = f.written /\ f.recv_state = "Recv"
      /\ f.bytes_received = 0
  BY DEF NoStream
<1> HIDE DEF t, f
<1>3. Accounted(f)
  BY <1>2, NewAccount
<1>4. /\ t.streams[id] = f
      /\ \A o \in StreamId : o # id => t.streams[o] = s.streams[o]
  BY <1>1 DEF WtSessionInfo
<1>5. Created(s, t, id)
  BY <1>1, <1>3, <1>4 DEF Created
<1>6. QED
  BY <1>1, <1>2, <1>4, <1>5 DEF t

(* The stream of an accepted data capsule may be created.                  *)
LEMMA KnownLocal ==
    ASSUME NEW s, Good(s), NEW e \in End, NEW c \in Capsule, Local(e, s),
           c.id \notin s.ids => /\ c.id \notin s.released_stream_ids
                                /\ ~incoming_stream_exceeds_limit(s, c.id)
    PROVE  /\ Local(e, Known(s, e, c))
           /\ Known(s, e, c).status = s.status
           /\ Known(s, e, c).flushing = s.flushing
<1>1. c.id \in StreamId /\ s \in WtSessionInfo /\ s.ids \subseteq StreamId
  BY GoodFields DEF Capsule
<1>2. CASE c.id \in s.ids
  BY <1>2 DEF Known
<1>3. CASE c.id \notin s.ids
  <2> DEFINE t == new_stream(s, e, c.id)
  <2>1. Created(s, t, c.id) /\ t.seen = s.seen
    BY <1>1, NewStreamFields
  <2> HIDE DEF t
  <2>2. NotFull(s) => t.seen[c.id] = "live"
    BY <1>1, <1>3, <2>1 DEF Local, Heard, Over
  <2>3. c.id \div 4 < s.max_streams_remote[DirOf(c.id)]
    <3>1. DirOf(c.id) \in Dir /\ c.id \div 4 \in Int
      BY <1>1, BoundAssumption DEF DirOf, Dir, StreamId
    <3>2. s.max_streams_remote[DirOf(c.id)] \in Nat
      BY <1>1, <3>1 DEF WtSessionInfo
    <3>3. QED
      BY <1>3, <3>1, <3>2 DEF incoming_stream_exceeds_limit
  <2>4. Local(e, t)
    BY <1>1, <1>3, <2>1, <2>2, <2>3, CreatedLocal
  <2>5. QED
    BY <1>3, <2>1, <2>4 DEF Known, t, Created
<1>4. QED
  BY <1>2, <1>3

(* The application is told something of one stream.                        *)
Tells(s, t, id) ==
    /\ t.ids = s.ids
    /\ t.released_stream_ids = s.released_stream_ids
    /\ t.max_streams_remote = s.max_streams_remote
    /\ t.status = s.status /\ t.flushing = s.flushing
    /\ \A o \in StreamId : o # id => t.streams[o] = s.streams[o] /\ t.seen[o] = s.seen[o]
    /\ SameBooks(s.streams[id], t.streams[id])

LEMMA TellsTransitive ==
    ASSUME NEW s, NEW t, NEW u, NEW id, Tells(s, t, id), Tells(t, u, id)
    PROVE  Tells(s, u, id)
BY DEF Tells, SameBooks

LEMMA OnlyTells ==
    ASSUME NEW s, NEW t, NEW id, Only(s, t, id), SameBooks(s.streams[id], t.streams[id])
    PROVE  Tells(s, t, id)
BY DEF Tells, Only, Kept

LEMMA TellsLocal ==
    ASSUME NEW e, NEW s, NEW t, NEW id \in s.ids, s.ids \subseteq StreamId,
           Local(e, s), Tells(s, t, id), is_receivable_data_capsule(e, id),
           NotFull(s) /\ t.seen[id] # "live" =>
               t.seen[id] # "broken" /\ t.streams[id].recv_state \in RecvDone
    PROVE  Local(e, t)
<1>1. Quiet(t) /\ (NotFull(t) => NotFull(s))
  BY DEF Local, Quiet, NotFull, Tells
<1>2. AllAccounted(t)
  <2> SUFFICES ASSUME NEW o \in s.ids PROVE Accounted(t.streams[o])
    BY DEF AllAccounted, Tells
  <2>1. Accounted(s.streams[o])
    BY DEF Local, AllAccounted
  <2>2. CASE o = id
    BY <2>1, <2>2, SameAccount DEF Tells
  <2>3. CASE o # id
    BY <2>1, <2>3 DEF Tells
  <2>4. QED
    BY <2>2, <2>3
<1>3. NotFull(s) /\ Heard(e, s) => Heard(e, t)
  <2> SUFFICES ASSUME NotFull(s), Heard(e, s), NEW o \in StreamId, t.seen[o] # "live"
               PROVE  /\ is_receivable_data_capsule(e, o)
                      /\ t.seen[o] # "broken"
                      /\ Over(t, o)
    BY DEF Heard
  <2>1. CASE o = id
    BY <2>1 DEF Over, Tells
  <2>2. CASE o # id
    <3>1. t.seen[o] = s.seen[o] /\ t.streams[o] = s.streams[o]
      BY <2>2 DEF Tells
    <3>2. Over(s, o) => Over(t, o)
      BY <3>1 DEF Over, Tells
    <3>3. QED
      BY <3>1, <3>2 DEF Heard
  <2>3. QED
    BY <2>1, <2>2
<1>4. Places(e, s) => Places(e, t)
  <2>1. \A d : Below(e, t, d) = Below(e, s, d)
    BY DEF Below, Tells
  <2>2. QED
    BY <2>1 DEF Places, Tells
<1>5. QED
  BY <1>1, <1>2, <1>3, <1>4 DEF Local

(* What was seen of a stream after an event.                               *)
seen_after(a, n, reset, fin) ==
    IF a = "live" THEN (IF fin \/ reset THEN "ended" ELSE "live")
    ELSE IF n > 0 \/ reset THEN "broken"
    ELSE IF fin /\ a = "ended" THEN "reended" ELSE a

LEMMA PushEventTells ==
    ASSUME NEW s \in WtSessionInfo, NEW id \in StreamId, NEW n,
           NEW reset \in BOOLEAN, NEW fin \in BOOLEAN
    PROVE  /\ Tells(s, push_event(s, id, n, reset, fin), id)
           /\ push_event(s, id, n, reset, fin).streams = s.streams
           /\ push_event(s, id, n, reset, fin).seen[id]
                  = seen_after(s.seen[id], n, reset, fin)
<1> DEFINE t == push_event(s, id, n, reset, fin)
           a == seen_after(s.seen[id], n, reset, fin)
<1>1. /\ t.ids = s.ids /\ t.released_stream_ids = s.released_stream_ids
      /\ t.max_streams_remote = s.max_streams_remote
      /\ t.status = s.status /\ t.flushing = s.flushing
      /\ t.streams = s.streams
  BY DEF push_event, WtSessionInfo
<1>2. t.seen = [s.seen EXCEPT ![id] = a]
  BY DEF push_event, seen_after, WtSessionInfo
<1> HIDE DEF t, a
<1>3. t.seen[id] = a /\ \A o \in StreamId : o # id => t.seen[o] = s.seen[o]
  BY <1>2 DEF WtSessionInfo
<1>4. QED
  BY <1>1, <1>3 DEF Tells, SameBooks, t, a

LEMMA CountOnly ==
    ASSUME NEW s \in WtSessionInfo, NEW id \in StreamId, NEW n
    PROVE  LET t == [s EXCEPT !.bytes_received = @ + n,
                              !.streams[id].bytes_received = @ + n]
           IN  /\ Only(s, t, id)
               /\ SameBooks(s.streams[id], t.streams[id])
               /\ t.seen = s.seen
<1> DEFINE t == [s EXCEPT !.bytes_received = @ + n, !.streams[id].bytes_received = @ + n]
           f == [s.streams[id] EXCEPT !.bytes_received = @ + n]
<1>1. Kept(s, t) /\ t.streams = [s.streams EXCEPT ![id] = f] /\ t.seen = s.seen
  BY DEF Kept, WtSessionInfo
<1>2. f.recv_state = s.streams[id].recv_state /\ SameBooks(s.streams[id], f)
  BY DEF WtSessionInfo, WtStreamInfo, SameBooks
<1> HIDE DEF t, f
<1>3. Only(s, t, id) /\ t.streams[id] = f
  BY <1>1, <1>2, SetStreamOnly
<1>4. QED
  BY <1>1, <1>2, <1>3 DEF t

recv_ended(s, id, state) == [s EXCEPT !.streams[id].recv_state = state]

LEMMA RecvStateTells ==
    ASSUME NEW s \in WtSessionInfo, NEW id \in StreamId, NEW state
    PROVE  /\ Tells(s, recv_ended(s, id, state), id)
           /\ recv_ended(s, id, state).seen = s.seen
           /\ recv_ended(s, id, state).streams[id].recv_state = state
<1> DEFINE t == [s EXCEPT !.streams[id].recv_state = state]
           f == [s.streams[id] EXCEPT !.recv_state = state]
<1>1. /\ t.ids = s.ids /\ t.released_stream_ids = s.released_stream_ids
      /\ t.max_streams_remote = s.max_streams_remote
      /\ t.status = s.status /\ t.flushing = s.flushing /\ t.seen = s.seen
      /\ t.streams = [s.streams EXCEPT ![id] = f]
  BY DEF WtSessionInfo
<1>2. f.recv_state = state /\ SameBooks(s.streams[id], f)
  BY DEF WtSessionInfo, WtStreamInfo, SameBooks
<1> HIDE DEF t, f
<1>3. t.streams[id] = f /\ \A o \in StreamId : o # id => t.streams[o] = s.streams[o]
  BY <1>1 DEF WtSessionInfo
<1>4. Tells(s, t, id)
  BY <1>1, <1>2, <1>3 DEF Tells
<1>5. QED
  BY <1>1, <1>2, <1>3, <1>4 DEF t, recv_ended

LEMMA StreamAccepted ==
    ASSUME NEW s, NEW e, NEW c, wt_stream_verdict(s, e, c) = "accept"
    PROVE  /\ is_receivable_data_capsule(e, c.id)
           /\ c.id \notin s.ids => /\ c.id \notin s.released_stream_ids
                                   /\ ~incoming_stream_exceeds_limit(s, c.id)
           /\ c.len > 0 => Known(s, e, c).streams[c.id].recv_state \notin RecvDone
<1> DEFINE info == IF c.id \in s.ids THEN s.streams[c.id]
                                     ELSE new_stream(s, e, c.id).streams[c.id]
<1>1. info = Known(s, e, c).streams[c.id]
  BY DEF Known
<1> HIDE DEF info
<1>2. /\ is_receivable_data_capsule(e, c.id)
      /\ ~(c.id \notin s.ids /\ c.id \in s.released_stream_ids)
      /\ ~(c.id \notin s.ids /\ incoming_stream_exceeds_limit(s, c.id))
      /\ ~(c.len > 0 /\ info.recv_state \in RecvDone)
  BY DEF wt_stream_verdict, info
<1>3. QED
  BY <1>1, <1>2

LEMMA ResetAccepted ==
    ASSUME NEW s, Good(s), NEW e \in End, NEW c \in Capsule,
           wt_reset_stream_verdict(s, e, c) = "accept"
    PROVE  /\ is_receivable_data_capsule(e, c.id)
           /\ c.id \notin s.ids => /\ c.id \notin s.released_stream_ids
                                   /\ ~incoming_stream_exceeds_limit(s, c.id)
           /\ Known(s, e, c).streams[c.id].recv_state \notin RecvDone
<1>1. is_receivable_data_capsule(e, c.id)
  BY DEF wt_reset_stream_verdict
<1>2. c.id \in StreamId /\ s \in WtSessionInfo
  BY GoodFields DEF Capsule
<1>3. CASE c.id \notin s.ids
  <2>1. c.id \notin s.released_stream_ids /\ ~incoming_stream_exceeds_limit(s, c.id)
    BY <1>1, <1>3 DEF wt_reset_stream_verdict
  <2>2. Known(s, e, c).streams[c.id].recv_state = "Recv"
    BY <1>2, <1>3, NewStreamFields DEF Known
  <2>3. QED
    BY <1>1, <1>3, <2>1, <2>2 DEF RecvDone
<1>4. CASE c.id \in s.ids
  <2>1. s.streams[c.id].recv_state \notin RecvDone
    BY <1>1, <1>4 DEF wt_reset_stream_verdict
  <2>2. QED
    BY <1>1, <1>4, <2>1 DEF Known
<1>5. QED
  BY <1>3, <1>4

LEMMA HandleWtStreamLocal ==
    ASSUME NEW s, Good(s), NEW e \in End, NEW c \in Capsule, Local(e, s),
           wt_stream_verdict(s, e, c) = "accept"
    PROVE  Local(e, handle_wt_stream(s, e, c))
<1> DEFINE id    == c.id
           fin   == c.type = "WT_STREAM_FIN"
           known == Known(s, e, c)
           told  == push_event(known, c.id, c.len, FALSE, fin)
           count == [told EXCEPT !.bytes_received = @ + c.len,
                                 !.streams[c.id].bytes_received = @ + c.len]
           data  == maybe_send_max_data(count, e)
           grant == maybe_send_max_stream_data(data, e, c.id)
           done  == [grant EXCEPT !.streams[c.id].recv_state = "DataRecvd"]
<1>1. c.len \in Nat /\ c.id \in StreamId
  BY DEF Capsule
<1>2. /\ Good(known) /\ c.id \in known.ids
      /\ known.bytes_received + c.len <= known.max_data_remote
      /\ known.streams[c.id].bytes_received + c.len
             <= known.streams[c.id].max_stream_data_remote
  BY KnownGood, AcceptFits
<1>3. handle_wt_stream(s, e, c) =
          IF fin THEN maybe_release_stream(done, e, c.id) ELSE grant
  BY DEF handle_wt_stream, Known
<1>4. Local(e, known)
  BY StreamAccepted, KnownLocal
<1>5. /\ is_receivable_data_capsule(e, c.id)
      /\ c.len > 0 => known.streams[c.id].recv_state \notin RecvDone
  BY StreamAccepted
<1> HIDE DEF known
<1>6. /\ Good(told) /\ c.id \in told.ids /\ told \in WtSessionInfo
      /\ told.bytes_received + c.len <= told.max_data_remote
      /\ told.streams[c.id].bytes_received + c.len
             <= told.streams[c.id].max_stream_data_remote
  BY <1>1, <1>2, PushEventGood, GoodFields, ZenonT(60)
<1>7. /\ Tells(known, told, c.id) /\ told.streams = known.streams
      /\ told.seen[c.id] = seen_after(known.seen[c.id], c.len, FALSE, fin)
  <2>1. known \in WtSessionInfo
    BY <1>2, GoodFields
  <2>2. fin \in BOOLEAN
    OBVIOUS
  <2> HIDE DEF fin
  <2>3. Tells(known, told, c.id)
    BY <1>1, <2>1, <2>2, PushEventTells
  <2>4. told.streams = known.streams
    BY <1>1, <2>1, <2>2, PushEventTells, ZenonT(60)
  <2>5. told.seen[c.id] = seen_after(known.seen[c.id], c.len, FALSE, fin)
    BY <1>1, <2>1, <2>2 DEF push_event, seen_after, WtSessionInfo
  <2>6. QED
    BY <2>3, <2>4, <2>5
<1> HIDE DEF told
<1>8. Good(count) /\ c.id \in count.ids
  BY <1>1, <1>6, CountGood
<1>9. /\ Only(told, count, c.id) /\ SameBooks(told.streams[c.id], count.streams[c.id])
  BY <1>1, <1>6, CountOnly
<1> HIDE DEF count
<1>10. Good(data) /\ c.id \in data.ids
  BY <1>8, MaxDataGood, MaxDataFrame, GoodFields
<1>11. Kept(count, data) /\ data.streams = count.streams
  BY <1>8, MaxDataKept, GoodFields
<1> HIDE DEF data
<1>12. Good(grant) /\ c.id \in grant.ids
  BY <1>10, MaxStreamDataGood, MaxStreamDataFrame, GoodFields
<1>13. Only(data, grant, c.id) /\ SameBooks(data.streams[c.id], grant.streams[c.id])
  BY <1>1, <1>10, MaxStreamDataOnly, GoodFields
<1> HIDE DEF grant
<1>14. Only(told, grant, c.id)
  BY <1>9, <1>11, <1>13, KeptOnly, OnlyTransitive
<1>15. SameBooks(told.streams[c.id], grant.streams[c.id])
  BY <1>9, <1>11, <1>13 DEF SameBooks
<1>16. Tells(known, grant, c.id)
  BY <1>7, <1>14, <1>15, OnlyTells, TellsTransitive
<1>17. /\ grant.seen[c.id] = seen_after(known.seen[c.id], c.len, FALSE, fin)
       /\ grant.streams[c.id].recv_state = known.streams[c.id].recv_state
  BY <1>7, <1>14 DEF Only, Kept
<1>18. NotFull(known) /\ known.seen[c.id] # "live" =>
           /\ known.seen[c.id] # "broken"
           /\ known.streams[c.id].recv_state \in RecvDone
           /\ c.len = 0
  <2>1. NotFull(known) /\ known.seen[c.id] # "live" =>
            /\ known.seen[c.id] # "broken"
            /\ known.streams[c.id].recv_state \in RecvDone
    BY <1>1, <1>2, <1>4 DEF Local, Heard, Over
  <2>2. QED
    BY <1>1, <1>5, <2>1
<1>19. known.ids \subseteq StreamId
  BY <1>2, GoodFields
<1>20. CASE ~fin
  <2>1. NotFull(known) /\ grant.seen[c.id] # "live" =>
            grant.seen[c.id] # "broken" /\ grant.streams[c.id].recv_state \in RecvDone
    BY <1>17, <1>18, <1>20 DEF seen_after
  <2>2. Local(e, grant)
    BY <1>2, <1>4, <1>5, <1>16, <1>19, <2>1, TellsLocal
  <2>3. QED
    BY <1>3, <1>20, <2>2
<1>21. CASE fin
  <2>1. Good(done)
    BY <1>12, SetRecvState DEF RecvState
  <2>2. /\ Tells(grant, done, c.id) /\ done.seen = grant.seen
        /\ done.streams[c.id].recv_state = "DataRecvd"
    <3>1. grant \in WtSessionInfo
      BY <1>12, GoodFields
    <3>2. done = recv_ended(grant, c.id, "DataRecvd")
      BY DEF recv_ended
    <3> HIDE DEF done
    <3>3. QED
      BY <1>1, <3>1, <3>2, RecvStateTells
  <2> HIDE DEF done
  <2>3. Tells(known, done, c.id)
    BY <1>16, <2>2, TellsTransitive
  <2>4. NotFull(known) => done.seen[c.id] # "broken"
    BY <1>17, <1>18, <2>2 DEF seen_after
  <2>5. done.streams[c.id].recv_state \in RecvDone
    BY <2>2 DEF RecvDone
  <2>6. Local(e, done)
    BY <1>2, <1>4, <1>5, <1>19, <2>3, <2>4, <2>5, TellsLocal
  <2>7. Local(e, maybe_release_stream(done, e, c.id))
    BY <1>1, <2>1, <2>6, ReleaseLocal
  <2>8. QED
    BY <1>3, <1>21, <2>7
<1>22. QED
  BY <1>20, <1>21

LEMMA HandleWtResetStreamLocal ==
    ASSUME NEW s, Good(s), NEW e \in End, NEW c \in Capsule, Local(e, s),
           wt_reset_stream_verdict(s, e, c) = "accept"
    PROVE  Local(e, handle_wt_reset_stream(s, e, c))
<1> DEFINE known == Known(s, e, c)
           told  == push_event(known, c.id, 0, TRUE, FALSE)
           done  == [told EXCEPT !.streams[c.id].recv_state = "ResetRecvd"]
<1>1. c.id \in StreamId /\ Good(known) /\ c.id \in known.ids
  BY KnownGood
<1>2. handle_wt_reset_stream(s, e, c) = maybe_release_stream(done, e, c.id)
  BY DEF handle_wt_reset_stream, Known
<1>3. Local(e, known)
  BY ResetAccepted, KnownLocal
<1>4. /\ is_receivable_data_capsule(e, c.id)
      /\ known.streams[c.id].recv_state \notin RecvDone
  BY ResetAccepted
<1> HIDE DEF known
<1>5. Good(told) /\ c.id \in told.ids /\ told \in WtSessionInfo
  <2>1. Good(told) /\ told.ids = known.ids
    BY <1>1, PushEventGood
  <2>2. QED
    BY <1>1, <2>1, GoodFields
<1>6. /\ Tells(known, told, c.id)
      /\ told.seen[c.id] = seen_after(known.seen[c.id], 0, TRUE, FALSE)
  <2>1. known \in WtSessionInfo
    BY <1>1, GoodFields
  <2>2. QED
    BY <1>1, <2>1, PushEventTells
<1> HIDE DEF told
<1>7. Good(done)
  BY <1>5, SetRecvState DEF RecvState
<1>8. /\ Tells(told, done, c.id) /\ done.seen = told.seen
      /\ done.streams[c.id].recv_state = "ResetRecvd"
  <2>1. done = recv_ended(told, c.id, "ResetRecvd")
    BY DEF recv_ended
  <2> HIDE DEF done
  <2>2. QED
    BY <1>1, <1>5, <2>1, RecvStateTells
<1> HIDE DEF done
<1>9. Tells(known, done, c.id)
  BY <1>6, <1>8, TellsTransitive
<1>10. NotFull(known) => known.seen[c.id] = "live"
  BY <1>1, <1>3, <1>4 DEF Local, Heard, Over
<1>11. NotFull(known) => done.seen[c.id] # "broken"
  BY <1>6, <1>8, <1>10 DEF seen_after
<1>12. done.streams[c.id].recv_state \in RecvDone /\ known.ids \subseteq StreamId
  BY <1>1, <1>8, GoodFields DEF RecvDone
<1>13. Local(e, done)
  BY <1>1, <1>3, <1>4, <1>9, <1>11, <1>12, TellsLocal
<1>14. QED
  BY <1>1, <1>2, <1>7, <1>13, ReleaseLocal

LEMMA HandleWtStopSendingLocal ==
    ASSUME NEW s, Good(s), NEW e \in End, NEW c \in Capsule, Local(e, s)
    PROVE  Local(e, handle_wt_stop_sending(s, e, c))
<1> DEFINE ids == IF Cardinality(s.received_stop_sending_stream_ids) < kMaxReceivedMapEntries
                  THEN s.received_stop_sending_stream_ids \cup {c.id}
                  ELSE s.received_stop_sending_stream_ids
           noted == [s EXCEPT !.received_stop_sending_stream_ids = ids]
           marked == [noted EXCEPT !.streams[c.id].stop_sending_received = TRUE]
<1>1. c.id \in StreamId /\ s \in WtSessionInfo /\ s.ids \subseteq StreamId
  BY GoodFields DEF Capsule
<1>2. ids \subseteq StreamId
  BY <1>1 DEF WtSessionInfo
<1>3. handle_wt_stop_sending(s, e, c) =
          IF c.id \notin s.ids THEN noted
          ELSE IF s.streams[c.id].send_state \in SendDone THEN marked
          ELSE reset_stream(marked, e, c.id)
  BY DEF handle_wt_stop_sending
<1> HIDE DEF ids
<1>4. /\ Good(noted) /\ Kept(s, noted) /\ noted.streams = s.streams
  BY <1>2 DEF Good, SessionCredit, WtSessionInfo, Kept
<1> HIDE DEF noted
<1>5. Local(e, noted) /\ noted.ids = s.ids /\ noted \in WtSessionInfo
  BY <1>1, <1>4, KeptLocal DEF Kept, Good
<1>6. ASSUME c.id \in s.ids
      PROVE  Good(marked) /\ c.id \in marked.ids /\ Local(e, marked)
  <2> DEFINE f == noted.streams[c.id]
             g == [f EXCEPT !.stop_sending_received = TRUE]
  <2>1. f \in WtStreamInfo /\ StreamCredit(f) /\ Accounted(f)
    BY <1>1, <1>4, <1>5, <1>6, GoodFields DEF Good, Local, AllAccounted
  <2>2. marked = [noted EXCEPT !.streams[c.id] = g]
    OBVIOUS
  <2>3. Kept(noted, marked) /\ marked.streams = [noted.streams EXCEPT ![c.id] = g]
    BY <1>5 DEF Kept, WtSessionInfo
  <2>4. f = noted.streams[c.id]
    OBVIOUS
  <2> HIDE DEF f
  <2>5. g \in WtStreamInfo /\ StreamCredit(g) /\ g.recv_state = f.recv_state /\ SameBooks(f, g)
    BY <2>1 DEF WtStreamInfo, StreamCredit, SameBooks
  <2> HIDE DEF g, marked
  <2>6. Good(marked)
    BY <1>1, <1>4, <2>2, <2>5, SetStream
  <2>7. Only(noted, marked, c.id) /\ marked.streams[c.id] = g
    BY <1>1, <1>5, <2>3, <2>4, <2>5, SetStreamOnly
  <2>8. Accounted(g) /\ noted.ids \subseteq StreamId
    BY <1>1, <1>5, <2>1, <2>5, SameAccount
  <2>9. Local(e, marked)
    BY <1>5, <2>7, <2>8, OnlyLocal
  <2>10. QED
    BY <1>5, <1>6, <2>3, <2>6, <2>9 DEF Kept
<1> HIDE DEF marked
<1>7. ASSUME c.id \in s.ids PROVE Local(e, reset_stream(marked, e, c.id))
  BY <1>6, <1>7, ResetStreamLocal
<1>8. QED
  BY <1>3, <1>5, <1>6, <1>7

(* A flush begins, in an open session.                                     *)
LEMMA FlushingLocal ==
    ASSUME NEW e, NEW s, NEW t, s.ids \subseteq StreamId, s.status = "open", Local(e, s),
           t.ids = s.ids, t.released_stream_ids = s.released_stream_ids, t.seen = s.seen,
           t.max_streams_remote = s.max_streams_remote, t.status = s.status,
           \A id \in StreamId : /\ t.streams[id].recv_state = s.streams[id].recv_state
                                /\ SameBooks(s.streams[id], t.streams[id])
    PROVE  Local(e, t)
<1>1. Quiet(t) /\ (NotFull(t) => NotFull(s))
  BY DEF Quiet, NotFull
<1>2. AllAccounted(t)
  BY SameAccount DEF AllAccounted, Local
<1>3. Heard(e, s) => Heard(e, t)
  BY DEF Heard, Over
<1>4. Places(e, s) => Places(e, t)
  <2>1. \A d : Below(e, t, d) = Below(e, s, d)
    BY DEF Below
  <2>2. QED
    BY <2>1 DEF Places
<1>5. QED
  BY <1>1, <1>2, <1>3, <1>4 DEF Local

LEMMA HandleWtMaxDataLocal ==
    ASSUME NEW s, Good(s), NEW e, NEW c, Local(e, s), s.status = "open"
    PROVE  Local(e, handle_wt_max_data(s, c))
<1> DEFINE t == handle_wt_max_data(s, c)
<1>1. s \in WtSessionInfo /\ s.ids \subseteq StreamId
  BY GoodFields
<1>2. /\ t.ids = s.ids /\ t.released_stream_ids = s.released_stream_ids /\ t.seen = s.seen
      /\ t.max_streams_remote = s.max_streams_remote /\ t.status = s.status
      /\ t.streams = s.streams
  BY <1>1 DEF handle_wt_max_data, WtSessionInfo
<1> HIDE DEF t
<1>3. \A id \in StreamId : /\ t.streams[id].recv_state = s.streams[id].recv_state
                           /\ SameBooks(s.streams[id], t.streams[id])
  BY <1>2 DEF SameBooks
<1>4. Local(e, t)
  BY <1>1, <1>2, <1>3, FlushingLocal
<1>5. QED
  BY <1>4 DEF t

LEMMA HandleWtMaxStreamDataLocal ==
    ASSUME NEW s, Good(s), NEW e, NEW c \in Capsule, Local(e, s), s.status = "open"
    PROVE  Local(e, handle_wt_max_stream_data(s, c))
<1> DEFINE t == handle_wt_max_stream_data(s, c)
           kept == IF \/ c.id \in received_ids(s)
                      \/ Cardinality(received_ids(s)) < kMaxReceivedMapEntries
                   THEN [s EXCEPT !.received_max_stream_data_by_id[c.id] = c.val]
                   ELSE s
           u == [kept EXCEPT !.streams[c.id].max_stream_data_local = c.val,
                             !.streams[c.id].stream_data_blocked_sent = FALSE,
                             !.flushing = TRUE]
<1>1. s \in WtSessionInfo /\ s.ids \subseteq StreamId /\ c.id \in StreamId
  BY GoodFields DEF Capsule
<1>2. t = u \/ t = kept
  BY DEF handle_wt_max_stream_data
<1>3. /\ kept.ids = s.ids /\ kept.released_stream_ids = s.released_stream_ids
      /\ kept.seen = s.seen /\ kept.max_streams_remote = s.max_streams_remote
      /\ kept.status = s.status /\ kept.streams = s.streams
  BY <1>1 DEF WtSessionInfo
<1>4. DOMAIN kept = DOMAIN s
  BY <1>1 DEF WtSessionInfo
<1> HIDE DEF kept
<1>5. /\ u.ids = kept.ids /\ u.released_stream_ids = kept.released_stream_ids
      /\ u.seen = kept.seen /\ u.max_streams_remote = kept.max_streams_remote
      /\ u.status = kept.status
      /\ u.streams = [[kept.streams EXCEPT ![c.id].max_stream_data_local = c.val]
                          EXCEPT ![c.id].stream_data_blocked_sent = FALSE]
  BY <1>1, <1>4 DEF WtSessionInfo
<1> HIDE DEF t, u
<1>6. \A id \in StreamId : /\ u.streams[id].recv_state = s.streams[id].recv_state
                           /\ SameBooks(s.streams[id], u.streams[id])
  <2> SUFFICES ASSUME NEW id \in StreamId
               PROVE  /\ u.streams[id].recv_state = s.streams[id].recv_state
                      /\ SameBooks(s.streams[id], u.streams[id])
    OBVIOUS
  <2>1. s.streams \in [StreamId -> WtStreamInfo] /\ s.streams[id] \in WtStreamInfo
    BY <1>1 DEF WtSessionInfo
  <2>2. CASE id = c.id
    <3>1. u.streams[id] = [s.streams[id] EXCEPT !.max_stream_data_local = c.val,
                                                !.stream_data_blocked_sent = FALSE]
      BY <1>3, <1>5, <2>1, <2>2
    <3>2. QED
      BY <2>1, <3>1 DEF WtStreamInfo, SameBooks
  <2>3. CASE id # c.id
    <3>1. u.streams[id] = s.streams[id]
      BY <1>1, <1>3, <1>5, <2>1, <2>3
    <3>2. QED
      BY <3>1 DEF SameBooks
  <2>4. QED
    BY <2>2, <2>3
<1>7. Local(e, u)
  BY <1>1, <1>3, <1>5, <1>6, FlushingLocal, ZenonT(60)
<1>8. Local(e, kept)
  <2>1. \A id \in StreamId : /\ kept.streams[id].recv_state = s.streams[id].recv_state
                             /\ SameBooks(s.streams[id], kept.streams[id])
    BY <1>3 DEF SameBooks
  <2>2. QED
    BY <1>1, <1>3, <2>1, FlushingLocal
<1>9. QED
  BY <1>2, <1>7, <1>8 DEF t

LEMMA HandleWtMaxStreamsLocal ==
    ASSUME NEW s, Good(s), NEW e, NEW c, Local(e, s)
    PROVE  Local(e, handle_wt_max_streams(s, c))
<1> DEFINE t == handle_wt_max_streams(s, c)
<1>1. s \in WtSessionInfo /\ s.ids \subseteq StreamId
  BY GoodFields
<1>2. Kept(s, t) /\ t.streams = s.streams
  BY <1>1 DEF handle_wt_max_streams, WtSessionInfo, Kept
<1> HIDE DEF t
<1>3. Local(e, t)
  BY <1>1, <1>2, KeptLocal
<1>4. QED
  BY <1>3 DEF t

-----------------------------------------------------------------------------
(* The steps.                                                              *)

Both == Inv /\ LocalInv

LEMMA InitLocal == Init => LocalInv
<1> SUFFICES ASSUME Init, NEW e \in Impl PROVE Local(e, wt[e])
  BY DEF LocalInv
<1> DEFINE s == InitialSession(e)
<1>1. e \in End /\ wt[e] = s
  BY ImplEnd DEF Init
<1>2. /\ s.flushing = FALSE /\ s.ids = {} /\ s.released_stream_ids = {}
      /\ s.seen = [id \in StreamId |-> "live"]
      /\ s.max_streams_remote = Config[e].max_streams
  BY DEF InitialSession
<1> HIDE DEF s
<1>3. Quiet(s) /\ AllAccounted(s)
  BY <1>2 DEF Quiet, AllAccounted
<1>4. Heard(e, s)
  BY <1>2 DEF Heard
<1>5. Places(e, s)
  <2> SUFFICES ASSUME NEW d \in Dir
               PROVE  /\ Remote(e, d, s.ids) = {}
                      /\ Remote(e, d, s.released_stream_ids) = {}
                      /\ s.max_streams_remote[d] <= Config[e].max_streams[d] + Cardinality({})
    BY DEF Places
  <2>1. Remote(e, d, s.ids) = {} /\ Remote(e, d, s.released_stream_ids) = {}
    BY <1>2 DEF Remote
  <2>2. Cardinality({}) = 0
    BY FS_EmptySet
  <2>3. s.max_streams_remote[d] \in Nat /\ s.max_streams_remote[d] = Config[e].max_streams[d]
    BY <1>1, <1>2, PeerConfig
  <2>4. QED
    BY <2>1, <2>2, <2>3
<1>6. QED
  BY <1>1, <1>3, <1>4, <1>5 DEF Local

(* A step of e that leaves the peer alone.                                 *)
LEMMA SetSessionLocal ==
    ASSUME Both, NEW e \in Impl, NEW s, Local(e, s), wt' = [wt EXCEPT ![e] = s]
    PROVE  LocalInv'
<1> SUFFICES ASSUME NEW o \in Impl PROVE Local(o, wt'[o])
  BY DEF LocalInv
<1>1. wt \in [End -> WtSessionInfo] /\ e \in End /\ o \in End
  BY ImplEnd DEF Both, Inv, TypeOK
<1>2. CASE o = e
  BY <1>1, <1>2
<1>3. CASE o # e
  BY <1>1, <1>3 DEF Both, LocalInv
<1>4. QED
  BY <1>2, <1>3

(* A queue changes, and nothing else at that end.                          *)
LEMMA SetOutLocal ==
    ASSUME NEW e, NEW s \in WtSessionInfo, Local(e, s), NEW q
    PROVE  Local(e, [s EXCEPT !.out = q])
<1> DEFINE t == [s EXCEPT !.out = q]
<1>1. Kept(s, t) /\ t.streams = s.streams /\ s.ids \subseteq StreamId
  BY DEF Kept, WtSessionInfo
<1> HIDE DEF t
<1>2. Local(e, t)
  BY <1>1, KeptLocal
<1>3. QED
  BY <1>2 DEF t

LEMMA ReceiveLocal ==
    ASSUME Both, NEW e \in Impl, NEW s, Local(e, s), Receive(e, s)
    PROVE  LocalInv'
<1> DEFINE p == Peer(e)
           t == [wt[p] EXCEPT !.out = Tail(wt[p].out)]
<1>1. /\ wt \in [End -> WtSessionInfo] /\ e \in End /\ p \in End /\ p # e
  BY ImplEnd DEF Both, Inv, TypeOK
<1>2. wt' = [[wt EXCEPT ![p] = t] EXCEPT ![e] = s]
  BY DEF Receive
<1>3. \A o \in Impl : o = e \/ o = p
  BY ImplAssumption DEF End, Peer
<1>4. p \in Impl => Local(p, t)
  BY <1>1, SetOutLocal DEF Both, LocalInv
<1> HIDE DEF t, p
<1>5. wt'[e] = s /\ wt'[p] = t
  BY <1>1, <1>2
<1>6. QED
  BY <1>3, <1>4, <1>5 DEF LocalInv

LEMMA PeerSendsLocal ==
    ASSUME Both, NEW p \in End, NEW c, PeerSends(p, c)
    PROVE  LocalInv'
<1> DEFINE e == Peer(p)
           a == [wt[p] EXCEPT !.out = <<c>>]
           b == [wt[e] EXCEPT !.out = <<>>]
<1>1. /\ wt \in [End -> WtSessionInfo] /\ e \in End /\ p # e /\ p \notin Impl
  BY DEF Both, Inv, TypeOK, End, Peer, PeerSends
<1>2. wt' = [[wt EXCEPT ![p] = a] EXCEPT ![e] = b]
  BY <1>1 DEF PeerSends
<1>3. \A o \in Impl : o = e
  BY <1>1, ImplAssumption DEF End, Peer
<1>4. e \in Impl => Local(e, b)
  BY <1>1, SetOutLocal DEF Both, LocalInv
<1> HIDE DEF a, b, e
<1>5. wt'[e] = b
  BY <1>1, <1>2
<1>6. QED
  BY <1>3, <1>4, <1>5 DEF LocalInv

LEMMA OpenStreamLocal ==
    ASSUME Both, NEW e \in Impl, NEW d \in Dir, OpenStream(e, d)
    PROVE  LocalInv'
<1> DEFINE s == wt[e]
           id == build_stream_id(e, d, s.streams_opened[d])
           t == new_stream(s, e, id)
           u == [t EXCEPT !.streams_opened[d] = @ + 1, !.seen[id] = "live"]
<1>1. /\ Good(s) /\ Local(e, s) /\ s \in WtSessionInfo /\ s.ids \subseteq StreamId
      /\ e \in End
  BY ImplEnd, GoodFields DEF Both, Inv, LocalInv
<1>2. Call(e, u) /\ id \notin s.ids
  BY DEF OpenStream
<1>3. s.streams_opened[d] \in Nat /\ s.streams_opened[d] < MaxStreamCount
  BY <1>1 DEF OpenStream, WtSessionInfo
<1> HIDE DEF s
<1>4. id \in StreamId /\ is_local(e, id)
  <2> DEFINE k == s.streams_opened[d]
  <2>1. k \in Nat /\ k < MaxStreamCount
    BY <1>3
  <2>2. id = 4 * k + (IF d = "uni" THEN 2 ELSE 0) + (IF e = "server" THEN 1 ELSE 0)
    BY DEF build_stream_id
  <2> HIDE DEF k, id
  <2>3. id \in StreamId
    BY <2>1, <2>2, BoundAssumption DEF StreamId
  <2>4. (id % 2 = 1) <=> (e = "server")
    BY <2>1, <2>2
  <2>5. QED
    BY <2>3, <2>4 DEF is_local
<1> HIDE DEF id
<1>5. Created(s, t, id) /\ t.seen = s.seen
  BY <1>1, <1>4, NewStreamFields
<1>6. t \in WtSessionInfo
  BY <1>1, <1>4, NewStreamGood DEF Good
<1> HIDE DEF t
<1>7. /\ u.ids = t.ids /\ u.released_stream_ids = t.released_stream_ids
      /\ u.max_streams_remote = t.max_streams_remote
      /\ u.status = t.status /\ u.flushing = t.flushing /\ u.streams = t.streams
      /\ u.seen = [t.seen EXCEPT ![id] = "live"]
  BY <1>6 DEF WtSessionInfo
<1> HIDE DEF u
<1>8. u.seen[id] = "live" /\ \A o \in StreamId : o # id => u.seen[o] = s.seen[o]
  BY <1>1, <1>4, <1>5, <1>7 DEF WtSessionInfo
<1>9. Created(s, u, id)
  BY <1>5, <1>7, <1>8 DEF Created
<1>10. Local(e, u)
  BY <1>1, <1>2, <1>4, <1>8, <1>9, CreatedLocal
<1>11. QED
  BY <1>2, <1>10, SetSessionLocal DEF Call

LEMMA CallsLocal ==
    ASSUME Both, NEW e \in End, ApplicationCall(e)
    PROVE  LocalInv'
<1>1. e \in Impl /\ ~wt[e].flushing
  BY DEF ApplicationCall, OpenStream, OpenStreamBlocked, SendStreamData, ResetStream,
         StopSending, CloseSession, Callable
<1> DEFINE s == wt[e]
<1>2. Good(s) /\ Local(e, s) /\ s \in WtSessionInfo /\ s.ids \subseteq StreamId
  BY <1>1, GoodFields DEF Both, Inv, LocalInv
<1>3. ASSUME NEW d \in Dir, OpenStream(e, d) PROVE LocalInv'
  BY <1>1, <1>3, OpenStreamLocal
<1>4. ASSUME NEW d \in Dir, OpenStreamBlocked(e, d) PROVE LocalInv'
  <2> DEFINE type == IF d = "uni" THEN "WT_STREAMS_BLOCKED_UNI"
                                  ELSE "WT_STREAMS_BLOCKED_BIDI"
             t == send_capsule(s, type, 0, s.max_streams_local[d])
             u == [t EXCEPT !.streams_blocked_sent = @ \cup {d}]
  <2>1. Call(e, u)
    BY <1>4 DEF OpenStreamBlocked
  <2> HIDE DEF type, s
  <2>2. Kept(s, u) /\ u.streams = s.streams
    BY <1>2 DEF send_capsule, WtSessionInfo, Kept
  <2> HIDE DEF u
  <2>3. Local(e, u)
    BY <1>2, <2>2, KeptLocal
  <2>4. QED
    BY <1>1, <2>1, <2>3, SetSessionLocal DEF Call
<1>5. ASSUME NEW id \in StreamId, NEW n \in WriteSizes, NEW fin \in BOOLEAN,
             SendStreamData(e, id, n, fin)
      PROVE  LocalInv'
  <2> DEFINE f == s.streams[id]
  <2>1. /\ n \in Nat /\ id \in s.ids /\ f.send_state \notin SendDone
        /\ f.pending_sends # <<>> => ~f.pending_sends[Len(f.pending_sends)].fin
    BY <1>5, BoundAssumption DEF SendStreamData
  <2>2. Call(e, send_stream_data(s, e, id, n, fin))
    BY <1>5 DEF SendStreamData
  <2> HIDE DEF s
  <2>3. Local(e, send_stream_data(s, e, id, n, fin))
    BY <1>2, <2>1, SendStreamDataLocal
  <2>4. QED
    BY <1>1, <2>2, <2>3, SetSessionLocal DEF Call
<1>6. ASSUME NEW id \in StreamId, ResetStream(e, id) PROVE LocalInv'
  <2>1. id \in s.ids /\ Call(e, reset_stream(s, e, id))
    BY <1>6 DEF ResetStream
  <2>2. Local(e, reset_stream(s, e, id))
    BY <1>2, <2>1, ResetStreamLocal
  <2>3. QED
    BY <1>1, <2>1, <2>2, SetSessionLocal DEF Call
<1>7. ASSUME NEW id \in StreamId, StopSending(e, id) PROVE LocalInv'
  <2>1. Call(e, stop_sending(s, id))
    BY <1>7 DEF StopSending
  <2>2. Local(e, stop_sending(s, id))
    BY <1>2, StopSendingLocal
  <2>3. QED
    BY <1>1, <2>1, <2>2, SetSessionLocal DEF Call
<1>8. CASE CloseSession(e)
  <2>1. Local(e, close_session(s, "app"))
    BY <1>1, <1>2, CloseLocal
  <2>2. QED
    BY <1>1, <1>8, <2>1, SetSessionLocal DEF CloseSession, Call
<1>9. QED
  BY <1>3, <1>4, <1>5, <1>6, <1>7, <1>8 DEF ApplicationCall

(* An accepted capsule was accepted by its handler, in an open session.    *)
LEMMA Accepted ==
    ASSUME NEW s, NEW e, NEW c, process_capsule(s, e, c) = "accept"
    PROVE  /\ s.status = "open"
           /\ c.type \in StreamCapsules => wt_stream_verdict(s, e, c) = "accept"
           /\ c.type = "WT_RESET_STREAM" => wt_reset_stream_verdict(s, e, c) = "accept"
<1>1. s.status = "open" /\ capsule_verdict(s, e, c) = "accept"
  BY DEF process_capsule
<1>2. c.type \in StreamCapsules => capsule_verdict(s, e, c) = wt_stream_verdict(s, e, c)
  BY DEF capsule_verdict, StreamCapsules, MaxStreamsCapsules, StreamsBlockedCapsules
<1>3. c.type = "WT_RESET_STREAM" =>
          capsule_verdict(s, e, c) = wt_reset_stream_verdict(s, e, c)
  BY DEF capsule_verdict, StreamCapsules, MaxStreamsCapsules, StreamsBlockedCapsules
<1>4. QED
  BY <1>1, <1>2, <1>3

LEMMA CapsulesLocal ==
    ASSUME Both, NEW e \in End, ProcessCapsule(e)
    PROVE  LocalInv'
<1> DEFINE s == wt[e]
           c == Arriving(e)
<1>1. e \in Impl /\ wt[Peer(e)].out # <<>> /\ ~s.flushing
  BY DEF ProcessCapsule, HandleWtStream, HandleWtResetStream, HandleWtStopSending,
         HandleWtMaxData, HandleWtMaxStreamData, HandleWtMaxStreams,
         HandleWtCloseSession, IgnoreCapsule, RefuseMalformed, RefuseCapsule,
         Accepts, Arrives
<1>2. Good(s) /\ Local(e, s) /\ s \in WtSessionInfo
  BY <1>1, GoodFields DEF Both, Inv, LocalInv
<1>3. c \in Capsule
  <2>1. wt[Peer(e)].out \in Seq(Capsule)
    BY <1>1, ImplEnd DEF Both, Inv, TypeOK, WtSessionInfo
  <2>2. QED
    BY <1>1, <2>1 DEF Arriving
<1>4. CASE HandleWtStream(e)
  <2>1. /\ process_capsule(s, e, c) = "accept" /\ c.type \in StreamCapsules
        /\ Receive(e, handle_wt_stream(s, e, c))
    BY <1>4 DEF HandleWtStream, Accepts, Arrives
  <2> HIDE DEF s, c
  <2>2. Local(e, handle_wt_stream(s, e, c))
    BY <1>2, <1>3, <2>1, Accepted, HandleWtStreamLocal
  <2>3. QED
    BY <1>1, <2>1, <2>2, ReceiveLocal
<1>5. CASE HandleWtResetStream(e)
  <2>1. /\ process_capsule(s, e, c) = "accept" /\ c.type = "WT_RESET_STREAM"
        /\ Receive(e, handle_wt_reset_stream(s, e, c))
    BY <1>5 DEF HandleWtResetStream, Accepts, Arrives
  <2> HIDE DEF s, c
  <2>2. Local(e, handle_wt_reset_stream(s, e, c))
    BY <1>2, <1>3, <2>1, Accepted, HandleWtResetStreamLocal
  <2>3. QED
    BY <1>1, <2>1, <2>2, ReceiveLocal
<1>6. CASE HandleWtStopSending(e)
  BY <1>1, <1>2, <1>3, <1>6, HandleWtStopSendingLocal, ReceiveLocal DEF HandleWtStopSending
<1>7. CASE HandleWtMaxData(e)
  <2>1. process_capsule(s, e, c) = "accept" /\ Receive(e, handle_wt_max_data(s, c))
    BY <1>7 DEF HandleWtMaxData, Accepts, Arrives
  <2> HIDE DEF s, c
  <2>2. Local(e, handle_wt_max_data(s, c))
    BY <1>2, <2>1, Accepted, HandleWtMaxDataLocal
  <2>3. QED
    BY <1>1, <2>1, <2>2, ReceiveLocal
<1>8. CASE HandleWtMaxStreamData(e)
  <2>1. process_capsule(s, e, c) = "accept" /\ Receive(e, handle_wt_max_stream_data(s, c))
    BY <1>8 DEF HandleWtMaxStreamData, Accepts, Arrives
  <2> HIDE DEF s, c
  <2>2. Local(e, handle_wt_max_stream_data(s, c))
    BY <1>2, <1>3, <2>1, Accepted, HandleWtMaxStreamDataLocal
  <2>3. QED
    BY <1>1, <2>1, <2>2, ReceiveLocal
<1>9. CASE HandleWtMaxStreams(e)
  BY <1>1, <1>2, <1>9, HandleWtMaxStreamsLocal, ReceiveLocal DEF HandleWtMaxStreams
<1>10. CASE HandleWtCloseSession(e)
  BY <1>1, <1>2, <1>10, HandleCloseLocal, ReceiveLocal DEF HandleWtCloseSession
<1>11. CASE IgnoreCapsule(e)
  BY <1>1, <1>2, <1>11, ReceiveLocal DEF IgnoreCapsule
<1>12. CASE RefuseMalformed(e)
  BY <1>1, <1>2, <1>12, MalformedLocal, ReceiveLocal DEF RefuseMalformed
<1>13. CASE RefuseCapsule(e)
  BY <1>1, <1>2, <1>13, CloseLocal, ReceiveLocal DEF RefuseCapsule
<1>14. QED
  BY <1>4, <1>5, <1>6, <1>7, <1>8, <1>9, <1>10, <1>11, <1>12, <1>13 DEF ProcessCapsule

LEMMA FlushLocal ==
    ASSUME Both, NEW e \in End, Flush(e)
    PROVE  LocalInv'
<1>1. e \in Impl
  BY DEF Flush, FlushPendingSends, FlushReturns
<1>2. Good(wt[e]) /\ Local(e, wt[e])
  BY <1>1 DEF Both, Inv, LocalInv
<1>3. CASE FlushPendingSends(e)
  <2>1. PICK id \in Flushable(wt[e]) : wt' = [wt EXCEPT ![e] = flush_one(wt[e], e, id)]
    BY <1>3 DEF FlushPendingSends
  <2>2. Local(e, flush_one(wt[e], e, id))
    BY <1>2, FlushOneLocal
  <2>3. QED
    BY <1>1, <2>1, <2>2, SetSessionLocal
<1>4. CASE FlushReturns(e)
  <2>1. Local(e, flush_returns(wt[e]))
    BY <1>2, FlushReturnsLocal
  <2>2. QED
    BY <1>1, <1>4, <2>1, SetSessionLocal DEF FlushReturns
<1>5. QED
  BY <1>3, <1>4 DEF Flush

LEMMA NextBoth == Both /\ [Next]_vars => Both'
<1> SUFFICES ASSUME Both, [Next]_vars PROVE Both'
  OBVIOUS
<1>1. Inv'
  BY NextInv DEF Both
<1>2. LocalInv'
  <2>1. CASE UNCHANGED vars
    BY <2>1 DEF Both, LocalInv, vars
  <2>2. CASE Next
    BY <2>2, CapsulesLocal, FlushLocal, CallsLocal, PeerSendsLocal DEF Next
  <2>3. QED
    BY <2>1, <2>2
<1>3. QED
  BY <1>1, <1>2 DEF Both

LEMMA BothHolds == Spec => []Both
<1>1. Init => Both
  BY InitInv, InitLocal DEF Both
<1>2. QED
  BY <1>1, NextBoth, PTL DEF Spec

-----------------------------------------------------------------------------
(* For any number of streams and writes, and whatever the peer grants: the *)
(* queue of a stream and bytes_sent account for every byte the application *)
(* has written, in order, and nothing waits behind a FIN or after a reset  *)
(* (send_stream_data, flush_pending_sends, reset_stream).                  *)
THEOREM AlwaysPendingAccounted == Spec => []PendingAccounted
<1>1. Both => PendingAccounted
  BY DEF Both, LocalInv, Local, AllAccounted, Accounted, PendingAccounted
<1>2. QED
  BY <1>1, BothHolds, PTL

(* Against any peer, while the set of released ids is not full, the        *)
(* application is told of no byte and no reset behind the end of a stream  *)
(* (handle_wt_stream, handle_wt_reset_stream, maybe_release_stream).       *)
THEOREM NeverBytesAfterEnd == Spec => []NoBytesAfterEnd
<1>1. Both => NoBytesAfterEnd
  BY DEF Both, LocalInv, Local, NotFull, Heard, NoBytesAfterEnd
<1>2. QED
  BY <1>1, BothHolds, PTL

(* Against any peer, while the set of released ids is not full, an end     *)
(* holds at most as many streams of the peer as it was configured for,     *)
(* however many come and go (replenish_streams).                           *)
THEOREM AlwaysLiveStreamsBounded == Spec => []LiveStreamsBounded
<1>1. Both => LiveStreamsBounded
  <2> SUFFICES ASSUME Both, NEW e \in Impl, NEW d \in Dir, NotFull(wt[e])
               PROVE  Cardinality(Remote(e, d, wt[e].ids)) <= Config[e].max_streams[d]
    BY DEF LiveStreamsBounded, NotFull, Remote
  <2>1. e \in End /\ wt[e] \in WtSessionInfo /\ Places(e, wt[e])
    BY ImplEnd DEF Both, Inv, Good, LocalInv, Local
  <2>2. QED
    BY <2>1, PlacesBound
<1>2. QED
  BY <1>1, BothHolds, PTL

(* A queue from which a capsule was taken is shorter.                      *)
LEMMA TailShorter ==
    ASSUME NEW q \in Seq(Capsule), q # <<>>
    PROVE  Len(Tail(q)) <= Len(q)
OBVIOUS

(* What the peer of an end does never adds to the queue of that end.       *)
LEMMA SilentStep ==
    ASSUME Both, Next, NEW e \in Impl, wt[e].status # "open"
    PROVE  Len(wt'[e].out) <= Len(wt[e].out)
<1> DEFINE p == Peer(e)
           q == wt[e].out
<1>1. /\ wt \in [End -> WtSessionInfo] /\ e \in End /\ p \in End /\ p # e
      /\ Peer(p) = e /\ \A o \in End : o = e \/ o = p
  BY ImplAssumption DEF Both, Inv, TypeOK, End, Peer
<1>2. wt[e] \in WtSessionInfo /\ wt[p] \in WtSessionInfo /\ q \in Seq(Capsule)
  BY <1>1 DEF WtSessionInfo
<1>3. ~wt[e].flushing
  BY DEF Both, LocalInv, Local, Quiet
<1>4. Len(q) <= Len(q)
  <2>1. Len(q) \in Nat
    BY <1>2
  <2>2. QED
    BY <2>1
<1>5. CASE wt'[e] = wt[e]
  BY <1>4, <1>5
<1>6. ASSUME ProcessCapsule(e) PROVE Len(wt'[e].out) <= Len(wt[e].out)
  <2>1. process_capsule(wt[e], e, Arriving(e)) = "ignore"
    BY DEF process_capsule
  <2>2. IgnoreCapsule(e)
    BY <1>6, <2>1 DEF ProcessCapsule, HandleWtStream, HandleWtResetStream,
         HandleWtStopSending, HandleWtMaxData, HandleWtMaxStreamData,
         HandleWtMaxStreams, HandleWtCloseSession, RefuseMalformed, RefuseCapsule,
         Accepts, Arrives
  <2>3. wt' = [wt EXCEPT ![p].out = Tail(@), ![e] = wt[e]]
    BY <2>2 DEF IgnoreCapsule, Receive
  <2>4. wt'[e] = wt[e]
    BY <1>1, <2>3
  <2>5. QED
    BY <1>5, <2>4
<1>7. ASSUME ProcessCapsule(p) PROVE Len(wt'[e].out) <= Len(wt[e].out)
  <2>1. PICK s : Receive(p, s)
    BY <1>7 DEF ProcessCapsule, HandleWtStream, HandleWtResetStream,
         HandleWtStopSending, HandleWtMaxData, HandleWtMaxStreamData,
         HandleWtMaxStreams, HandleWtCloseSession, IgnoreCapsule, RefuseMalformed,
         RefuseCapsule
  <2>2. q # <<>>
    BY <1>1, <1>7 DEF ProcessCapsule, HandleWtStream, HandleWtResetStream,
         HandleWtStopSending, HandleWtMaxData, HandleWtMaxStreamData,
         HandleWtMaxStreams, HandleWtCloseSession, IgnoreCapsule, RefuseMalformed,
         RefuseCapsule, Accepts, Arrives
  <2>3. wt' = [wt EXCEPT ![e].out = Tail(@), ![p] = s]
    BY <1>1, <2>1 DEF Receive
  <2>4. wt'[e].out = Tail(q)
    BY <1>1, <1>2, <2>3 DEF WtSessionInfo
  <2>5. QED
    BY <1>2, <2>2, <2>4, TailShorter
<1>8. ASSUME NEW o \in End, Flush(o) PROVE Len(wt'[e].out) <= Len(wt[e].out)
  <2>1. o # e
    BY <1>3, <1>8 DEF Flush, FlushPendingSends, FlushReturns
  <2>2. wt'[e] = wt[e]
    BY <1>1, <1>8, <2>1 DEF Flush, FlushPendingSends, FlushReturns
  <2>3. QED
    BY <1>5, <2>2
<1>9. ASSUME NEW o \in End, ApplicationCall(o) PROVE Len(wt'[e].out) <= Len(wt[e].out)
  <2>1. wt[o].status = "open" /\ \E s : Call(o, s)
    BY <1>9 DEF ApplicationCall, OpenStream, OpenStreamBlocked, SendStreamData,
                ResetStream, StopSending, CloseSession, Callable
  <2>2. wt'[e] = wt[e]
    BY <1>1, <2>1 DEF Call
  <2>3. QED
    BY <1>5, <2>2
<1>10. ASSUME NEW o \in End, NEW c \in PeerCapsules, PeerSends(o, c)
       PROVE  Len(wt'[e].out) <= Len(wt[e].out)
  <2>1. o = p
    BY <1>1, <1>10 DEF PeerSends
  <2>2. wt' = [wt EXCEPT ![p].out = <<c>>, ![e].out = <<>>]
    BY <1>1, <1>10, <2>1 DEF PeerSends
  <2>3. wt'[e].out = <<>>
    BY <1>1, <1>2, <2>2 DEF WtSessionInfo
  <2>4. Len(<<>>) = 0 /\ Len(q) \in Nat
    BY <1>2
  <2>5. QED
    BY <2>3, <2>4
<1>11. QED
  BY <1>1, <1>6, <1>7, <1>8, <1>9, <1>10 DEF Next

(* An end that has closed, or whose entry is gone, queues no capsule,      *)
(* whatever arrives and whatever the peer is (close_session,               *)
(* process_capsules).                                                      *)
THEOREM AlwaysSilentAfterClose == Spec => SilentAfterClose
<1> DEFINE A == \A e \in Impl : wt[e].status # "open" =>
                    Len(wt'[e].out) <= Len(wt[e].out)
<1>1. Both /\ [Next]_vars => [A]_vars
  BY SilentStep
<1>2. QED
  BY <1>1, BothHolds, PTL DEF Spec, SilentAfterClose

-----------------------------------------------------------------------------
(* Part 3.  An end is described together with the capsules it has in       *)
(* flight and with what its peer knows of them: One(p, s, r), for the end  *)
(* p with the session record s and its peer's record r.  Every function of *)
(* the source is a sequence of few kinds of change: it says something      *)
(* (Says), it creates or drops an entry (Makes, Drops), it takes notice of *)
(* a capsule (Hears...).  Each kind has a lemma for the end that changes   *)
(* as the sender of capsules and one for it as their receiver.             *)

(* Queues of capsules.  K, A, B and P are kinds: sets of capsules.         *)

None(q, K) == \A i \in 1 .. Len(q) : q[i] \notin K

NoneAfter(q, A, B) ==
    \A i, j \in 1 .. Len(q) : (i < j /\ q[i] \in A) => q[j] \notin B

(* The values of one kind never fall and are not below low.                *)
Rising(q, K, low) ==
    /\ \A i \in 1 .. Len(q) : q[i] \in K => low <= q[i].val
    /\ \A i, j \in 1 .. Len(q) :
          (i < j /\ q[i] \in K /\ q[j] \in K) => q[i].val <= q[j].val

AtMost(q, K, high) == \A i \in 1 .. Len(q) : q[i] \in K => q[i].val <= high

(* The place in its stream a capsule of data speaks of.                    *)
Place(c) == IF c.type = "WT_RESET_STREAM" THEN c.val ELSE c.off

Size(c, K) == IF c \in K THEN c.len ELSE 0

(* The lengths of one kind add up from one count to another, and those of  *)
(* the kind P are where they say.                                          *)
Chain(q, K, P, from, to) ==
    \E pos \in [0 .. Len(q) -> Nat] :
        /\ pos[0] = from
        /\ pos[Len(q)] = to
        /\ \A i \in 1 .. Len(q) : /\ pos[i] = pos[i - 1] + Size(q[i], K)
                                  /\ q[i] \in P => Place(q[i]) = pos[i - 1]
                                  /\ pos[i] <= to

LEMMA AppendFacts ==
    ASSUME NEW q \in Seq(Capsule), NEW c \in Capsule
    PROVE  /\ Append(q, c) \in Seq(Capsule)
           /\ Len(q) \in Nat /\ Len(Append(q, c)) = Len(q) + 1
           /\ \A i \in 1 .. Len(q) : Append(q, c)[i] = q[i] /\ q[i] \in Capsule
           /\ Append(q, c)[Len(q) + 1] = c
OBVIOUS

LEMMA TailFacts ==
    ASSUME NEW q \in Seq(Capsule), q # <<>>
    PROVE  /\ Tail(q) \in Seq(Capsule)
           /\ Len(q) \in Nat /\ Len(q) >= 1 /\ Len(Tail(q)) = Len(q) - 1
           /\ \A i \in 1 .. Len(q) : q[i] \in Capsule
           /\ \A i \in 1 .. Len(q) - 1 : Tail(q)[i] = q[i + 1]
           /\ Head(q) = q[1] /\ Head(q) \in Capsule
OBVIOUS

LEMMA Naturals ==
    ASSUME NEW c \in Capsule
    PROVE  c.len \in Nat /\ c.val \in Nat /\ c.off \in Nat /\ c.id \in StreamId
BY DEF Capsule

LEMMA NoneAppend ==
    ASSUME NEW q \in Seq(Capsule), NEW c \in Capsule, NEW K, None(q, K), c \notin K
    PROVE  None(Append(q, c), K)
<1> DEFINE u == Append(q, c)
<1>1. /\ Len(q) \in Nat /\ Len(u) = Len(q) + 1 /\ u[Len(q) + 1] = c
      /\ \A i \in 1 .. Len(q) : u[i] = q[i]
  BY AppendFacts
<1> HIDE DEF u
<1>2. None(u, K)
  BY <1>1 DEF None
<1> QED
  BY <1>2 DEF u

LEMMA NonePop ==
    ASSUME NEW q \in Seq(Capsule), q # <<>>, NEW K, None(q, K)
    PROVE  None(Tail(q), K)
BY TailFacts DEF None

LEMMA NoneAfterAppend ==
    ASSUME NEW q \in Seq(Capsule), NEW c \in Capsule, NEW A, NEW B,
           NoneAfter(q, A, B), c \in B => None(q, A)
    PROVE  NoneAfter(Append(q, c), A, B)
<1> DEFINE u == Append(q, c)
<1>1. /\ Len(q) \in Nat /\ Len(u) = Len(q) + 1 /\ u[Len(q) + 1] = c
      /\ \A i \in 1 .. Len(q) : u[i] = q[i]
  BY AppendFacts
<1> HIDE DEF u
<1>2. NoneAfter(u, A, B)
  BY <1>1 DEF None, NoneAfter
<1> QED
  BY <1>2 DEF u

LEMMA NoneAfterPop ==
    ASSUME NEW q \in Seq(Capsule), q # <<>>, NEW A, NEW B, NoneAfter(q, A, B)
    PROVE  /\ NoneAfter(Tail(q), A, B)
           /\ Head(q) \in A => None(Tail(q), B)
<1> DEFINE u == Tail(q)
<1>1. /\ Len(q) \in Nat /\ Len(q) >= 1 /\ Len(u) = Len(q) - 1 /\ Head(q) = q[1]
      /\ \A i \in 1 .. Len(q) - 1 : u[i] = q[i + 1]
  BY TailFacts
<1> HIDE DEF u
<1>2. NoneAfter(u, A, B)
  <2> SUFFICES ASSUME NEW i \in 1 .. Len(u), NEW j \in 1 .. Len(u), i < j, u[i] \in A
               PROVE  u[j] \notin B
    BY DEF NoneAfter
  <2>1. /\ i + 1 \in 1 .. Len(q) /\ j + 1 \in 1 .. Len(q) /\ i + 1 < j + 1
        /\ u[i] = q[i + 1] /\ u[j] = q[j + 1]
    BY <1>1
  <2> QED
    BY <2>1 DEF NoneAfter
<1>3. Head(q) \in A => None(u, B)
  BY <1>1 DEF NoneAfter, None
<1> QED
  BY <1>2, <1>3 DEF u

LEMMA RisingAppend ==
    ASSUME NEW q \in Seq(Capsule), NEW c \in Capsule, NEW K, NEW low \in Nat,
           Rising(q, K, low), c \in K => low <= c.val /\ AtMost(q, K, c.val)
    PROVE  Rising(Append(q, c), K, low)
<1> DEFINE u == Append(q, c)
<1>1. /\ Len(q) \in Nat /\ Len(u) = Len(q) + 1 /\ u[Len(q) + 1] = c
      /\ \A i \in 1 .. Len(q) : u[i] = q[i]
  BY AppendFacts
<1> HIDE DEF u
<1>2. \A i \in 1 .. Len(u) : u[i] \in K => low <= u[i].val
  BY <1>1 DEF Rising
<1>3. \A i, j \in 1 .. Len(u) :
          (i < j /\ u[i] \in K /\ u[j] \in K) => u[i].val <= u[j].val
  BY <1>1 DEF Rising, AtMost
<1>4. Rising(u, K, low)
  BY <1>2, <1>3 DEF Rising
<1> QED
  BY <1>4 DEF u

LEMMA RisingPop ==
    ASSUME NEW q \in Seq(Capsule), q # <<>>, NEW K, NEW low \in Nat, NEW new \in Nat,
           Rising(q, K, low), new <= low \/ (Head(q) \in K /\ new <= Head(q).val)
    PROVE  Rising(Tail(q), K, new)
<1> DEFINE u == Tail(q)
<1>1. /\ Len(q) \in Nat /\ Len(q) >= 1 /\ Len(u) = Len(q) - 1 /\ Head(q) = q[1]
      /\ \A i \in 1 .. Len(q) - 1 : u[i] = q[i + 1]
      /\ \A i \in 1 .. Len(q) : q[i] \in Capsule
  BY TailFacts
<1>2. \A i \in 1 .. Len(q) : q[i].val \in Nat
  BY <1>1, Naturals
<1> HIDE DEF u
<1>3. \A i \in 1 .. Len(u) : u[i] \in K => new <= u[i].val
  BY <1>1, <1>2, SMTT(60) DEF Rising
<1>4. \A i, j \in 1 .. Len(u) :
          (i < j /\ u[i] \in K /\ u[j] \in K) => u[i].val <= u[j].val
  BY <1>1 DEF Rising
<1>5. Rising(u, K, new)
  BY <1>3, <1>4 DEF Rising
<1> QED
  BY <1>5 DEF u

LEMMA AtMostAppend ==
    ASSUME NEW q \in Seq(Capsule), NEW c \in Capsule, NEW K,
           NEW high \in Nat, NEW new \in Nat,
           AtMost(q, K, high), high <= new, c \in K => c.val <= new
    PROVE  AtMost(Append(q, c), K, new)
<1> DEFINE u == Append(q, c)
<1>1. /\ Len(q) \in Nat /\ Len(u) = Len(q) + 1 /\ u[Len(q) + 1] = c
      /\ \A i \in 1 .. Len(q) : u[i] = q[i] /\ q[i] \in Capsule
  BY AppendFacts
<1>2. \A i \in 1 .. Len(q) : q[i].val \in Nat
  BY <1>1, Naturals
<1> HIDE DEF u
<1>3. AtMost(u, K, new)
  BY <1>1, <1>2 DEF AtMost
<1> QED
  BY <1>3 DEF u

LEMMA AtMostGrows ==
    ASSUME NEW q \in Seq(Capsule), NEW K, NEW high \in Nat, NEW new \in Nat,
           AtMost(q, K, high), high <= new
    PROVE  AtMost(q, K, new)
<1>1. \A i \in 1 .. Len(q) : q[i] \in Capsule
  OBVIOUS
<1>2. \A i \in 1 .. Len(q) : q[i].val \in Nat
  BY <1>1, Naturals
<1> QED
  BY <1>2 DEF AtMost

LEMMA AtMostPop ==
    ASSUME NEW q \in Seq(Capsule), q # <<>>, NEW K, NEW high, AtMost(q, K, high)
    PROVE  AtMost(Tail(q), K, high)
BY TailFacts DEF AtMost

LEMMA ChainAppend ==
    ASSUME NEW q \in Seq(Capsule), NEW c \in Capsule, NEW K, NEW P,
           NEW from \in Nat, NEW to \in Nat, Chain(q, K, P, from, to),
           c \in P => Place(c) = to
    PROVE  Chain(Append(q, c), K, P, from, to + Size(c, K))
<1> DEFINE u == Append(q, c)
           n == Len(q)
           m == to + Size(c, K)
<1>1. /\ n \in Nat /\ Len(u) = n + 1 /\ u[n + 1] = c
      /\ \A i \in 1 .. n : u[i] = q[i]
  BY AppendFacts
<1>2. PICK pos \in [0 .. n -> Nat] :
          /\ pos[0] = from /\ pos[n] = to
          /\ \A i \in 1 .. n : /\ pos[i] = pos[i - 1] + Size(q[i], K)
                               /\ q[i] \in P => Place(q[i]) = pos[i - 1]
                               /\ pos[i] <= to
  BY DEF Chain
<1>3. m \in Nat /\ to <= m
  BY Naturals DEF Size
<1> DEFINE new == [i \in 0 .. n + 1 |-> IF i = n + 1 THEN m ELSE pos[i]]
<1>4. new \in [0 .. n + 1 -> Nat]
  BY <1>1, <1>3
<1>5. new[0] = from /\ new[n + 1] = m /\ new[n] = to
  BY <1>1, <1>2
<1>6. \A i \in 1 .. n : new[i] = pos[i] /\ new[i - 1] = pos[i - 1]
  BY <1>1
<1>m. m = to + Size(c, K)
  OBVIOUS
<1> HIDE DEF u, n, m, new
<1>7. \A i \in 1 .. n + 1 : /\ new[i] = new[i - 1] + Size(u[i], K)
                            /\ u[i] \in P => Place(u[i]) = new[i - 1]
                            /\ new[i] <= m
  <2> TAKE i \in 1 .. n + 1
  <2>1. CASE i = n + 1
    BY <1>1, <1>3, <1>5, <1>m, <2>1
  <2>2. CASE i # n + 1
    <3>1. i \in 1 .. n /\ i - 1 \in 0 .. n
      BY <1>1, <2>2
    <3>2. u[i] = q[i] /\ new[i] = pos[i] /\ new[i - 1] = pos[i - 1]
      BY <1>1, <1>6, <3>1
    <3>3. /\ pos[i] = pos[i - 1] + Size(q[i], K)
          /\ q[i] \in P => Place(q[i]) = pos[i - 1]
          /\ pos[i] <= to
      BY <1>2, <3>1
    <3>4. pos[i] <= m
      <4>1. pos[i] \in Nat
        BY <1>1, <3>1
      <4> QED
        BY <1>3, <3>3, <4>1
    <3> QED
      BY <3>2, <3>3, <3>4
  <2> QED
    BY <2>1, <2>2
<1>8. Chain(u, K, P, from, m)
  BY <1>1, <1>4, <1>5, <1>7 DEF Chain
<1> QED
  BY <1>8 DEF u, m

LEMMA ChainPop ==
    ASSUME NEW q \in Seq(Capsule), q # <<>>, NEW K, NEW P,
           NEW from \in Nat, NEW to \in Nat, Chain(q, K, P, from, to)
    PROVE  /\ Chain(Tail(q), K, P, from + Size(Head(q), K), to)
           /\ from + Size(Head(q), K) <= to
           /\ Head(q) \in P => Place(Head(q)) = from
<1> DEFINE u == Tail(q)
           n == Len(q)
           c == Head(q)
           b == from + Size(c, K)
<1>1. /\ n \in Nat /\ n >= 1 /\ Len(u) = n - 1 /\ c = q[1] /\ c \in Capsule
      /\ \A i \in 1 .. n - 1 : u[i] = q[i + 1]
  BY TailFacts
<1>2. PICK pos \in [0 .. n -> Nat] :
          /\ pos[0] = from /\ pos[n] = to
          /\ \A i \in 1 .. n : /\ pos[i] = pos[i - 1] + Size(q[i], K)
                               /\ q[i] \in P => Place(q[i]) = pos[i - 1]
                               /\ pos[i] <= to
  BY DEF Chain
<1>3. pos[1] = b /\ b <= to /\ (c \in P => Place(c) = from)
  BY <1>1, <1>2
<1> DEFINE new == [i \in 0 .. n - 1 |-> pos[i + 1]]
<1>4. new \in [0 .. n - 1 -> Nat]
  BY <1>1
<1>5. new[0] = b /\ new[n - 1] = to
  BY <1>1, <1>2, <1>3
<1>6. \A i \in 1 .. n - 1 : new[i] = pos[i + 1] /\ new[i - 1] = pos[i]
  BY <1>1
<1> HIDE DEF u, n, b, c, new
<1>7. \A i \in 1 .. n - 1 : /\ new[i] = new[i - 1] + Size(u[i], K)
                            /\ u[i] \in P => Place(u[i]) = new[i - 1]
                            /\ new[i] <= to
  <2> TAKE i \in 1 .. n - 1
  <2>1. i + 1 \in 1 .. n /\ (i + 1) - 1 = i
    BY <1>1
  <2>2. /\ pos[i + 1] = pos[i] + Size(q[i + 1], K)
        /\ q[i + 1] \in P => Place(q[i + 1]) = pos[i]
        /\ pos[i + 1] <= to
    BY <1>2, <2>1
  <2> QED
    BY <1>1, <1>6, <2>2
<1>8. Chain(u, K, P, b, to)
  BY <1>1, <1>4, <1>5, <1>7 DEF Chain
<1> QED
  BY <1>3, <1>8 DEF u, b, c

(* Nothing of the kinds in the queue: any count stays what it is.          *)
LEMMA ChainNone ==
    ASSUME NEW q \in Seq(Capsule), NEW K, NEW P, None(q, K), None(q, P), NEW n \in Nat
    PROVE  Chain(q, K, P, n, n)
<1> DEFINE pos == [i \in 0 .. Len(q) |-> n]
<1>1. Len(q) \in Nat /\ pos \in [0 .. Len(q) -> Nat]
  OBVIOUS
<1>2. /\ pos[0] = n /\ pos[Len(q)] = n
      /\ \A i \in 1 .. Len(q) : pos[i] = n /\ pos[i - 1] = n
  BY <1>1
<1> HIDE DEF pos
<1>3. \A i \in 1 .. Len(q) : /\ pos[i] = pos[i - 1] + Size(q[i], K)
                             /\ q[i] \in P => Place(q[i]) = pos[i - 1]
                             /\ pos[i] <= n
  BY <1>2 DEF None, Size
<1> QED
  BY <1>1, <1>2, <1>3 DEF Chain

-----------------------------------------------------------------------------
(* The kinds of capsules.                                                  *)

Carriers == {c \in Capsule : c.type \in StreamCapsules}
CarriersOf(id) == {c \in Carriers : c.id = id}
ResetsOf(id) == {c \in Capsule : c.id = id /\ c.type = "WT_RESET_STREAM"}
DataOf(id) == CarriersOf(id) \cup ResetsOf(id)
AboutOf(id) ==
    DataOf(id) \cup {c \in Capsule : c.id = id /\ c.type = "WT_STREAM_DATA_BLOCKED"}
EndsOf(id) ==
    ResetsOf(id) \cup {c \in Capsule : c.id = id /\ c.type = "WT_STREAM_FIN"}
RaisesOf(id) == {c \in Capsule : c.id = id /\ c.type = "WT_MAX_STREAM_DATA"}
StopsOf(id) == {c \in Capsule : c.id = id /\ c.type = "WT_STOP_SENDING"}
MaxDatas == {c \in Capsule : c.type = "WT_MAX_DATA"}
MaxStreamsOf(d) ==
    {c \in Capsule : c.type \in MaxStreamsCapsules /\ dir_of_capsule(c) = d}
Closes == {c \in Capsule : c.type = "WT_CLOSE_SESSION"}

(* What this code never sends, whatever the state.                         *)
Unfit == {c \in Capsule : \/ c.form # "ok"
                          \/ c.type \in StreamsBlockedCapsules /\ c.val > kMaxStreamsLimit}

(* The invariant.  End p with the record s sends, its peer with the record *)
(* r receives.                                                             *)

(* A stream p has opened itself.                                           *)
Opened(s, id) == id \div 4 < s.streams_opened[DirOf(id)]

(* p has finished sending on a stream: its entry says so, or is gone.      *)
Past(p, s, id) == IF is_local(p, id) THEN Opened(s, id) ELSE s.seen[id] # "live"
Done(p, s, id) == IF id \in s.ids THEN s.streams[id].send_state \in SendDone
                                  ELSE Past(p, s, id)

(* The limit p has given its peer for a stream.                            *)
GrantedBy(p, s, id) == IF id \in s.ids THEN s.streams[id].max_stream_data_remote
                                       ELSE Config[p].max_stream_data

Entry(p, s, id) ==
    /\ (id \in s.ids /\ is_local(p, id)) => Opened(s, id)
    /\ (id \in s.ids /\ is_receivable_data_capsule(p, id)
           /\ s.streams[id].recv_state \in RecvDone) => s.seen[id] # "live"
    /\ (id \notin s.ids /\ is_local(p, id) /\ ~is_unidirectional(id)
           /\ Opened(s, id)) => s.seen[id] # "live"
    /\ (id \notin s.ids /\ is_local(p, id) /\ ~Opened(s, id)) => s.seen[id] = "live"
    /\ id \notin s.ids => /\ s.streams[id].bytes_received = 0
                          /\ s.streams[id].bytes_sent = 0
    /\ s.seen[id] \in {"live", "ended"}
    /\ id \in s.released_stream_ids => s.seen[id] # "live"
    /\ id \in s.ids =>
          /\ Config[p].max_stream_data <= s.streams[id].max_stream_data_remote
          /\ s.streams[id].pending_sends # <<>> => is_sendable_stream(p, id)

(* p knows no stream that nobody opened.                                   *)
Born(p, s, r, id) ==
    /\ (id \in s.ids /\ ~is_local(p, id)) => Opened(r, id)
    /\ ~(IF is_local(p, id) THEN Opened(s, id) ELSE Opened(r, id)) =>
           None(s.out, DataOf(id))

(* The data of a stream on its way: it continues what r has received, up   *)
(* to what p has sent, within the limit; nothing follows its end, and      *)
(* nothing is on its way once r has heard of the end.                      *)
Way(p, s, r, id) ==
    /\ \E to \in Nat :
          /\ Chain(s.out, CarriersOf(id), DataOf(id), r.streams[id].bytes_received, to)
          /\ ~Done(p, s, id) => to = s.streams[id].bytes_sent
          /\ r.seen[id] = "live" => to <= GrantedBy(Peer(p), r, id)
    /\ NoneAfter(s.out, EndsOf(id), AboutOf(id))
    /\ ~Done(p, s, id) => None(s.out, EndsOf(id)) /\ r.seen[id] = "live"
    /\ r.seen[id] # "live" => None(s.out, AboutOf(id))

(* The limits p has raised for a stream, as r knows them or will.          *)
Credit(p, s, r, id) ==
    /\ Rising(s.out, RaisesOf(id), previous_max_stream_data(r, Peer(p), id))
    /\ Rising(s.out, RaisesOf(id), Config[p].max_stream_data)
    /\ (id \in s.ids \/ s.seen[id] = "live") =>
          /\ previous_max_stream_data(r, Peer(p), id) <= GrantedBy(p, s, id)
          /\ id \in r.ids => r.streams[id].max_stream_data_local <= GrantedBy(p, s, id)
          /\ AtMost(s.out, RaisesOf(id), GrantedBy(p, s, id))

(* WT_STOP_SENDING is sent once, and no limit is raised after it.          *)
Stopped(s, r, id) ==
    /\ id \notin s.sent_stop_sending_stream_ids =>
           None(s.out, StopsOf(id)) /\ ~has_received_stop_sending(r, id)
    /\ has_received_stop_sending(r, id) =>
           None(s.out, StopsOf(id)) /\ None(s.out, RaisesOf(id))
    /\ NoneAfter(s.out, StopsOf(id), StopsOf(id) \cup RaisesOf(id))

(* The limits of the session and of the number of streams.                 *)
SessionLimit(s, r) ==
    /\ Rising(s.out, MaxDatas, r.received_max_data)
    /\ AtMost(s.out, MaxDatas, s.max_data_remote)
    /\ r.received_max_data <= s.max_data_remote
    /\ r.max_data_local <= s.max_data_remote

CountLimit(s, r, d) ==
    /\ Rising(s.out, MaxStreamsOf(d), r.received_max_streams[d])
    /\ AtMost(s.out, MaxStreamsOf(d), s.max_streams_remote[d])
    /\ r.received_max_streams[d] <= s.max_streams_remote[d]
    /\ r.max_streams_local[d] <= s.max_streams_remote[d]
    /\ s.max_streams_remote[d] <= kMaxStreamsLimit
    /\ s.streams_opened[d] <= s.max_streams_local[d]

(* The bytes of all streams on their way.                                  *)
Total(s, r) == Chain(s.out, Carriers, {}, r.bytes_received, s.bytes_sent)

(* p sends data on the streams it may send on only; when its application   *)
(* respects directions, so it is for all that is said about a stream.      *)
Directed(p, s, id) ==
    /\ ~is_sendable_stream(p, id) => None(s.out, CarriersOf(id))
    /\ Disciplined =>
          /\ ~is_sendable_stream(p, id) => None(s.out, AboutOf(id))
          /\ ~is_receivable_data_capsule(p, id) =>
                 None(s.out, StopsOf(id)) /\ None(s.out, RaisesOf(id))

Parts(p, s, r, id) ==
    /\ Entry(p, s, id)
    /\ Born(p, s, r, id)
    /\ (r.status = "open" /\ is_receivable_data_capsule(Peer(p), id)) => Way(p, s, r, id)
    /\ is_receivable_data_capsule(p, id) => Credit(p, s, r, id)
    /\ Stopped(s, r, id)
    /\ Directed(p, s, id)

Whole(s, r) ==
    /\ s.status = "open" => None(s.out, Closes)
    /\ r.status = "open" => s.status # "erased" /\ Total(s, r)
    /\ None(s.out, Unfit)
    /\ SessionLimit(s, r)
    /\ \A d \in Dir : CountLimit(s, r, d)
    /\ Disciplined => s.reason \in {"none", "app"}

One(p, s, r) == Whole(s, r) /\ \A id \in StreamId : Parts(p, s, r, id)

Pair(p, s, r) == One(p, s, r) /\ One(Peer(p), r, s)

LEMMA Kinds ==
    ASSUME NEW id
    PROVE  /\ CarriersOf(id) \subseteq Carriers
           /\ CarriersOf(id) \subseteq DataOf(id) /\ DataOf(id) \subseteq AboutOf(id)
           /\ EndsOf(id) \subseteq DataOf(id)
BY DEF Carriers, CarriersOf, ResetsOf, DataOf, AboutOf, EndsOf, StreamCapsules

LEMMA PeerPeer == \A p \in End : Peer(p) \in End /\ Peer(Peer(p)) = p
BY DEF End, Peer

(* Each direction of a stream has one end that sends.                      *)
LEMMA Directions ==
    ASSUME NEW p \in End, NEW id \in StreamId
    PROVE  /\ is_receivable_data_capsule(Peer(p), id) <=> is_sendable_stream(p, id)
           /\ is_receivable_flow_capsule(Peer(p), id) <=> is_receivable_data_capsule(p, id)
           /\ is_local(Peer(p), id) <=> ~is_local(p, id)
BY DEF End, Peer, is_receivable_data_capsule, is_receivable_flow_capsule,
       is_sendable_stream, is_local

LEMMA IdFacts ==
    ASSUME NEW id \in StreamId
    PROVE  id \in Nat /\ id \div 4 \in Nat /\ DirOf(id) \in Dir
BY BoundAssumption DEF StreamId, DirOf, Dir

LEMMA SessionFields ==
    ASSUME NEW s \in WtSessionInfo
    PROVE  /\ s.out \in Seq(Capsule)
           /\ s.bytes_sent \in Nat /\ s.max_data_local \in Nat
           /\ s.received_max_data \in Nat
           /\ s.bytes_received \in Nat /\ s.max_data_remote \in Nat
           /\ \A d \in Dir : /\ s.streams_opened[d] \in Nat
                             /\ s.max_streams_local[d] \in Nat
                             /\ s.received_max_streams[d] \in Nat
                             /\ s.max_streams_remote[d] \in Nat
           /\ s.ids \subseteq StreamId
           /\ \A id \in StreamId : s.streams[id] \in WtStreamInfo
           /\ \A id \in StreamId : s.received_max_stream_data_by_id[id] \in Nat \cup {Absent}
BY DEF WtSessionInfo

LEMMA PreviousNat ==
    ASSUME NEW s \in WtSessionInfo, NEW e \in End, NEW id \in StreamId
    PROVE  previous_max_stream_data(s, e, id) \in Nat
BY SessionFields, StreamFields, PeerConfig DEF previous_max_stream_data

LEMMA GrantedNat ==
    ASSUME NEW s \in WtSessionInfo, NEW e \in End, NEW id \in StreamId
    PROVE  GrantedBy(e, s, id) \in Nat
BY SessionFields, StreamFields, PeerConfig DEF GrantedBy

LEMMA OneParts ==
    ASSUME NEW p, NEW s, NEW r, One(p, s, r), NEW id \in StreamId
    PROVE  /\ Entry(p, s, id)
           /\ Born(p, s, r, id)
           /\ (r.status = "open" /\ is_receivable_data_capsule(Peer(p), id)) =>
                  Way(p, s, r, id)
           /\ is_receivable_data_capsule(p, id) => Credit(p, s, r, id)
           /\ Stopped(s, r, id)
           /\ Directed(p, s, id)
BY DEF One, Parts

-----------------------------------------------------------------------------
(* What an end is as a receiver: t is as s to whoever sends to it.         *)

SameEar(f, g) ==
    /\ g.bytes_received = f.bytes_received
    /\ g.max_stream_data_local = f.max_stream_data_local
    /\ g.stop_sending_received = f.stop_sending_received
    /\ f.max_stream_data_remote <= g.max_stream_data_remote

Listens(s, t) ==
    /\ t.status = "open" => s.status = "open"
    /\ t.bytes_received = s.bytes_received
    /\ t.max_data_local = s.max_data_local
    /\ t.received_max_data = s.received_max_data
    /\ t.max_streams_local = s.max_streams_local
    /\ t.received_max_streams = s.received_max_streams
    /\ t.streams_opened = s.streams_opened
    /\ t.ids = s.ids
    /\ t.seen = s.seen
    /\ t.received_max_stream_data_by_id = s.received_max_stream_data_by_id
    /\ t.received_stop_sending_stream_ids = s.received_stop_sending_stream_ids
    /\ \A id \in StreamId : SameEar(s.streams[id], t.streams[id])

LEMMA ListensOne ==
    ASSUME NEW e \in End, NEW r \in WtSessionInfo, NEW s \in WtSessionInfo,
           NEW t \in WtSessionInfo, One(e, r, s), Listens(s, t)
    PROVE  One(e, r, t)
<1>1. Peer(e) \in End
  BY PeerPeer
<1>2. t.status = "open" => r.status # "erased" /\ Total(r, t)
  BY DEF One, Whole, Listens, Total
<1>3. SessionLimit(r, t)
  BY DEF One, Whole, Listens, SessionLimit
<1>4. \A d \in Dir : CountLimit(r, t, d)
  BY DEF One, Whole, Listens, CountLimit
<1>5. ASSUME NEW id \in StreamId
      PROVE  /\ Born(e, r, t, id)
             /\ (t.status = "open" /\ is_receivable_data_capsule(Peer(e), id)) =>
                    Way(e, r, t, id)
             /\ is_receivable_data_capsule(e, id) => Credit(e, r, t, id)
             /\ Stopped(r, t, id)
  <2>1. SameEar(s.streams[id], t.streams[id])
    BY DEF Listens
  <2>2. Born(e, r, t, id)
    BY OneParts DEF Born, Opened, Listens
  <2>3. GrantedBy(Peer(e), s, id) <= GrantedBy(Peer(e), t, id)
    <3>1. id \in t.ids <=> id \in s.ids
      BY DEF Listens
    <3> QED
      BY <1>1, <2>1, <3>1, GrantedNat DEF GrantedBy, SameEar
  <2>4. ASSUME Way(e, r, s, id)
        PROVE  Way(e, r, t, id)
    <3>1. t.seen[id] = s.seen[id] /\ t.streams[id].bytes_received = s.streams[id].bytes_received
      BY <2>1 DEF Listens, SameEar
    <3>2. /\ GrantedBy(Peer(e), s, id) \in Nat /\ GrantedBy(Peer(e), t, id) \in Nat
      BY <1>1, GrantedNat
    <3>3. PICK to \in Nat :
              /\ Chain(r.out, CarriersOf(id), DataOf(id), s.streams[id].bytes_received, to)
              /\ ~Done(e, r, id) => to = r.streams[id].bytes_sent
              /\ s.seen[id] = "live" => to <= GrantedBy(Peer(e), s, id)
      BY <2>4 DEF Way
    <3>4. t.seen[id] = "live" => to <= GrantedBy(Peer(e), t, id)
      BY <2>3, <3>1, <3>2, <3>3
    <3> QED
      BY <2>4, <3>1, <3>3, <3>4 DEF Way
  <2>5. previous_max_stream_data(t, Peer(e), id) = previous_max_stream_data(s, Peer(e), id)
    BY <2>1 DEF previous_max_stream_data, Listens, SameEar
  <2>6. Credit(e, r, s, id) => Credit(e, r, t, id)
    BY <2>1, <2>5 DEF Credit, Listens, SameEar
  <2>7. has_received_stop_sending(t, id) <=> has_received_stop_sending(s, id)
    BY <2>1 DEF has_received_stop_sending, Listens, SameEar
  <2>8. Stopped(r, t, id)
    BY <2>7, OneParts DEF Stopped
  <2> QED
    BY <2>2, <2>4, <2>6, <2>8, OneParts DEF Listens
<1>6. Whole(r, t)
  BY <1>2, <1>3, <1>4 DEF One, Whole
<1>7. \A id \in StreamId : Parts(e, r, t, id)
  BY <1>5 DEF One, Parts
<1> QED
  BY <1>6, <1>7 DEF One

-----------------------------------------------------------------------------
(* An end says something: one more capsule c, with what goes with it.      *)

SaysOf(p, s, t, c, id) ==
    LET f == s.streams[id]
        g == t.streams[id]
    IN  /\ g.recv_state = f.recv_state
        /\ g.bytes_sent = f.bytes_sent + Size(c, CarriersOf(id))
        /\ c \in DataOf(id) => Place(c) = f.bytes_sent
        /\ c \in AboutOf(id) => id \in s.ids /\ f.send_state \notin SendDone
        /\ c \in EndsOf(id) => g.send_state \in SendDone
        /\ f.send_state \in SendDone => g.send_state \in SendDone
        /\ g.pending_sends # <<>> => is_sendable_stream(p, id) \/ f.pending_sends # <<>>
        /\ c \in RaisesOf(id) => /\ id \in s.ids
                                 /\ id \notin s.sent_stop_sending_stream_ids
                                 /\ f.max_stream_data_remote <= c.val
                                 /\ c.val <= g.max_stream_data_remote
        /\ c \in StopsOf(id) => /\ id \notin s.sent_stop_sending_stream_ids
                                /\ id \in t.sent_stop_sending_stream_ids
        /\ id \in s.sent_stop_sending_stream_ids => id \in t.sent_stop_sending_stream_ids
        /\ c \in CarriersOf(id) => is_sendable_stream(p, id)
        /\ Disciplined =>
              /\ c \in AboutOf(id) => is_sendable_stream(p, id)
              /\ (c \in StopsOf(id) \/ c \in RaisesOf(id)) =>
                     is_receivable_data_capsule(p, id)

Says(p, s, t, c) ==
    /\ c \in Capsule \ Unfit
    /\ t.out = Append(s.out, c)
    /\ s.status = "open"
    /\ t.status = IF c \in Closes THEN "terminated" ELSE "open"
    /\ Disciplined => t.reason \in {"none", "app"}
    /\ t.bytes_sent = s.bytes_sent + Size(c, Carriers)
    /\ s.max_data_remote <= t.max_data_remote
    /\ c \in MaxDatas => s.max_data_remote <= c.val /\ c.val <= t.max_data_remote
    /\ \A d \in Dir :
          /\ s.max_streams_remote[d] <= t.max_streams_remote[d]
          /\ t.max_streams_remote[d] <= kMaxStreamsLimit
          /\ c \in MaxStreamsOf(d) => /\ s.max_streams_remote[d] <= c.val
                                      /\ c.val <= t.max_streams_remote[d]
    /\ t.released_stream_ids = s.released_stream_ids
    /\ Listens(s, t)
    /\ \A id \in StreamId : SaysOf(p, s, t, c, id)

LEMMA SaysLimits ==
    ASSUME NEW p, NEW s \in WtSessionInfo, NEW t \in WtSessionInfo,
           NEW r \in WtSessionInfo, One(p, s, r), NEW c, Says(p, s, t, c)
    PROVE  /\ t.status = "open" => None(t.out, Closes)
           /\ r.status = "open" => t.status # "erased" /\ Total(t, r)
           /\ None(t.out, Unfit)
           /\ SessionLimit(t, r)
           /\ \A d \in Dir : CountLimit(t, r, d)
<1>1. /\ c \in Capsule /\ c \notin Unfit /\ t.out = Append(s.out, c)
      /\ s.out \in Seq(Capsule) /\ c.val \in Nat /\ c.len \in Nat
  BY SessionFields, Naturals DEF Says
<1>2. t.status = "open" => None(t.out, Closes)
  BY <1>1, NoneAppend DEF One, Whole, Says
<1>3. None(t.out, Unfit)
  BY <1>1, NoneAppend DEF One, Whole
<1>4. r.status = "open" => t.status # "erased" /\ Total(t, r)
  <2> SUFFICES ASSUME r.status = "open" PROVE t.status # "erased" /\ Total(t, r)
    OBVIOUS
  <2>1. t.status # "erased"
    BY DEF Says
  <2>2. Chain(s.out, Carriers, {}, r.bytes_received, s.bytes_sent)
    BY DEF One, Whole, Total
  <2>3. Chain(Append(s.out, c), Carriers, {}, r.bytes_received, s.bytes_sent + Size(c, Carriers))
    BY <1>1, <2>2, SessionFields, ChainAppend
  <2> QED
    BY <1>1, <2>1, <2>3 DEF Says, Total
<1>5. SessionLimit(t, r)
  <2>1. SessionLimit(s, r)
    BY DEF One, Whole
  <2>2. /\ s.max_data_remote \in Nat /\ t.max_data_remote \in Nat
        /\ r.received_max_data \in Nat /\ r.max_data_local \in Nat
    BY SessionFields
  <2>3. /\ s.max_data_remote <= t.max_data_remote
        /\ c \in MaxDatas => s.max_data_remote <= c.val /\ c.val <= t.max_data_remote
    BY DEF Says
  <2>4. c \in MaxDatas => AtMost(s.out, MaxDatas, c.val)
    BY <1>1, <2>1, <2>2, <2>3, AtMostGrows DEF SessionLimit
  <2>5. Rising(t.out, MaxDatas, r.received_max_data)
    <3>1. c \in MaxDatas => r.received_max_data <= c.val
      BY <1>1, <2>1, <2>2, <2>3 DEF SessionLimit
    <3> QED
      BY <1>1, <2>1, <2>2, <2>4, <3>1, RisingAppend DEF SessionLimit
  <2>6. AtMost(t.out, MaxDatas, t.max_data_remote)
    BY <1>1, <2>1, <2>2, <2>3, AtMostAppend DEF SessionLimit
  <2> QED
    BY <2>1, <2>2, <2>3, <2>5, <2>6 DEF SessionLimit
<1>6. ASSUME NEW d \in Dir PROVE CountLimit(t, r, d)
  <2> DEFINE K == MaxStreamsOf(d)
             a == s.max_streams_remote[d]
             b == t.max_streams_remote[d]
             n == r.received_max_streams[d]
  <2>1. /\ Rising(s.out, K, n) /\ AtMost(s.out, K, a) /\ n <= a
        /\ r.max_streams_local[d] <= a
        /\ s.streams_opened[d] <= s.max_streams_local[d]
    BY DEF One, Whole, CountLimit
  <2>2. /\ a \in Nat /\ b \in Nat /\ n \in Nat /\ r.max_streams_local[d] \in Nat
    BY SessionFields
  <2>3. /\ a <= b /\ b <= kMaxStreamsLimit
        /\ c \in K => a <= c.val /\ c.val <= b
        /\ t.streams_opened = s.streams_opened /\ t.max_streams_local = s.max_streams_local
    BY DEF Says, Listens
  <2> HIDE DEF K, a, b, n
  <2>4. c \in K => AtMost(s.out, K, c.val)
    BY <1>1, <2>1, <2>2, <2>3, AtMostGrows
  <2>5. c \in K => n <= c.val
    BY <1>1, <2>1, <2>2, <2>3
  <2>6. Rising(t.out, K, n)
    BY <1>1, <2>1, <2>2, <2>4, <2>5, RisingAppend
  <2>7. AtMost(t.out, K, b)
    BY <1>1, <2>1, <2>2, <2>3, AtMostAppend
  <2>8. n <= b /\ r.max_streams_local[d] <= b
    BY <2>1, <2>2, <2>3
  <2> QED
    BY <2>1, <2>3, <2>6, <2>7, <2>8 DEF CountLimit, K, a, b, n
<1> QED
  BY <1>2, <1>3, <1>4, <1>5, <1>6

LEMMA SaysDone ==
    ASSUME NEW p, NEW s, NEW t, NEW c, NEW id \in StreamId, Says(p, s, t, c)
    PROVE  Done(p, s, id) => Done(p, t, id)
BY DEF Says, SaysOf, Listens, Done, Past, Opened

LEMMA SaysWay ==
    ASSUME NEW p \in End, NEW s \in WtSessionInfo, NEW t, Good(t),
           NEW r \in WtSessionInfo, NEW c, Says(p, s, t, c), NEW id \in StreamId,
           Way(p, s, r, id), Credit(Peer(p), r, s, id)
    PROVE  Way(p, t, r, id)
<1> DEFINE K == CarriersOf(id)
           P == DataOf(id)
           b == r.streams[id].bytes_received
           g == GrantedBy(Peer(p), r, id)
           f == s.streams[id]
           h == t.streams[id]
<1>1. /\ c \in Capsule /\ t.out = Append(s.out, c)
      /\ s.out \in Seq(Capsule) /\ c.len \in Nat
  BY SessionFields, Naturals DEF Says
<1>2. /\ h.bytes_sent = f.bytes_sent + Size(c, K)
      /\ c \in P => Place(c) = f.bytes_sent
      /\ c \in AboutOf(id) => id \in s.ids /\ f.send_state \notin SendDone
      /\ c \in EndsOf(id) => h.send_state \in SendDone
      /\ t.ids = s.ids
      /\ h.max_stream_data_local = f.max_stream_data_local
  BY DEF Says, SaysOf, Listens, SameEar
<1>3. c \in AboutOf(id) => ~Done(p, s, id)
  BY <1>2 DEF Done
<1>4. Done(p, s, id) => Done(p, t, id)
  BY SaysDone
<1>5. b \in Nat /\ f.bytes_sent \in Nat /\ g \in Nat
  BY SessionFields, StreamFields, PeerPeer, GrantedNat
<1>6. PICK to \in Nat : /\ Chain(s.out, K, P, b, to)
                        /\ ~Done(p, s, id) => to = f.bytes_sent
                        /\ r.seen[id] = "live" => to <= g
  BY DEF Way
<1>7. K \subseteq AboutOf(id) /\ P \subseteq AboutOf(id) /\ EndsOf(id) \subseteq AboutOf(id)
  BY Kinds
<1>8. c \in P => Place(c) = to
  BY <1>2, <1>3, <1>6, <1>7
<1> DEFINE m == to + Size(c, K)
<1>9. Size(c, K) \in Nat /\ m \in Nat /\ (c \notin K => m = to)
  BY <1>1 DEF Size
<1>10. Chain(t.out, K, P, b, m)
  BY <1>1, <1>5, <1>6, <1>8, ChainAppend
<1>11. ~Done(p, t, id) => m = h.bytes_sent
  BY <1>2, <1>4, <1>6
<1>12. r.seen[id] = "live" => m <= g
  <2> SUFFICES ASSUME r.seen[id] = "live" PROVE m <= g
    OBVIOUS
  <2>1. CASE c \notin K
    BY <1>6, <1>9, <2>1
  <2>2. CASE c \in K
    <3>1. id \in s.ids /\ to = f.bytes_sent
      BY <1>2, <1>3, <1>6, <1>7, <2>2
    <3>2. m = h.bytes_sent
      BY <1>2, <3>1
    <3>3. h.bytes_sent <= h.max_stream_data_local
      BY <1>2, <3>1 DEF Good, StreamCredit
    <3>4. f.max_stream_data_local <= g
      BY <3>1, PeerPeer DEF Credit
    <3>5. f.max_stream_data_local \in Nat
      BY SessionFields, StreamFields
    <3> HIDE DEF m, g
    <3> QED
      BY <1>2, <1>5, <1>9, <3>2, <3>3, <3>4, <3>5
  <2> QED
    BY <2>1, <2>2
<1>13. NoneAfter(t.out, EndsOf(id), AboutOf(id))
  <2>1. c \in AboutOf(id) => None(s.out, EndsOf(id))
    BY <1>3 DEF Way
  <2>2. NoneAfter(s.out, EndsOf(id), AboutOf(id))
    BY DEF Way
  <2> QED
    BY <1>1, <2>1, <2>2, NoneAfterAppend
<1>14. ~Done(p, t, id) => None(t.out, EndsOf(id)) /\ r.seen[id] = "live"
  <2> SUFFICES ASSUME ~Done(p, t, id) PROVE None(t.out, EndsOf(id)) /\ r.seen[id] = "live"
    OBVIOUS
  <2>1. None(s.out, EndsOf(id)) /\ r.seen[id] = "live"
    BY <1>4 DEF Way
  <2>2. c \notin EndsOf(id)
    BY <1>2, <1>7 DEF Done
  <2> QED
    BY <1>1, <2>1, <2>2, NoneAppend
<1>15. r.seen[id] # "live" => None(t.out, AboutOf(id))
  <2> SUFFICES ASSUME r.seen[id] # "live" PROVE None(t.out, AboutOf(id))
    OBVIOUS
  <2>1. None(s.out, AboutOf(id)) /\ c \notin AboutOf(id)
    BY <1>3 DEF Way
  <2> QED
    BY <1>1, <2>1, NoneAppend
<1> HIDE DEF m
<1>16. \E n \in Nat : /\ Chain(t.out, K, P, b, n)
                      /\ ~Done(p, t, id) => n = h.bytes_sent
                      /\ r.seen[id] = "live" => n <= g
  BY <1>9, <1>10, <1>11, <1>12
<1> QED
  BY <1>13, <1>14, <1>15, <1>16 DEF Way

LEMMA SaysCredit ==
    ASSUME NEW p \in End, NEW s \in WtSessionInfo, NEW t \in WtSessionInfo,
           NEW r \in WtSessionInfo, NEW c, Says(p, s, t, c), NEW id \in StreamId,
           Entry(p, s, id), Credit(p, s, r, id)
    PROVE  Credit(p, t, r, id)
<1> DEFINE K == RaisesOf(id)
           n == previous_max_stream_data(r, Peer(p), id)
           a == GrantedBy(p, s, id)
           b == GrantedBy(p, t, id)
           d == Config[p].max_stream_data
           f == s.streams[id]
           h == t.streams[id]
<1>1. /\ c \in Capsule /\ t.out = Append(s.out, c)
      /\ s.out \in Seq(Capsule) /\ c.val \in Nat
  BY SessionFields, Naturals DEF Says
<1>2. /\ c \in K => /\ id \in s.ids /\ f.max_stream_data_remote <= c.val
                    /\ c.val <= h.max_stream_data_remote
      /\ t.ids = s.ids /\ t.seen = s.seen
      /\ f.max_stream_data_remote <= h.max_stream_data_remote
  BY DEF Says, SaysOf, Listens, SameEar
<1>3. /\ a \in Nat /\ b \in Nat /\ n \in Nat /\ d \in Nat
      /\ r.streams[id].max_stream_data_local \in Nat
  BY GrantedNat, PreviousNat, PeerPeer, PeerConfig, SessionFields, StreamFields
<1>4. a <= b /\ (c \in K => id \in s.ids /\ a <= c.val /\ c.val <= b)
  BY <1>2, <1>3 DEF GrantedBy
<1>5. /\ Rising(s.out, K, n) /\ Rising(s.out, K, d)
      /\ (id \in s.ids \/ s.seen[id] = "live") =>
            /\ n <= a /\ AtMost(s.out, K, a)
            /\ id \in r.ids => r.streams[id].max_stream_data_local <= a
  BY DEF Credit
<1>6. c \in K => d <= a
  BY <1>4 DEF Entry, GrantedBy
<1> HIDE DEF K, n, a, b, d
<1>7. c \in K => n <= c.val /\ d <= c.val /\ AtMost(s.out, K, c.val)
  <2> SUFFICES ASSUME c \in K PROVE n <= c.val /\ d <= c.val /\ AtMost(s.out, K, c.val)
    OBVIOUS
  <2>1. AtMost(s.out, K, a)
    BY <1>4, <1>5
  <2>2. AtMost(s.out, K, c.val)
    BY <1>1, <1>3, <1>4, <2>1, AtMostGrows
  <2> QED
    BY <1>1, <1>3, <1>4, <1>5, <1>6, <2>2
<1>8. Rising(t.out, K, n)
  BY <1>1, <1>3, <1>5, <1>7, RisingAppend
<1>9. Rising(t.out, K, d)
  BY <1>1, <1>3, <1>5, <1>7, RisingAppend
<1>10. ASSUME id \in t.ids \/ t.seen[id] = "live"
       PROVE  /\ n <= b /\ AtMost(t.out, K, b)
              /\ id \in r.ids => r.streams[id].max_stream_data_local <= b
  <2>1. /\ n <= a /\ AtMost(s.out, K, a)
        /\ id \in r.ids => r.streams[id].max_stream_data_local <= a
    BY <1>2, <1>5, <1>10
  <2>2. AtMost(t.out, K, b)
    BY <1>1, <1>3, <1>4, <2>1, AtMostAppend
  <2> QED
    BY <1>3, <1>4, <2>1, <2>2
<1> QED
  BY <1>8, <1>9, <1>10 DEF Credit, K, n, b, d

LEMMA SaysStopped ==
    ASSUME NEW p, NEW s \in WtSessionInfo, NEW t, NEW r, NEW c, Says(p, s, t, c),
           NEW id \in StreamId, Stopped(s, r, id)
    PROVE  Stopped(t, r, id)
<1>1. /\ c \in Capsule /\ t.out = Append(s.out, c) /\ s.out \in Seq(Capsule)
  BY SessionFields DEF Says
<1>2. /\ c \in RaisesOf(id) => id \notin s.sent_stop_sending_stream_ids
      /\ c \in StopsOf(id) => /\ id \notin s.sent_stop_sending_stream_ids
                              /\ id \in t.sent_stop_sending_stream_ids
      /\ id \in s.sent_stop_sending_stream_ids => id \in t.sent_stop_sending_stream_ids
  BY DEF Says, SaysOf
<1>3. id \notin t.sent_stop_sending_stream_ids =>
          None(t.out, StopsOf(id)) /\ ~has_received_stop_sending(r, id)
  BY <1>1, <1>2, NoneAppend DEF Stopped
<1>4. has_received_stop_sending(r, id) =>
          None(t.out, StopsOf(id)) /\ None(t.out, RaisesOf(id))
  BY <1>1, <1>2, NoneAppend DEF Stopped
<1>5. NoneAfter(t.out, StopsOf(id), StopsOf(id) \cup RaisesOf(id))
  BY <1>1, <1>2, NoneAfterAppend DEF Stopped
<1> QED
  BY <1>3, <1>4, <1>5 DEF Stopped

LEMMA SaysEntry ==
    ASSUME NEW p, NEW s \in WtSessionInfo, NEW t \in WtSessionInfo, NEW r,
           NEW c, Says(p, s, t, c), p \in End,
           NEW id \in StreamId, Entry(p, s, id), Born(p, s, r, id)
    PROVE  Entry(p, t, id) /\ Born(p, t, r, id)
<1>1. /\ c \in Capsule /\ t.out = Append(s.out, c) /\ s.out \in Seq(Capsule)
  BY SessionFields DEF Says
<1>2. /\ t.ids = s.ids /\ t.seen = s.seen /\ t.streams_opened = s.streams_opened
      /\ t.released_stream_ids = s.released_stream_ids
      /\ t.streams[id].recv_state = s.streams[id].recv_state
      /\ t.streams[id].bytes_received = s.streams[id].bytes_received
      /\ t.streams[id].pending_sends # <<>> =>
             is_sendable_stream(p, id) \/ s.streams[id].pending_sends # <<>>
      /\ c \in AboutOf(id) => id \in s.ids
      /\ t.streams[id].bytes_sent = s.streams[id].bytes_sent + Size(c, CarriersOf(id))
  BY DEF Says, SaysOf, Listens, SameEar
<1>3. /\ s.streams[id].max_stream_data_remote <= t.streams[id].max_stream_data_remote
      /\ s.streams[id].max_stream_data_remote \in Nat
      /\ t.streams[id].max_stream_data_remote \in Nat
      /\ Config[p].max_stream_data \in Nat
  BY SessionFields, StreamFields, PeerConfig DEF Says, Listens, SameEar
<1>4. /\ DataOf(id) \subseteq AboutOf(id) /\ CarriersOf(id) \subseteq AboutOf(id)
  BY Kinds
<1>5. Opened(t, id) <=> Opened(s, id)
  BY <1>2 DEF Opened
<1>6. id \notin t.ids => t.streams[id].bytes_sent = 0
  BY <1>2, <1>4 DEF Entry, Size
<1>7. Entry(p, t, id)
  BY <1>2, <1>3, <1>5, <1>6 DEF Entry
<1>8. ASSUME ~(IF is_local(p, id) THEN Opened(t, id) ELSE Opened(r, id))
      PROVE  None(t.out, DataOf(id))
  <2>1. None(s.out, DataOf(id)) /\ c \notin DataOf(id)
    BY <1>2, <1>4, <1>5, <1>8 DEF Born, Entry
  <2> QED
    BY <1>1, <2>1, NoneAppend
<1> QED
  BY <1>2, <1>7, <1>8 DEF Born

LEMMA SaysDirected ==
    ASSUME NEW p, NEW s \in WtSessionInfo, NEW t, NEW c, Says(p, s, t, c),
           NEW id \in StreamId, Directed(p, s, id)
    PROVE  Directed(p, t, id)
<1>1. /\ c \in Capsule /\ t.out = Append(s.out, c) /\ s.out \in Seq(Capsule)
  BY SessionFields DEF Says
<1>2. /\ c \in CarriersOf(id) => is_sendable_stream(p, id)
      /\ Disciplined =>
            /\ c \in AboutOf(id) => is_sendable_stream(p, id)
            /\ c \in StopsOf(id) => is_receivable_data_capsule(p, id)
            /\ c \in RaisesOf(id) => is_receivable_data_capsule(p, id)
  BY DEF Says, SaysOf
<1> QED
  BY <1>1, <1>2, NoneAppend DEF Directed

LEMMA SaysPair ==
    ASSUME NEW p \in End, NEW s, Good(s), NEW t, Good(t),
           NEW r, Good(r), NEW c, Pair(p, s, r), Says(p, s, t, c)
    PROVE  Pair(p, t, r)
<1>1. /\ s \in WtSessionInfo /\ t \in WtSessionInfo /\ r \in WtSessionInfo
  BY DEF Good
<1>2. One(p, s, r) /\ One(Peer(p), r, s) /\ Peer(p) \in End /\ Peer(Peer(p)) = p
  BY PeerPeer DEF Pair
<1>3. One(Peer(p), r, t)
  BY <1>1, <1>2, ListensOne DEF Says
<1>4. /\ t.status = "open" => None(t.out, Closes)
      /\ r.status = "open" => t.status # "erased" /\ Total(t, r)
      /\ None(t.out, Unfit)
      /\ SessionLimit(t, r)
      /\ \A d \in Dir : CountLimit(t, r, d)
  BY <1>1, <1>2, SaysLimits
<1>5. ASSUME NEW id \in StreamId
      PROVE  /\ Entry(p, t, id)
             /\ Born(p, t, r, id)
             /\ (r.status = "open" /\ is_receivable_data_capsule(Peer(p), id)) =>
                    Way(p, t, r, id)
             /\ is_receivable_data_capsule(p, id) => Credit(p, t, r, id)
             /\ Stopped(t, r, id)
             /\ Directed(p, t, id)
  <2>1. Entry(p, t, id) /\ Born(p, t, r, id)
    BY <1>1, <1>2, OneParts, SaysEntry
  <2>2. ASSUME r.status = "open", is_receivable_data_capsule(Peer(p), id)
        PROVE  Way(p, t, r, id)
    <3>1. Way(p, s, r, id) /\ Credit(Peer(p), r, s, id)
      BY <1>2, <2>2, OneParts
    <3> QED
      BY <1>1, <3>1, SaysWay
  <2>3. is_receivable_data_capsule(p, id) => Credit(p, t, r, id)
    BY <1>1, <1>2, OneParts, SaysCredit
  <2>4. Stopped(t, r, id)
    BY <1>1, <1>2, OneParts, SaysStopped
  <2>5. Directed(p, t, id)
    BY <1>1, <1>2, OneParts, SaysDirected
  <2> QED
    BY <2>1, <2>2, <2>3, <2>4, <2>5
<1>6. Disciplined => t.reason \in {"none", "app"}
  BY DEF Says
<1>7. One(p, t, r)
  BY <1>4, <1>5, <1>6 DEF One, Whole, Parts
<1> QED
  BY <1>3, <1>7 DEF Pair

-----------------------------------------------------------------------------
(* What an end is as a sender: t is as s to whoever receives from it.      *)

SpeaksOf(p, s, t, id) ==
    LET f == s.streams[id]
        g == t.streams[id]
    IN  /\ g.bytes_sent = f.bytes_sent
        /\ g.send_state = f.send_state
        /\ g.max_stream_data_remote = f.max_stream_data_remote
        /\ id \notin s.ids => g.bytes_received = f.bytes_received
        /\ g.pending_sends # <<>> => is_sendable_stream(p, id) \/ f.pending_sends # <<>>
        /\ g.recv_state \in RecvDone => f.recv_state \in RecvDone \/ t.seen[id] # "live"
        /\ t.seen[id] = s.seen[id] \/ (id \in s.ids /\ t.seen[id] = "ended")

Speaks(p, s, t) ==
    /\ t.out = s.out
    /\ t.status = s.status
    /\ t.reason = s.reason
    /\ t.bytes_sent = s.bytes_sent
    /\ t.max_data_remote = s.max_data_remote
    /\ t.max_streams_remote = s.max_streams_remote
    /\ t.streams_opened = s.streams_opened
    /\ \A d \in Dir : s.max_streams_local[d] <= t.max_streams_local[d]
    /\ t.ids = s.ids
    /\ t.released_stream_ids = s.released_stream_ids
    /\ t.sent_stop_sending_stream_ids = s.sent_stop_sending_stream_ids
    /\ \A id \in StreamId : SpeaksOf(p, s, t, id)

LEMMA SpeaksOne ==
    ASSUME NEW p \in End, NEW s \in WtSessionInfo, NEW t \in WtSessionInfo,
           NEW r, One(p, s, r), Speaks(p, s, t)
    PROVE  One(p, t, r)
<1>1. Whole(t, r)
  <2>1. Whole(s, r)
    BY DEF One
  <2>2. Total(s, r) => Total(t, r)
    BY DEF Total, Speaks
  <2>3. SessionLimit(s, r) => SessionLimit(t, r)
    BY DEF SessionLimit, Speaks
  <2>4. ASSUME NEW d \in Dir, CountLimit(s, r, d) PROVE CountLimit(t, r, d)
    <3>1. /\ s.streams_opened[d] \in Nat /\ s.max_streams_local[d] \in Nat
          /\ t.max_streams_local[d] \in Nat
      BY SessionFields
    <3>2. t.streams_opened[d] <= t.max_streams_local[d]
      BY <2>4, <3>1 DEF CountLimit, Speaks
    <3> QED
      BY <2>4, <3>2 DEF CountLimit, Speaks
  <2> QED
    BY <2>1, <2>2, <2>3, <2>4 DEF Whole, Speaks
<1>2. ASSUME NEW id \in StreamId PROVE Parts(p, t, r, id)
  <2>1. Parts(p, s, r, id)
    BY DEF One
  <2>2. SpeaksOf(p, s, t, id)
    BY DEF Speaks
  <2>3. /\ t.out = s.out /\ t.ids = s.ids
        /\ t.streams_opened = s.streams_opened
        /\ t.released_stream_ids = s.released_stream_ids
        /\ t.sent_stop_sending_stream_ids = s.sent_stop_sending_stream_ids
    BY DEF Speaks
  <2>4. Opened(t, id) <=> Opened(s, id)
    BY <2>3 DEF Opened
  <2>5. Done(p, t, id) <=> Done(p, s, id)
    BY <2>2, <2>3, <2>4 DEF Done, Past, SpeaksOf
  <2>6. GrantedBy(p, t, id) = GrantedBy(p, s, id)
    BY <2>2, <2>3 DEF GrantedBy, SpeaksOf
  <2>7. Entry(p, s, id) => Entry(p, t, id)
    BY <2>2, <2>3, <2>4 DEF Entry, SpeaksOf
  <2>8. Born(p, s, r, id) => Born(p, t, r, id)
    BY <2>3, <2>4 DEF Born
  <2>9. Way(p, s, r, id) => Way(p, t, r, id)
    BY <2>2, <2>3, <2>5 DEF Way, SpeaksOf
  <2>10. Credit(p, s, r, id) => Credit(p, t, r, id)
    <3>1. (id \in t.ids \/ t.seen[id] = "live") => (id \in s.ids \/ s.seen[id] = "live")
      BY <2>2, <2>3 DEF SpeaksOf
    <3> QED
      BY <2>3, <2>6, <3>1 DEF Credit
  <2>11. Stopped(s, r, id) => Stopped(t, r, id)
    BY <2>3 DEF Stopped
  <2>12. Directed(p, s, id) => Directed(p, t, id)
    BY <2>3 DEF Directed
  <2> QED
    BY <2>1, <2>7, <2>8, <2>9, <2>10, <2>11, <2>12 DEF Parts
<1> QED
  BY <1>1, <1>2 DEF One

(* A change that nobody but the end itself sees.                           *)
LEMMA KeepsPair ==
    ASSUME NEW p \in End, NEW s \in WtSessionInfo, NEW t \in WtSessionInfo,
           NEW r \in WtSessionInfo, Pair(p, s, r), Listens(s, t), Speaks(p, s, t)
    PROVE  Pair(p, t, r)
BY PeerPeer, ListensOne, SpeaksOne DEF Pair

-----------------------------------------------------------------------------
(* An entry of the map comes or goes.                                      *)

(* Nothing changes for the session as a whole.                             *)
SameWhole(s, t) ==
    /\ t.out = s.out
    /\ t.status = s.status
    /\ t.reason = s.reason
    /\ t.bytes_sent = s.bytes_sent
    /\ t.bytes_received = s.bytes_received
    /\ t.max_data_local = s.max_data_local
    /\ t.received_max_data = s.received_max_data
    /\ t.max_data_remote = s.max_data_remote
    /\ t.max_streams_local = s.max_streams_local
    /\ t.received_max_streams = s.received_max_streams
    /\ t.max_streams_remote = s.max_streams_remote
    /\ t.seen = s.seen
    /\ t.received_max_stream_data_by_id = s.received_max_stream_data_by_id
    /\ t.received_stop_sending_stream_ids = s.received_stop_sending_stream_ids
    /\ t.sent_stop_sending_stream_ids = s.sent_stop_sending_stream_ids

LEMMA SameWholeBoth ==
    ASSUME NEW s, NEW t, NEW r, SameWhole(s, t), Whole(s, r), Whole(r, s),
           \A d \in Dir : t.streams_opened[d] <= t.max_streams_local[d]
    PROVE  Whole(t, r) /\ Whole(r, t)
<1>1. /\ Total(s, r) => Total(t, r)
      /\ Total(r, s) => Total(r, t)
  BY DEF Total, SameWhole
<1>2. /\ SessionLimit(s, r) => SessionLimit(t, r)
      /\ SessionLimit(r, s) => SessionLimit(r, t)
  BY DEF SessionLimit, SameWhole
<1>3. \A d \in Dir : /\ CountLimit(s, r, d) => CountLimit(t, r, d)
                     /\ CountLimit(r, s, d) => CountLimit(r, t, d)
  BY DEF CountLimit, SameWhole
<1>4. /\ t.status = s.status /\ t.out = s.out /\ t.reason = s.reason
  BY DEF SameWhole
<1>5. Whole(t, r)
  BY <1>1, <1>2, <1>3, <1>4 DEF Whole
<1>6. Whole(r, t)
  BY <1>1, <1>2, <1>3, <1>4 DEF Whole
<1> QED
  BY <1>5, <1>6

(* Nothing changes for one stream.                                         *)
SameAt(p, s, t, o) ==
    /\ o \in t.ids <=> o \in s.ids
    /\ o \in t.released_stream_ids => o \in s.released_stream_ids
    /\ t.streams[o] = s.streams[o]
    /\ Opened(s, o) => Opened(t, o)
    /\ is_local(p, o) => (Opened(t, o) => Opened(s, o))

LEMMA SameAtBoth ==
    ASSUME NEW p \in End, NEW s, NEW t, NEW r, NEW o \in StreamId,
           SameWhole(s, t), SameAt(p, s, t, o),
           Parts(p, s, r, o), Parts(Peer(p), r, s, o)
    PROVE  Parts(p, t, r, o) /\ Parts(Peer(p), r, t, o)
<1>1. /\ t.out = s.out /\ t.seen = s.seen /\ t.status = s.status
      /\ t.received_max_stream_data_by_id = s.received_max_stream_data_by_id
      /\ t.received_stop_sending_stream_ids = s.received_stop_sending_stream_ids
      /\ t.sent_stop_sending_stream_ids = s.sent_stop_sending_stream_ids
  BY DEF SameWhole
<1>2. /\ o \in t.ids <=> o \in s.ids
      /\ o \in t.released_stream_ids => o \in s.released_stream_ids
      /\ t.streams[o] = s.streams[o]
      /\ Opened(s, o) => Opened(t, o)
      /\ is_local(p, o) => (Opened(t, o) <=> Opened(s, o))
  BY DEF SameAt
<1>3. is_local(Peer(p), o) <=> ~is_local(p, o)
  BY Directions
<1>4. Done(p, t, o) <=> Done(p, s, o)
  BY <1>1, <1>2 DEF Done, Past
<1>5. \A e : /\ GrantedBy(e, t, o) = GrantedBy(e, s, o)
             /\ previous_max_stream_data(t, e, o) = previous_max_stream_data(s, e, o)
  BY <1>1, <1>2 DEF GrantedBy, previous_max_stream_data
<1>6. has_received_stop_sending(t, o) <=> has_received_stop_sending(s, o)
  BY <1>1, <1>2 DEF has_received_stop_sending
<1>7. Parts(p, t, r, o)
  <2>1. Entry(p, t, o)
    BY <1>1, <1>2 DEF Parts, Entry
  <2>2. Born(p, t, r, o)
    BY <1>1, <1>2 DEF Parts, Born
  <2>3. Way(p, s, r, o) => Way(p, t, r, o)
    BY <1>1, <1>2, <1>4 DEF Way
  <2>4. Credit(p, s, r, o) => Credit(p, t, r, o)
    BY <1>1, <1>2, <1>5 DEF Credit
  <2>5. Stopped(t, r, o)
    BY <1>1 DEF Parts, Stopped
  <2>6. Directed(p, s, o) => Directed(p, t, o)
    BY <1>1 DEF Directed
  <2> QED
    BY <2>1, <2>2, <2>3, <2>4, <2>5, <2>6 DEF Parts
<1>8. Parts(Peer(p), r, t, o)
  <2>1. Born(Peer(p), r, t, o)
    BY <1>2, <1>3 DEF Parts, Born
  <2>2. Way(Peer(p), r, s, o) => Way(Peer(p), r, t, o)
    BY <1>1, <1>2, <1>5 DEF Way
  <2>3. Credit(Peer(p), r, s, o) => Credit(Peer(p), r, t, o)
    BY <1>1, <1>2, <1>5 DEF Credit
  <2>4. Stopped(r, t, o)
    BY <1>6 DEF Parts, Stopped
  <2> QED
    BY <1>1, <2>1, <2>2, <2>3, <2>4 DEF Parts
<1> QED
  BY <1>7, <1>8

(* maybe_release_stream drops an entry that is finished on both sides.     *)
LEMMA EraseSame ==
    ASSUME NEW s \in WtSessionInfo, NEW e, NEW id \in StreamId
    PROVE  LET t == erase_stream(s, e, id)
           IN  /\ SameWhole(s, t) /\ t.streams_opened = s.streams_opened
               /\ t.ids = s.ids \ {id}
               /\ t.streams[id] = NoStream
               /\ \A o \in StreamId : o # id => t.streams[o] = s.streams[o]
               /\ \A o \in t.released_stream_ids :
                     o \in s.released_stream_ids
                         \/ (o = id /\ is_receivable_data_capsule(e, id))
BY DEF erase_stream, SameWhole, WtSessionInfo

LEMMA DropsPair ==
    ASSUME NEW p \in End, NEW s \in WtSessionInfo, NEW r \in WtSessionInfo,
           NEW id \in s.ids, Pair(p, s, r), releasable(s, p, id)
    PROVE  Pair(p, erase_stream(s, p, id), r)
<1> DEFINE t == erase_stream(s, p, id)
           e == Peer(p)
<1>1. id \in StreamId /\ e \in End /\ Peer(e) = p
  BY SessionFields, PeerPeer
<1>2. /\ SameWhole(s, t) /\ t.streams_opened = s.streams_opened
      /\ t.ids = s.ids \ {id} /\ t.streams[id] = NoStream
      /\ \A o \in StreamId : o # id => t.streams[o] = s.streams[o]
      /\ \A o \in t.released_stream_ids :
            o \in s.released_stream_ids \/ (o = id /\ is_receivable_data_capsule(p, id))
  BY <1>1, EraseSame
<1> HIDE DEF t, e
<1>3. One(p, s, r) /\ One(e, r, s)
  BY DEF Pair, e
<1>4. Whole(t, r) /\ Whole(r, t)
  <2>1. \A d \in Dir : t.streams_opened[d] <= t.max_streams_local[d]
    BY <1>2, <1>3 DEF One, Whole, CountLimit, SameWhole
  <2> QED
    BY <1>2, <1>3, <2>1, SameWholeBoth DEF One
<1>5. ASSUME NEW o \in StreamId, o # id
      PROVE  Parts(p, t, r, o) /\ Parts(e, r, t, o)
  <2>1. SameAt(p, s, t, o)
    BY <1>2, <1>5 DEF SameAt, Opened
  <2> QED
    BY <1>2, <1>3, <2>1, SameAtBoth DEF One, e
<1>6. /\ Parts(p, s, r, id) /\ Parts(e, r, s, id)
  BY <1>1, <1>3 DEF One
<1>7. /\ t.out = s.out /\ t.seen = s.seen /\ t.status = s.status
      /\ t.received_max_stream_data_by_id = s.received_max_stream_data_by_id
      /\ t.received_stop_sending_stream_ids = s.received_stop_sending_stream_ids
      /\ t.sent_stop_sending_stream_ids = s.sent_stop_sending_stream_ids
      /\ id \notin t.ids
      /\ Opened(t, id) <=> Opened(s, id)
  BY <1>2 DEF SameWhole, Opened
<1>8. is_receivable_data_capsule(p, id) => t.seen[id] # "live"
  BY <1>6, <1>7 DEF releasable, Parts, Entry
<1>9. is_local(p, id) => Opened(t, id)
  BY <1>6, <1>7 DEF Parts, Entry
<1>10. Parts(p, t, r, id)
  <2>1. Entry(p, t, id)
    <3>1. t.streams[id].bytes_received = 0 /\ t.streams[id].bytes_sent = 0
      BY <1>2 DEF NoStream
    <3>2. id \in t.released_stream_ids => t.seen[id] # "live"
      BY <1>2, <1>6, <1>7, <1>8 DEF Parts, Entry
    <3>3. ~is_unidirectional(id) => t.seen[id] # "live"
      BY <1>8 DEF is_receivable_data_capsule
    <3>4. t.seen[id] \in {"live", "ended"}
      BY <1>6, <1>7 DEF Parts, Entry
    <3> QED
      BY <1>7, <1>9, <3>1, <3>2, <3>3, <3>4 DEF Entry
  <2>2. Born(p, t, r, id)
    BY <1>6, <1>7 DEF Parts, Born
  <2>3. ASSUME is_receivable_data_capsule(e, id), Way(p, s, r, id)
        PROVE  Way(p, t, r, id)
    <3>1. is_local(p, id) \/ ~is_unidirectional(id)
      BY <1>1, <2>3, Directions DEF is_sendable_stream, e
    <3>2. ~is_local(p, id) => t.seen[id] # "live"
      BY <1>8, <3>1 DEF is_receivable_data_capsule
    <3>3. Done(p, t, id)
      BY <1>7, <1>9, <3>2 DEF Done, Past
    <3> QED
      BY <1>7, <2>3, <3>3 DEF Way
  <2>4. is_receivable_data_capsule(p, id) => Credit(p, t, r, id)
    BY <1>6, <1>7, <1>8 DEF Parts, Credit
  <2>5. Stopped(t, r, id)
    BY <1>6, <1>7 DEF Parts, Stopped
  <2>6. Directed(p, t, id)
    BY <1>6, <1>7 DEF Parts, Directed
  <2> QED
    BY <1>6, <2>1, <2>2, <2>3, <2>4, <2>5, <2>6 DEF Parts, e
<1>11. Parts(e, r, t, id)
  <2>1. Born(e, r, t, id)
    BY <1>6, <1>7 DEF Parts, Born
  <2>2. ASSUME is_receivable_data_capsule(p, id), Way(e, r, s, id)
        PROVE  Way(e, r, t, id)
    <3>1. t.seen[id] # "live" /\ s.seen[id] # "live"
      BY <1>7, <1>8, <2>2
    <3>2. None(r.out, AboutOf(id))
      BY <2>2, <3>1 DEF Way
    <3>3. None(r.out, CarriersOf(id)) /\ None(r.out, DataOf(id))
      BY <3>2, Kinds DEF None
    <3>4. Chain(r.out, CarriersOf(id), DataOf(id), 0, 0)
      BY <3>3, SessionFields, ChainNone
    <3>5. t.streams[id].bytes_received = 0
      BY <1>2 DEF NoStream
    <3>6. Done(e, r, id)
      BY <2>2, <3>1 DEF Way
    <3>7. NoneAfter(r.out, EndsOf(id), AboutOf(id))
      BY <2>2 DEF Way
    <3> QED
      BY <3>1, <3>2, <3>4, <3>5, <3>6, <3>7 DEF Way
  <2>3. ASSUME is_receivable_data_capsule(e, id), Credit(e, r, s, id)
        PROVE  Credit(e, r, t, id)
    <3> DEFINE a == previous_max_stream_data(s, p, id)
               b == previous_max_stream_data(t, p, id)
               d == Config[e].max_stream_data
    <3>1. b = a \/ b = d
      BY <1>7 DEF previous_max_stream_data, e
    <3>2. Rising(r.out, RaisesOf(id), b)
      BY <1>1, <2>3, <3>1 DEF Credit
    <3>3. d <= GrantedBy(e, r, id)
      BY <1>1, <1>6, PeerConfig DEF GrantedBy, Parts, Entry
    <3> HIDE DEF a, b, d
    <3>4. (id \in r.ids \/ r.seen[id] = "live") => b <= GrantedBy(e, r, id)
      BY <1>1, <2>3, <3>1, <3>3 DEF Credit, a
    <3> QED
      BY <1>1, <1>7, <2>3, <3>2, <3>4 DEF Credit, b
  <2>4. has_received_stop_sending(t, id) => has_received_stop_sending(s, id)
    BY <1>7 DEF has_received_stop_sending
  <2>5. Stopped(r, t, id)
    BY <1>6, <2>4 DEF Parts, Stopped
  <2> QED
    BY <1>1, <1>6, <1>7, <2>1, <2>2, <2>3, <2>5 DEF Parts
<1>12. One(p, t, r) /\ One(e, r, t)
  BY <1>4, <1>5, <1>10, <1>11 DEF One
<1> QED
  BY <1>12 DEF Pair, t, e

(* A new entry: of a stream opened here, or of one first heard of.         *)
Makes(p, s, t, r, id) ==
    /\ id \notin s.ids
    /\ s.seen[id] = "live"
    /\ SameWhole(s, t)
    /\ t.ids = s.ids \cup {id}
    /\ t.released_stream_ids = s.released_stream_ids
    /\ \A o \in StreamId : o # id => t.streams[o] = s.streams[o]
    /\ t.streams[id] = [NoStream EXCEPT
           !.max_stream_data_local = initialize_stream_send_credit(s, p, id),
           !.max_stream_data_remote = Config[p].max_stream_data]
    /\ \A d \in Dir : t.streams_opened[d] <= t.max_streams_local[d]
    /\ \A o \in StreamId : Opened(s, o) => Opened(t, o)
    /\ \A o \in StreamId : (o # id /\ is_local(p, o) /\ Opened(t, o)) => Opened(s, o)
    /\ is_local(p, id) => Opened(t, id) /\ ~Opened(s, id)
    /\ ~is_local(p, id) => Opened(r, id)

LEMMA MakesPair ==
    ASSUME NEW p \in End, NEW s \in WtSessionInfo, NEW r \in WtSessionInfo, NEW t,
           NEW id \in StreamId, Pair(p, s, r), Makes(p, s, t, r, id)
    PROVE  Pair(p, t, r)
<1> DEFINE e == Peer(p)
           a == initialize_stream_send_credit(s, p, id)
           f == t.streams[id]
<1>1. e \in End /\ Peer(e) = p /\ (is_local(e, id) <=> ~is_local(p, id))
  BY PeerPeer, Directions
<1>2. One(p, s, r) /\ One(e, r, s)
  BY DEF Pair
<1>3. /\ f.send_state = "Ready" /\ f.recv_state = "Recv"
      /\ f.bytes_sent = 0 /\ f.bytes_received = 0
      /\ f.pending_sends = <<>> /\ ~f.stop_sending_received
      /\ f.max_stream_data_local = a /\ f.max_stream_data_remote = Config[p].max_stream_data
  <2>1. f = [NoStream EXCEPT !.max_stream_data_local = a,
                             !.max_stream_data_remote = Config[p].max_stream_data]
    BY DEF Makes
  <2> HIDE DEF f, a
  <2> QED
    BY <2>1 DEF NoStream
<1>4. /\ Parts(p, s, r, id) /\ Parts(e, r, s, id)
  BY <1>2 DEF One
<1>5. /\ t.out = s.out /\ t.seen = s.seen /\ t.status = s.status
      /\ t.received_max_stream_data_by_id = s.received_max_stream_data_by_id
      /\ t.received_stop_sending_stream_ids = s.received_stop_sending_stream_ids
      /\ t.sent_stop_sending_stream_ids = s.sent_stop_sending_stream_ids
      /\ t.released_stream_ids = s.released_stream_ids
      /\ id \in t.ids /\ id \notin s.ids /\ s.seen[id] = "live"
      /\ is_local(p, id) => Opened(t, id) /\ ~Opened(s, id)
      /\ ~is_local(p, id) => Opened(r, id)
  BY DEF Makes, SameWhole
<1> HIDE DEF e, a, f
<1>6. Whole(t, r) /\ Whole(r, t)
  BY <1>2, SameWholeBoth DEF Makes, One
<1>7. ASSUME NEW o \in StreamId, o # id
      PROVE  Parts(p, t, r, o) /\ Parts(e, r, t, o)
  <2>1. SameAt(p, s, t, o)
    BY <1>7 DEF SameAt, Makes
  <2> QED
    BY <1>2, <2>1, SameAtBoth DEF One, e, Makes
<1>8. Parts(p, t, r, id)
  <2>1. Entry(p, t, id)
    <3>1. id \notin s.released_stream_ids
      BY <1>4, <1>5 DEF Parts, Entry
    <3>2. f.recv_state \notin RecvDone
      BY <1>3 DEF RecvDone
    <3>3. Config[p].max_stream_data <= f.max_stream_data_remote
      BY <1>3, PeerConfig
    <3> QED
      BY <1>3, <1>5, <3>1, <3>2, <3>3 DEF Entry, f
  <2>2. Born(p, t, r, id)
    BY <1>4, <1>5 DEF Parts, Born
  <2>3. ASSUME Way(p, s, r, id)
        PROVE  Way(p, t, r, id)
    <3>1. ~Done(p, s, id)
      BY <1>5 DEF Done, Past
    <3>2. ~Done(p, t, id)
      BY <1>3, <1>5 DEF Done, SendDone, f
    <3>3. t.streams[id].bytes_sent = s.streams[id].bytes_sent
      BY <1>3, <1>4, <1>5 DEF Parts, Entry, f
    <3> QED
      BY <1>5, <2>3, <3>1, <3>2, <3>3 DEF Way
  <2>4. GrantedBy(p, t, id) = GrantedBy(p, s, id)
    BY <1>3, <1>5 DEF GrantedBy, f
  <2>5. Credit(p, s, r, id) => Credit(p, t, r, id)
    BY <1>5, <2>4 DEF Credit
  <2>6. Stopped(t, r, id)
    BY <1>4, <1>5 DEF Parts, Stopped
  <2>7. Directed(p, t, id)
    BY <1>4, <1>5 DEF Parts, Directed
  <2> QED
    BY <1>4, <2>1, <2>2, <2>3, <2>5, <2>6, <2>7 DEF Parts
<1>9. Parts(e, r, t, id)
  <2>1. Born(e, r, t, id)
    BY <1>1, <1>4, <1>5 DEF Parts, Born
  <2>2. GrantedBy(p, t, id) = GrantedBy(p, s, id)
    BY <1>3, <1>5 DEF GrantedBy, f
  <2>3. ASSUME Way(e, r, s, id)
        PROVE  Way(e, r, t, id)
    <3>1. t.streams[id].bytes_received = s.streams[id].bytes_received
      BY <1>3, <1>4, <1>5 DEF Parts, Entry, f
    <3> QED
      BY <1>1, <1>5, <2>2, <2>3, <3>1 DEF Way
  <2>4. ASSUME Credit(e, r, s, id)
        PROVE  Credit(e, r, t, id)
    <3> DEFINE v == s.received_max_stream_data_by_id[id]
               d == Config[e].max_stream_data
               g == GrantedBy(e, r, id)
               x == previous_max_stream_data(s, p, id)
               y == previous_max_stream_data(t, p, id)
    <3>1. v \in Nat \cup {Absent} /\ d \in Nat /\ g \in Nat /\ Absent = -1
      BY <1>1, SessionFields, PeerConfig, GrantedNat DEF Absent
    <3>2. a = IF d >= v THEN d ELSE v
      BY DEF a, initialize_stream_send_credit, Larger, e
    <3>3. x = IF v # Absent THEN v ELSE d
      BY <1>5 DEF previous_max_stream_data, e
    <3>4. y = IF v # Absent THEN v ELSE a
      BY <1>3, <1>5 DEF previous_max_stream_data, f
    <3>5. d <= g
      BY <1>1, <1>4, PeerConfig DEF GrantedBy, Parts, Entry
    <3>6. (id \in r.ids \/ r.seen[id] = "live") => x <= g
      BY <1>1, <2>4 DEF Credit
    <3> HIDE DEF v, d, g, x, y
    <3>7. y = x
      BY <3>1, <3>2, <3>3, <3>4
    <3>8. (id \in r.ids \/ r.seen[id] = "live") => a <= g
      BY <3>1, <3>2, <3>3, <3>5, <3>6
    <3> QED
      BY <1>1, <1>3, <1>5, <2>4, <3>7, <3>8 DEF Credit, f, g, x, y
  <2>5. has_received_stop_sending(t, id) <=> has_received_stop_sending(s, id)
    BY <1>3, <1>5 DEF has_received_stop_sending, f
  <2>6. Stopped(r, t, id)
    BY <1>4, <2>5 DEF Parts, Stopped
  <2> QED
    BY <1>4, <1>5, <2>1, <2>3, <2>4, <2>6 DEF Parts
<1>10. One(p, t, r) /\ One(e, r, t)
  BY <1>6, <1>7, <1>8, <1>9 DEF One
<1> QED
  BY <1>10 DEF Pair, e

-----------------------------------------------------------------------------
(* The first capsule c of the peer's queue arrives.                        *)

Popped(r) == [r EXCEPT !.out = Tail(@)]

HearsOf(p, s, t, c, id) ==
    LET f == s.streams[id]
        g == t.streams[id]
        n == previous_max_stream_data(t, p, id)
    IN  /\ t.status = "open" =>
              g.bytes_received = f.bytes_received + Size(c, CarriersOf(id))
        /\ t.seen[id] = s.seen[id] \/ (c \in EndsOf(id) /\ t.seen[id] # "live")
        /\ g.max_stream_data_remote = f.max_stream_data_remote
        /\ n = previous_max_stream_data(s, p, id) \/ (c \in RaisesOf(id) /\ n = c.val)
        /\ \/ g.max_stream_data_local = f.max_stream_data_local
           \/ c \in RaisesOf(id) /\ g.max_stream_data_local = c.val
        /\ has_received_stop_sending(t, id) =>
              has_received_stop_sending(s, id) \/ c \in StopsOf(id)

Hears(p, s, t, c) ==
    /\ t.status = "open" => /\ s.status = "open"
                            /\ t.bytes_received = s.bytes_received + Size(c, Carriers)
    /\ \/ t.received_max_data = s.received_max_data
       \/ c \in MaxDatas /\ t.received_max_data = c.val
    /\ \/ t.max_data_local = s.max_data_local
       \/ c \in MaxDatas /\ t.max_data_local = c.val
    /\ \A d \in Dir :
          /\ \/ t.received_max_streams[d] = s.received_max_streams[d]
             \/ c \in MaxStreamsOf(d) /\ t.received_max_streams[d] = c.val
          /\ \/ t.max_streams_local[d] = s.max_streams_local[d]
             \/ c \in MaxStreamsOf(d) /\ t.max_streams_local[d] = c.val
    /\ t.streams_opened = s.streams_opened
    /\ t.ids = s.ids
    /\ \A id \in StreamId : HearsOf(p, s, t, c, id)

LEMMA PoppedFields ==
    ASSUME NEW r \in WtSessionInfo, r.out # <<>>
    PROVE  /\ Popped(r) \in WtSessionInfo /\ Popped(r).out = Tail(r.out)
           /\ Listens(r, Popped(r)) /\ Listens(Popped(r), r)
           /\ Popped(r).status = r.status /\ Popped(r).reason = r.reason
           /\ Popped(r).bytes_sent = r.bytes_sent
           /\ Popped(r).max_data_remote = r.max_data_remote
           /\ Popped(r).max_streams_remote = r.max_streams_remote
           /\ Popped(r).released_stream_ids = r.released_stream_ids
           /\ Popped(r).sent_stop_sending_stream_ids = r.sent_stop_sending_stream_ids
           /\ Popped(r).streams = r.streams
<1>1. r.out \in Seq(Capsule) /\ Tail(r.out) \in Seq(Capsule)
  BY SessionFields, TailFacts
<1>2. Popped(r) \in WtSessionInfo
  BY <1>1, SetOutType DEF Popped
<1>3. \A id \in StreamId : r.streams[id].max_stream_data_remote \in Nat
  BY SessionFields, StreamFields
<1>4. /\ Popped(r).out = Tail(r.out) /\ Popped(r).streams = r.streams
      /\ Popped(r).status = r.status /\ Popped(r).reason = r.reason
      /\ Popped(r).bytes_sent = r.bytes_sent
      /\ Popped(r).max_data_remote = r.max_data_remote
      /\ Popped(r).max_streams_remote = r.max_streams_remote
      /\ Popped(r).released_stream_ids = r.released_stream_ids
      /\ Popped(r).sent_stop_sending_stream_ids = r.sent_stop_sending_stream_ids
  BY DEF Popped, WtSessionInfo
<1>5. /\ Popped(r).bytes_received = r.bytes_received
      /\ Popped(r).max_data_local = r.max_data_local
      /\ Popped(r).received_max_data = r.received_max_data
      /\ Popped(r).max_streams_local = r.max_streams_local
      /\ Popped(r).received_max_streams = r.received_max_streams
      /\ Popped(r).streams_opened = r.streams_opened
      /\ Popped(r).ids = r.ids
      /\ Popped(r).seen = r.seen
      /\ Popped(r).received_max_stream_data_by_id = r.received_max_stream_data_by_id
      /\ Popped(r).received_stop_sending_stream_ids = r.received_stop_sending_stream_ids
  BY DEF Popped, WtSessionInfo
<1>6. \A id \in StreamId : /\ SameEar(r.streams[id], Popped(r).streams[id])
                           /\ SameEar(Popped(r).streams[id], r.streams[id])
  BY <1>3, <1>4 DEF SameEar
<1>7. Listens(r, Popped(r)) /\ Listens(Popped(r), r)
  BY <1>4, <1>5, <1>6 DEF Listens
<1> QED
  BY <1>2, <1>4, <1>7

LEMMA HearsWhole ==
    ASSUME NEW p \in End, NEW r \in WtSessionInfo, NEW s \in WtSessionInfo,
           NEW t \in WtSessionInfo, r.out # <<>>, One(Peer(p), r, s),
           Hears(p, s, t, Head(r.out))
    PROVE  Whole(Popped(r), t)
<1> DEFINE u == Popped(r)
           c == Head(r.out)
<1>1. /\ u.out = Tail(r.out) /\ u.status = r.status /\ u.reason = r.reason
      /\ u.bytes_sent = r.bytes_sent /\ u.max_data_remote = r.max_data_remote
      /\ u.max_streams_remote = r.max_streams_remote
      /\ u.streams_opened = r.streams_opened /\ u.max_streams_local = r.max_streams_local
  BY PoppedFields DEF Listens
<1>2. /\ r.out \in Seq(Capsule) /\ Tail(r.out) \in Seq(Capsule)
      /\ c \in Capsule /\ c = r.out[1] /\ 1 \in 1 .. Len(r.out)
      /\ c.val \in Nat
  BY SessionFields, TailFacts, Naturals
<1>3. Whole(r, s)
  BY DEF One
<1>4. Hears(p, s, t, c)
  OBVIOUS
<1> HIDE DEF u, c
<1>5. u.status = "open" => None(u.out, Closes)
  BY <1>1, <1>2, <1>3, NonePop DEF Whole
<1>6. None(u.out, Unfit)
  BY <1>1, <1>2, <1>3, NonePop DEF Whole
<1>7. ASSUME t.status = "open" PROVE u.status # "erased" /\ Total(u, t)
  <2>1. s.status = "open" /\ t.bytes_received = s.bytes_received + Size(c, Carriers)
    BY <1>4, <1>7 DEF Hears
  <2>2. Chain(r.out, Carriers, {}, s.bytes_received, r.bytes_sent) /\ r.status # "erased"
    BY <1>3, <2>1 DEF Whole, Total
  <2>3. s.bytes_received \in Nat /\ r.bytes_sent \in Nat
    BY SessionFields
  <2>4. Chain(Tail(r.out), Carriers, {}, s.bytes_received + Size(c, Carriers), r.bytes_sent)
    BY <1>2, <2>2, <2>3, ChainPop DEF c
  <2> QED
    BY <1>1, <2>1, <2>2, <2>4 DEF Total
<1>8. SessionLimit(u, t)
  <2>1. SessionLimit(r, s)
    BY <1>3 DEF Whole
  <2>2. /\ t.received_max_data \in Nat /\ s.received_max_data \in Nat
        /\ t.max_data_local \in Nat /\ s.max_data_local \in Nat /\ r.max_data_remote \in Nat
    BY SessionFields
  <2>3. c \in MaxDatas => c.val <= r.max_data_remote
    BY <1>2, <2>1 DEF SessionLimit, AtMost
  <2>4. /\ \/ t.received_max_data = s.received_max_data
           \/ c \in MaxDatas /\ t.received_max_data = c.val
        /\ \/ t.max_data_local = s.max_data_local
           \/ c \in MaxDatas /\ t.max_data_local = c.val
    BY <1>4 DEF Hears
  <2>5. Rising(Tail(r.out), MaxDatas, t.received_max_data)
    <3>1. \/ t.received_max_data <= s.received_max_data
          \/ c \in MaxDatas /\ t.received_max_data <= c.val
      BY <1>2, <2>2, <2>4
    <3> QED
      BY <1>2, <2>1, <2>2, <3>1, RisingPop DEF SessionLimit, c
  <2>6. AtMost(Tail(r.out), MaxDatas, r.max_data_remote)
    BY <1>2, <2>1, AtMostPop DEF SessionLimit
  <2> QED
    BY <1>1, <2>1, <2>3, <2>4, <2>5, <2>6 DEF SessionLimit
<1>9. ASSUME NEW d \in Dir PROVE CountLimit(u, t, d)
  <2> DEFINE K == MaxStreamsOf(d)
             a == s.received_max_streams[d]
             b == t.received_max_streams[d]
             m == r.max_streams_remote[d]
  <2>1. CountLimit(r, s, d)
    BY <1>3 DEF Whole
  <2>2. a \in Nat /\ b \in Nat /\ m \in Nat
    BY SessionFields
  <2>3. c \in K => c.val <= m
    BY <1>2, <2>1 DEF CountLimit, AtMost
  <2>4. /\ b = a \/ (c \in K /\ b = c.val)
        /\ \/ t.max_streams_local[d] = s.max_streams_local[d]
           \/ c \in K /\ t.max_streams_local[d] = c.val
    BY <1>4 DEF Hears
  <2>5. Rising(Tail(r.out), K, b)
    <3>1. b <= a \/ (c \in K /\ b <= c.val)
      BY <1>2, <2>2, <2>4
    <3>2. Rising(r.out, K, a)
      BY <2>1 DEF CountLimit
    <3> HIDE DEF K, a, b
    <3> QED
      BY <1>2, <2>2, <3>1, <3>2, RisingPop DEF c
  <2>6. AtMost(Tail(r.out), K, m)
    BY <1>2, <2>1, AtMostPop DEF CountLimit
  <2> QED
    BY <1>1, <2>1, <2>3, <2>4, <2>5, <2>6 DEF CountLimit
<1>10. Disciplined => u.reason \in {"none", "app"}
  BY <1>1, <1>3 DEF Whole
<1>11. Whole(u, t)
  BY <1>5, <1>6, <1>7, <1>8, <1>9, <1>10 DEF Whole
<1> QED
  BY <1>11 DEF u

LEMMA HearsParts ==
    ASSUME NEW p \in End, NEW r \in WtSessionInfo, NEW s \in WtSessionInfo,
           NEW t \in WtSessionInfo, r.out # <<>>, One(Peer(p), r, s),
           Hears(p, s, t, Head(r.out)), NEW id \in StreamId
    PROVE  Parts(Peer(p), Popped(r), t, id)
<1> DEFINE u == Popped(r)
           c == Head(r.out)
           e == Peer(p)
<1>1. /\ u.out = Tail(r.out) /\ u.status = r.status /\ u.ids = r.ids /\ u.seen = r.seen
      /\ u.streams_opened = r.streams_opened /\ u.streams = r.streams
      /\ u.released_stream_ids = r.released_stream_ids
      /\ u.sent_stop_sending_stream_ids = r.sent_stop_sending_stream_ids
  BY PoppedFields DEF Listens
<1>2. /\ r.out \in Seq(Capsule) /\ Tail(r.out) \in Seq(Capsule)
      /\ c \in Capsule /\ c = r.out[1] /\ 1 \in 1 .. Len(r.out)
      /\ c.val \in Nat /\ r.out # <<>>
  BY SessionFields, TailFacts, Naturals
<1>3. Parts(e, r, s, id)
  BY DEF One
<1>4. HearsOf(p, s, t, c, id) /\ t.ids = s.ids /\ t.streams_opened = s.streams_opened
      /\ (t.status = "open" => s.status = "open")
  BY DEF Hears
<1>5. e \in End /\ Peer(e) = p
  BY PeerPeer
<1> HIDE DEF u, c, e
<1>6. /\ Opened(u, id) <=> Opened(r, id)
      /\ Opened(t, id) <=> Opened(s, id)
  BY <1>1, <1>4 DEF Opened
<1>7. Entry(e, u, id)
  BY <1>1, <1>3, <1>6 DEF Parts, Entry
<1>8. Born(e, u, t, id)
  <2>1. Born(e, r, s, id)
    BY <1>3 DEF Parts
  <2>2. None(r.out, DataOf(id)) => None(u.out, DataOf(id))
    BY <1>1, <1>2, NonePop
  <2> QED
    BY <1>1, <1>6, <2>1, <2>2 DEF Born
<1>9. Done(e, u, id) <=> Done(e, r, id)
  BY <1>1, <1>6 DEF Done, Past
<1>10. GrantedBy(e, u, id) = GrantedBy(e, r, id) /\ GrantedBy(p, t, id) = GrantedBy(p, s, id)
  BY <1>1, <1>4 DEF GrantedBy, HearsOf
<1>11. ASSUME t.status = "open", is_receivable_data_capsule(p, id)
       PROVE  Way(e, u, t, id)
  <2>1. Way(e, r, s, id)
    BY <1>3, <1>4, <1>5, <1>11 DEF Parts
  <2> DEFINE K == CarriersOf(id)
             P == DataOf(id)
             a == s.streams[id].bytes_received
             b == t.streams[id].bytes_received
  <2>2. PICK to \in Nat :
            /\ Chain(r.out, K, P, a, to)
            /\ ~Done(e, r, id) => to = r.streams[id].bytes_sent
            /\ s.seen[id] = "live" => to <= GrantedBy(p, s, id)
    BY <1>5, <2>1 DEF Way
  <2>3. b = a + Size(c, K) /\ a \in Nat
    BY <1>4, <1>11, SessionFields, StreamFields DEF HearsOf
  <2>4. t.seen[id] = s.seen[id] \/ (c \in EndsOf(id) /\ t.seen[id] # "live")
    BY <1>4 DEF HearsOf
  <2> HIDE DEF K, P, a, b
  <2>5. Chain(u.out, K, P, b, to)
    BY <1>1, <1>2, <2>2, <2>3, ChainPop DEF c
  <2>6. t.seen[id] = "live" => to <= GrantedBy(p, t, id)
    BY <1>10, <2>2, <2>4
  <2>7. ~Done(e, u, id) => to = u.streams[id].bytes_sent
    BY <1>1, <1>9, <2>2
  <2>8. NoneAfter(u.out, EndsOf(id), AboutOf(id))
    BY <1>1, <1>2, <2>1, NoneAfterPop DEF Way
  <2>9. ASSUME ~Done(e, u, id) PROVE None(u.out, EndsOf(id)) /\ t.seen[id] = "live"
    <3>1. None(r.out, EndsOf(id)) /\ s.seen[id] = "live"
      BY <1>9, <2>1, <2>9 DEF Way
    <3>2. c \notin EndsOf(id)
      BY <1>2, <3>1 DEF None
    <3> QED
      BY <1>1, <1>2, <2>4, <3>1, <3>2, NonePop
  <2>10. ASSUME t.seen[id] # "live" PROVE None(u.out, AboutOf(id))
    <3>1. CASE s.seen[id] # "live"
      BY <1>1, <1>2, <2>1, <3>1, NonePop DEF Way
    <3>2. CASE c \in EndsOf(id)
      BY <1>1, <1>2, <2>1, <3>2, NoneAfterPop DEF Way, c
    <3> QED
      BY <2>4, <2>10, <3>1, <3>2
  <2> QED
    BY <1>5, <2>5, <2>6, <2>7, <2>8, <2>9, <2>10 DEF Way, K, P, b
<1>12. ASSUME is_receivable_data_capsule(e, id)
       PROVE  Credit(e, u, t, id)
  <2> DEFINE K == RaisesOf(id)
             a == previous_max_stream_data(s, p, id)
             b == previous_max_stream_data(t, p, id)
             d == Config[e].max_stream_data
             g == GrantedBy(e, r, id)
  <2>1. /\ Rising(r.out, K, a) /\ Rising(r.out, K, d)
        /\ (id \in r.ids \/ r.seen[id] = "live") =>
              /\ a <= g /\ AtMost(r.out, K, g)
              /\ id \in s.ids => s.streams[id].max_stream_data_local <= g
    BY <1>3, <1>5, <1>12 DEF Parts, Credit
  <2>2. a \in Nat /\ b \in Nat /\ d \in Nat
    BY <1>5, PreviousNat, PeerConfig
  <2>3. /\ b = a \/ (c \in K /\ b = c.val)
        /\ \/ t.streams[id].max_stream_data_local = s.streams[id].max_stream_data_local
           \/ c \in K /\ t.streams[id].max_stream_data_local = c.val
    BY <1>4 DEF HearsOf
  <2> HIDE DEF K, a, b, d, g
  <2>4. Rising(u.out, K, b)
    <3>1. b <= a \/ (c \in K /\ b <= c.val)
      BY <1>2, <2>2, <2>3
    <3> QED
      BY <1>1, <1>2, <2>1, <2>2, <3>1, RisingPop DEF c
  <2>5. Rising(u.out, K, d)
    <3>1. d <= d
      BY <2>2
    <3> QED
      BY <1>1, <1>2, <2>1, <2>2, <3>1, RisingPop
  <2>6. ASSUME id \in u.ids \/ u.seen[id] = "live"
        PROVE  /\ b <= g /\ AtMost(u.out, K, g)
               /\ id \in t.ids => t.streams[id].max_stream_data_local <= g
    <3>1. /\ a <= g /\ AtMost(r.out, K, g)
          /\ id \in s.ids => s.streams[id].max_stream_data_local <= g
      BY <1>1, <2>1, <2>6
    <3>2. c \in K => c.val <= g
      BY <1>2, <3>1 DEF AtMost
    <3>3. AtMost(u.out, K, g)
      BY <1>1, <1>2, <3>1, AtMostPop
    <3> QED
      BY <1>4, <2>3, <3>1, <3>2, <3>3
  <2> QED
    BY <1>5, <1>10, <2>4, <2>5, <2>6 DEF Credit, K, b, d, g
<1>13. Stopped(u, t, id)
  <2>1. Stopped(r, s, id)
    BY <1>3 DEF Parts
  <2>2. has_received_stop_sending(t, id) =>
            has_received_stop_sending(s, id) \/ c \in StopsOf(id)
    BY <1>4 DEF HearsOf
  <2>3. id \notin u.sent_stop_sending_stream_ids =>
            None(u.out, StopsOf(id)) /\ ~has_received_stop_sending(t, id)
    <3>1. None(r.out, StopsOf(id)) => c \notin StopsOf(id)
      BY <1>2 DEF None
    <3> QED
      BY <1>1, <1>2, <2>1, <2>2, <3>1, NonePop DEF Stopped
  <2>4. NoneAfter(u.out, StopsOf(id), StopsOf(id) \cup RaisesOf(id))
    BY <1>1, <1>2, <2>1, NoneAfterPop DEF Stopped
  <2>5. ASSUME has_received_stop_sending(t, id)
        PROVE  None(u.out, StopsOf(id)) /\ None(u.out, RaisesOf(id))
    <3>1. CASE has_received_stop_sending(s, id)
      BY <1>1, <1>2, <2>1, <3>1, NonePop DEF Stopped
    <3>2. CASE c \in StopsOf(id)
      <4>1. None(u.out, StopsOf(id) \cup RaisesOf(id))
        BY <1>1, <1>2, <2>1, <3>2, NoneAfterPop DEF Stopped, c
      <4> QED
        BY <4>1 DEF None
    <3> QED
      BY <2>2, <2>5, <3>1, <3>2
  <2> QED
    BY <2>3, <2>4, <2>5 DEF Stopped
<1>14. Directed(e, u, id)
  BY <1>1, <1>2, <1>3, NonePop DEF Parts, Directed
<1>15. Parts(e, u, t, id)
  BY <1>5, <1>7, <1>8, <1>11, <1>12, <1>13, <1>14 DEF Parts
<1> QED
  BY <1>15 DEF u, e

(* The end takes notice, and says nothing.                                 *)
LEMMA HearsPair ==
    ASSUME NEW p \in End, NEW r \in WtSessionInfo, NEW s \in WtSessionInfo,
           NEW t \in WtSessionInfo, r.out # <<>>, One(Peer(p), r, s), One(p, t, r),
           Hears(p, s, t, Head(r.out))
    PROVE  Pair(p, t, Popped(r))
<1>1. One(Peer(p), Popped(r), t)
  BY HearsWhole, HearsParts DEF One
<1>2. One(p, t, Popped(r))
  BY PoppedFields, ListensOne
<1> QED
  BY <1>1, <1>2 DEF Pair


-----------------------------------------------------------------------------
(* The functions of the source, one by one, as such changes.               *)

LEMMA KindsOf ==
    ASSUME NEW c \in Capsule
    PROVE  /\ c \in Carriers <=> c.type \in StreamCapsules
           /\ c \in MaxDatas <=> c.type = "WT_MAX_DATA"
           /\ c \in Closes <=> c.type = "WT_CLOSE_SESSION"
           /\ \A d : c \in MaxStreamsOf(d) <=>
                         c.type \in MaxStreamsCapsules /\ dir_of_capsule(c) = d
           /\ \A id : /\ c \in CarriersOf(id) <=> c.id = id /\ c.type \in StreamCapsules
                      /\ c \in ResetsOf(id) <=> c.id = id /\ c.type = "WT_RESET_STREAM"
                      /\ c \in DataOf(id) <=>
                             c.id = id /\ (\/ c.type \in StreamCapsules
                                           \/ c.type = "WT_RESET_STREAM")
                      /\ c \in AboutOf(id) <=>
                             c.id = id /\ (\/ c.type \in StreamCapsules
                                           \/ c.type = "WT_RESET_STREAM"
                                           \/ c.type = "WT_STREAM_DATA_BLOCKED")
                      /\ c \in EndsOf(id) <=>
                             c.id = id /\ c.type \in {"WT_RESET_STREAM", "WT_STREAM_FIN"}
                      /\ c \in RaisesOf(id) <=> c.id = id /\ c.type = "WT_MAX_STREAM_DATA"
                      /\ c \in StopsOf(id) <=> c.id = id /\ c.type = "WT_STOP_SENDING"
<1>1. /\ c \in Carriers <=> c.type \in StreamCapsules
      /\ c \in MaxDatas <=> c.type = "WT_MAX_DATA"
      /\ c \in Closes <=> c.type = "WT_CLOSE_SESSION"
      /\ \A d : c \in MaxStreamsOf(d) <=>
                    c.type \in MaxStreamsCapsules /\ dir_of_capsule(c) = d
  BY DEF Carriers, MaxDatas, Closes, MaxStreamsOf
<1>2. ASSUME NEW id
      PROVE  /\ c \in CarriersOf(id) <=> c.id = id /\ c.type \in StreamCapsules
             /\ c \in ResetsOf(id) <=> c.id = id /\ c.type = "WT_RESET_STREAM"
             /\ c \in RaisesOf(id) <=> c.id = id /\ c.type = "WT_MAX_STREAM_DATA"
             /\ c \in StopsOf(id) <=> c.id = id /\ c.type = "WT_STOP_SENDING"
  BY DEF CarriersOf, Carriers, ResetsOf, RaisesOf, StopsOf
<1>3. ASSUME NEW id
      PROVE  c \in DataOf(id) <=> c.id = id /\ (\/ c.type \in StreamCapsules
                                                \/ c.type = "WT_RESET_STREAM")
  BY <1>2 DEF DataOf
<1>4. ASSUME NEW id
      PROVE  c \in AboutOf(id) <=> c.id = id /\ (\/ c.type \in StreamCapsules
                                                 \/ c.type = "WT_RESET_STREAM"
                                                 \/ c.type = "WT_STREAM_DATA_BLOCKED")
  BY <1>3 DEF AboutOf
<1>5. ASSUME NEW id
      PROVE  c \in EndsOf(id) <=>
                 c.id = id /\ c.type \in {"WT_RESET_STREAM", "WT_STREAM_FIN"}
  BY <1>2 DEF EndsOf
<1> QED
  BY <1>1, <1>2, <1>3, <1>4, <1>5

(* t is s with one more capsule, and as before for whoever sends to it,    *)
(* streams aside.                                                          *)
Utters(s, t, c) ==
    /\ c \in Capsule
    /\ c \notin Unfit
    /\ t.out = Append(s.out, c)
    /\ t.status = s.status
    /\ t.reason = s.reason
    /\ t.bytes_received = s.bytes_received
    /\ t.max_data_local = s.max_data_local
    /\ t.received_max_data = s.received_max_data
    /\ t.max_streams_local = s.max_streams_local
    /\ t.received_max_streams = s.received_max_streams
    /\ t.streams_opened = s.streams_opened
    /\ t.ids = s.ids
    /\ t.seen = s.seen
    /\ t.received_max_stream_data_by_id = s.received_max_stream_data_by_id
    /\ t.received_stop_sending_stream_ids = s.received_stop_sending_stream_ids
    /\ t.released_stream_ids = s.released_stream_ids

(* The limits it gives do not fall.                                        *)
Raised(s, t, c) ==
    /\ s.max_data_remote <= t.max_data_remote
    /\ c \in MaxDatas => s.max_data_remote <= c.val /\ c.val <= t.max_data_remote
    /\ \A d \in Dir :
          /\ s.max_streams_remote[d] <= t.max_streams_remote[d]
          /\ t.max_streams_remote[d] <= kMaxStreamsLimit
          /\ c \in MaxStreamsOf(d) => /\ s.max_streams_remote[d] <= c.val
                                      /\ c.val <= t.max_streams_remote[d]

LEMMA RaisedSame ==
    ASSUME NEW p, NEW s \in WtSessionInfo, NEW t, NEW r, NEW c \in Capsule, Pair(p, s, r),
           t.max_data_remote = s.max_data_remote,
           t.max_streams_remote = s.max_streams_remote,
           c.type # "WT_MAX_DATA", c.type \notin MaxStreamsCapsules
    PROVE  Raised(s, t, c)
<1>1. \A d \in Dir : s.max_streams_remote[d] <= kMaxStreamsLimit
  BY DEF Pair, One, Whole, CountLimit
<1>2. c \notin MaxDatas /\ \A d \in Dir : c \notin MaxStreamsOf(d)
  BY KindsOf
<1> QED
  BY <1>1, <1>2, SessionFields DEF Raised

LEMMA SaysAt ==
    ASSUME NEW p \in End, NEW s \in WtSessionInfo, NEW t \in WtSessionInfo, NEW r,
           Pair(p, s, r), NEW c, NEW id \in StreamId,
           Utters(s, t, c), Raised(s, t, c),
           s.status = "open", c \notin Closes, c.id = id,
           t.bytes_sent = s.bytes_sent + Size(c, Carriers),
           s.sent_stop_sending_stream_ids \subseteq t.sent_stop_sending_stream_ids,
           \A o \in StreamId : o # id => t.streams[o] = s.streams[o],
           SameEar(s.streams[id], t.streams[id]), SaysOf(p, s, t, c, id)
    PROVE  Says(p, s, t, c)
<1>1. Disciplined => t.reason \in {"none", "app"}
  BY DEF Pair, One, Whole, Utters
<1>2. \A o \in StreamId : SameEar(s.streams[o], t.streams[o])
  <2>1. \A o \in StreamId : SameEar(s.streams[o], s.streams[o])
    BY SessionFields, StreamFields DEF SameEar
  <2> QED
    BY <2>1
<1>3. Listens(s, t)
  BY <1>2 DEF Listens, Utters
<1>4. ASSUME NEW o \in StreamId, o # id PROVE SaysOf(p, s, t, c, o)
  <2>1. c \in Capsule /\ c.id # o
    BY <1>4 DEF Utters
  <2>2. /\ c \notin CarriersOf(o) /\ c \notin DataOf(o) /\ c \notin AboutOf(o)
        /\ c \notin EndsOf(o) /\ c \notin RaisesOf(o) /\ c \notin StopsOf(o)
    BY <2>1, KindsOf
  <2>3. t.streams[o] = s.streams[o] /\ s.streams[o].bytes_sent \in Nat
    BY <1>4, SessionFields, StreamFields
  <2>4. Size(c, CarriersOf(o)) = 0
    BY <2>2 DEF Size
  <2> QED
    BY <2>2, <2>3, <2>4 DEF SaysOf
<1>5. \A o \in StreamId : SaysOf(p, s, t, c, o)
  BY <1>4
<1>6. t.status = "open"
  BY DEF Utters
<1> QED
  BY <1>1, <1>3, <1>5, <1>6 DEF Says, Utters, Raised

(* A capsule about no stream.                                              *)
LEMMA AnnouncesPair ==
    ASSUME NEW p \in End, NEW s, Good(s), NEW t, Good(t), NEW r, Good(r),
           Pair(p, s, r), NEW c, Utters(s, t, c), Raised(s, t, c),
           s.status = "open", c.type \in MaxStreamsCapsules \cup StreamsBlockedCapsules \cup
                                   {"WT_MAX_DATA", "WT_DATA_BLOCKED"},
           t.bytes_sent = s.bytes_sent,
           t.sent_stop_sending_stream_ids = s.sent_stop_sending_stream_ids,
           t.streams = s.streams
    PROVE  Pair(p, t, r)
<1> DEFINE id == c.id
<1>1. c \in Capsule /\ id \in StreamId
  BY DEF Utters, Capsule
<1>2. /\ c \notin Carriers /\ c \notin Closes
      /\ c \notin CarriersOf(id) /\ c \notin DataOf(id) /\ c \notin AboutOf(id)
      /\ c \notin EndsOf(id) /\ c \notin RaisesOf(id) /\ c \notin StopsOf(id)
  BY <1>1, KindsOf DEF StreamCapsules, MaxStreamsCapsules, StreamsBlockedCapsules
<1>3. s \in WtSessionInfo /\ t \in WtSessionInfo /\ r \in WtSessionInfo
  BY DEF Good
<1>4. s.bytes_sent \in Nat /\ s.streams[id] \in WtStreamInfo
  BY <1>1, <1>3, SessionFields
<1>5. Size(c, Carriers) = 0 /\ Size(c, CarriersOf(id)) = 0
  BY <1>2 DEF Size
<1>6. t.bytes_sent = s.bytes_sent + Size(c, Carriers)
  BY <1>4, <1>5
<1>7. SameEar(s.streams[id], t.streams[id])
  BY <1>4, StreamFields DEF SameEar
<1>8. SaysOf(p, s, t, c, id)
  BY <1>2, <1>4, <1>5, StreamFields DEF SaysOf
<1> HIDE DEF id
<1>9. Says(p, s, t, c)
  BY <1>1, <1>2, <1>3, <1>6, <1>7, <1>8, SaysAt DEF id
<1> QED
  BY <1>9, SaysPair

(* send_capsule, after a change of limits or of one stream.                *)
Alike(s, u) ==
    /\ u.out = s.out
    /\ u.status = s.status
    /\ u.reason = s.reason
    /\ u.bytes_sent = s.bytes_sent
    /\ u.bytes_received = s.bytes_received
    /\ u.max_data_local = s.max_data_local
    /\ u.received_max_data = s.received_max_data
    /\ u.max_streams_local = s.max_streams_local
    /\ u.received_max_streams = s.received_max_streams
    /\ u.streams_opened = s.streams_opened
    /\ u.ids = s.ids
    /\ u.seen = s.seen
    /\ u.received_max_stream_data_by_id = s.received_max_stream_data_by_id
    /\ u.received_stop_sending_stream_ids = s.received_stop_sending_stream_ids
    /\ u.released_stream_ids = s.released_stream_ids

Message(s, type, id, v) ==
    [type |-> type, id |-> id, len |-> 0, val |-> v,
     form |-> "ok", off |-> 0, at |-> s.bytes_sent]

LEMMA MessageFields ==
    ASSUME NEW s \in WtSessionInfo, NEW type \in CapsuleType, NEW id \in StreamId,
           NEW v \in Nat, type \in StreamsBlockedCapsules => v <= kMaxStreamsLimit
    PROVE  LET c == Message(s, type, id, v)
           IN  /\ c \in Capsule /\ c \notin Unfit
               /\ c.type = type /\ c.id = id /\ c.val = v /\ c.len = 0 /\ c.form = "ok"
<1> DEFINE c == Message(s, type, id, v)
<1>1. c \in Capsule
  BY SessionFields DEF Message, Capsule, Form
<1>2. /\ c.type = type /\ c.id = id /\ c.val = v /\ c.len = 0 /\ c.form = "ok"
  BY DEF Message
<1> HIDE DEF c
<1>3. c \notin Unfit
  BY <1>2, LimitAssumption DEF Unfit
<1> QED
  BY <1>1, <1>2, <1>3 DEF c

LEMMA SendCapsuleUtters ==
    ASSUME NEW s \in WtSessionInfo, NEW u \in WtSessionInfo, Alike(s, u),
           NEW type \in CapsuleType, NEW id \in StreamId,
           NEW v \in Nat, type \in StreamsBlockedCapsules => v <= kMaxStreamsLimit
    PROVE  /\ Utters(s, send_capsule(u, type, id, v), Message(s, type, id, v))
           /\ send_capsule(u, type, id, v).bytes_sent = s.bytes_sent
           /\ send_capsule(u, type, id, v).max_data_remote = u.max_data_remote
           /\ send_capsule(u, type, id, v).max_streams_remote = u.max_streams_remote
           /\ send_capsule(u, type, id, v).streams = u.streams
           /\ send_capsule(u, type, id, v).sent_stop_sending_stream_ids
                  = u.sent_stop_sending_stream_ids
<1> DEFINE t == send_capsule(u, type, id, v)
           c == Message(s, type, id, v)
<1>1. c \in Capsule /\ c \notin Unfit
  BY MessageFields
<1>2. c = Message(u, type, id, v)
  BY DEF Message, Alike
<1>3. /\ t.status = u.status /\ t.reason = u.reason
      /\ t.bytes_received = u.bytes_received /\ t.max_data_local = u.max_data_local
      /\ t.received_max_data = u.received_max_data
      /\ t.max_streams_local = u.max_streams_local
      /\ t.received_max_streams = u.received_max_streams
      /\ t.streams_opened = u.streams_opened
      /\ t.ids = u.ids /\ t.seen = u.seen
      /\ t.received_max_stream_data_by_id = u.received_max_stream_data_by_id
      /\ t.received_stop_sending_stream_ids = u.received_stop_sending_stream_ids
      /\ t.released_stream_ids = u.released_stream_ids
  BY DEF send_capsule, WtSessionInfo
<1>4. t.out = Append(u.out, Message(u, type, id, v))
  BY DEF send_capsule, WtSessionInfo, Message
<1>5. /\ t.bytes_sent = u.bytes_sent
      /\ t.max_data_remote = u.max_data_remote
      /\ t.max_streams_remote = u.max_streams_remote
      /\ t.streams = u.streams
      /\ t.sent_stop_sending_stream_ids = u.sent_stop_sending_stream_ids
  BY DEF send_capsule, WtSessionInfo
<1> HIDE DEF t, c
<1>6. Utters(s, t, c)
  BY <1>1, <1>2, <1>3, <1>4 DEF Utters, Alike
<1> QED
  BY <1>5, <1>6 DEF t, c, Alike

LEMMA MaxDataPair ==
    ASSUME NEW p \in End, NEW s, Good(s), NEW r, Good(r), Pair(p, s, r),
           s.status = "open"
    PROVE  Pair(p, maybe_send_max_data(s, p), r)
<1> DEFINE n == raised_limit(s.bytes_received, Config[p].max_data)
           t == maybe_send_max_data(s, p)
           u == [s EXCEPT !.max_data_remote = n]
           c == Message(s, "WT_MAX_DATA", 0, n)
<1>1. s \in WtSessionInfo /\ s.bytes_sent \in Nat /\ s.max_data_remote \in Nat
  BY GoodFields
<1>2. n \in Nat
  BY GoodFields, RaisedLimit, PeerConfig
<1>3. Good(t)
  BY MaxDataGood
<1>4. t # s => s.max_data_remote < n /\ t = send_capsule(u, "WT_MAX_DATA", 0, n)
  BY <1>1, <1>2 DEF maybe_send_max_data
<1> HIDE DEF n
<1>5. /\ u \in WtSessionInfo /\ Alike(s, u)
      /\ u.max_data_remote = n /\ u.max_streams_remote = s.max_streams_remote
      /\ u.streams = s.streams
      /\ u.sent_stop_sending_stream_ids = s.sent_stop_sending_stream_ids
  BY <1>1, <1>2 DEF Alike, WtSessionInfo
<1> SUFFICES Pair(p, t, r)
  OBVIOUS
<1> HIDE DEF t, u, c
<1>6. CASE t = s
  BY <1>6
<1>7. CASE t # s
  <2> "WT_MAX_DATA" \in CapsuleType /\ "WT_MAX_DATA" \notin StreamsBlockedCapsules
    BY DEF CapsuleType, StreamsBlockedCapsules
  <2>1. c \in Capsule /\ c.type = "WT_MAX_DATA" /\ c.val = n
    BY <1>1, <1>2, ZeroId, MessageFields DEF c
  <2>2. /\ Utters(s, t, c)
        /\ t.max_data_remote = n /\ t.max_streams_remote = s.max_streams_remote
        /\ t.bytes_sent = s.bytes_sent /\ t.streams = s.streams
        /\ t.sent_stop_sending_stream_ids = s.sent_stop_sending_stream_ids
    BY <1>1, <1>2, <1>4, <1>5, <1>7, ZeroId, SendCapsuleUtters DEF c
  <2>3. Raised(s, t, c)
    <3>1. \A d \in Dir : c \notin MaxStreamsOf(d)
      BY <2>1, KindsOf DEF MaxStreamsCapsules
    <3>2. \A d \in Dir : /\ s.max_streams_remote[d] <= kMaxStreamsLimit
                         /\ s.max_streams_remote[d] \in Nat
      BY <1>1, SessionFields DEF Pair, One, Whole, CountLimit
    <3> QED
      BY <1>1, <1>2, <1>4, <1>7, <2>1, <2>2, <3>1, <3>2 DEF Raised
  <2> QED
    BY <1>3, <1>7, <2>1, <2>2, <2>3, AnnouncesPair
<1> QED
  BY <1>6, <1>7

(* A capsule about stream id that carries nothing of it.                   *)
LEMMA NotesPair ==
    ASSUME NEW p \in End, NEW s, Good(s), NEW t, Good(t), NEW r, Good(r),
           Pair(p, s, r), NEW id \in StreamId, NEW c, Utters(s, t, c),
           s.status = "open", c.id = id,
           c.type \in {"WT_MAX_STREAM_DATA", "WT_STREAM_DATA_BLOCKED", "WT_STOP_SENDING"},
           t.max_data_remote = s.max_data_remote,
           t.max_streams_remote = s.max_streams_remote,
           t.bytes_sent = s.bytes_sent,
           s.sent_stop_sending_stream_ids \subseteq t.sent_stop_sending_stream_ids,
           \A o \in StreamId : o # id => t.streams[o] = s.streams[o],
           SameEar(s.streams[id], t.streams[id]),
           t.streams[id].recv_state = s.streams[id].recv_state,
           t.streams[id].send_state = s.streams[id].send_state,
           t.streams[id].bytes_sent = s.streams[id].bytes_sent,
           t.streams[id].pending_sends = s.streams[id].pending_sends,
           c.type = "WT_STREAM_DATA_BLOCKED" =>
               /\ id \in s.ids /\ s.streams[id].send_state \notin SendDone
               /\ is_sendable_stream(p, id),
           c.type = "WT_MAX_STREAM_DATA" =>
               /\ id \in s.ids /\ id \notin s.sent_stop_sending_stream_ids
               /\ s.streams[id].max_stream_data_remote <= c.val
               /\ c.val <= t.streams[id].max_stream_data_remote
               /\ is_receivable_data_capsule(p, id),
           c.type = "WT_STOP_SENDING" =>
               /\ id \notin s.sent_stop_sending_stream_ids
               /\ id \in t.sent_stop_sending_stream_ids
               /\ Disciplined => is_receivable_data_capsule(p, id)
    PROVE  Pair(p, t, r)
<1>1. c \in Capsule
  BY DEF Utters
<1>2. /\ c \notin Carriers /\ c \notin Closes /\ c \notin CarriersOf(id)
      /\ c \notin DataOf(id) /\ c \notin EndsOf(id)
      /\ c \in AboutOf(id) <=> c.type = "WT_STREAM_DATA_BLOCKED"
      /\ c \in RaisesOf(id) <=> c.type = "WT_MAX_STREAM_DATA"
      /\ c \in StopsOf(id) <=> c.type = "WT_STOP_SENDING"
  BY <1>1, KindsOf DEF StreamCapsules
<1>3. s \in WtSessionInfo /\ t \in WtSessionInfo /\ r \in WtSessionInfo
  BY DEF Good
<1>4. s.bytes_sent \in Nat /\ s.streams[id] \in WtStreamInfo
  BY <1>3, SessionFields
<1>5. Size(c, Carriers) = 0 /\ Size(c, CarriersOf(id)) = 0
  BY <1>2 DEF Size
<1>6. t.bytes_sent = s.bytes_sent + Size(c, Carriers)
  BY <1>4, <1>5
<1>7. Raised(s, t, c)
  BY <1>1, <1>3, RaisedSame DEF MaxStreamsCapsules
<1>8. SaysOf(p, s, t, c, id)
  BY <1>2, <1>4, <1>5, StreamFields DEF SaysOf
<1>9. Says(p, s, t, c)
  BY <1>2, <1>3, <1>6, <1>7, <1>8, SaysAt
<1> QED
  BY <1>9, SaysPair

LEMMA MaxStreamDataPair ==
    ASSUME NEW p \in End, NEW s, Good(s), NEW r, Good(r), Pair(p, s, r),
           s.status = "open", NEW id \in s.ids, is_receivable_data_capsule(p, id)
    PROVE  Pair(p, maybe_send_max_stream_data(s, p, id), r)
<1> DEFINE n == raised_limit(s.streams[id].bytes_received, Config[p].max_stream_data)
           t == maybe_send_max_stream_data(s, p, id)
           g == [s.streams[id] EXCEPT !.max_stream_data_remote = n]
           u == [s EXCEPT !.streams[id].max_stream_data_remote = n]
           c == Message(s, "WT_MAX_STREAM_DATA", id, n)
<1> SUFFICES Pair(p, t, r)
  OBVIOUS
<1>1. s \in WtSessionInfo /\ id \in StreamId /\ s.streams[id] \in WtStreamInfo
  BY GoodFields
<1>2. n \in Nat /\ s.streams[id].max_stream_data_remote \in Nat
  BY <1>1, StreamFields, RaisedLimit, PeerConfig
<1>3. Good(t)
  BY MaxStreamDataGood
<1>4. t # s => /\ id \notin s.sent_stop_sending_stream_ids
               /\ s.streams[id].max_stream_data_remote < n
               /\ t = send_capsule(u, "WT_MAX_STREAM_DATA", id, n)
  BY <1>1, <1>2 DEF maybe_send_max_stream_data
<1> HIDE DEF n, t
<1>5. g \in WtStreamInfo
  BY <1>1, <1>2 DEF WtStreamInfo
<1>6. /\ g.recv_state = s.streams[id].recv_state
      /\ g.send_state = s.streams[id].send_state
      /\ g.bytes_sent = s.streams[id].bytes_sent
      /\ g.pending_sends = s.streams[id].pending_sends
      /\ g.bytes_received = s.streams[id].bytes_received
      /\ g.max_stream_data_local = s.streams[id].max_stream_data_local
      /\ g.stop_sending_received = s.streams[id].stop_sending_received
      /\ g.max_stream_data_remote = n
  BY <1>1 DEF WtStreamInfo
<1>7. u = [s EXCEPT !.streams[id] = g]
  OBVIOUS
<1> HIDE DEF g, u
<1>8. /\ u \in WtSessionInfo /\ u.streams = [s.streams EXCEPT ![id] = g]
  BY <1>1, <1>5, <1>7 DEF WtSessionInfo
<1>9. /\ Alike(s, u)
      /\ u.max_data_remote = s.max_data_remote
      /\ u.max_streams_remote = s.max_streams_remote
      /\ u.sent_stop_sending_stream_ids = s.sent_stop_sending_stream_ids
  BY <1>1, <1>7 DEF Alike, WtSessionInfo
<1>10. u.streams[id] = g /\ \A o \in StreamId : o # id => u.streams[o] = s.streams[o]
  BY <1>1, <1>8 DEF WtSessionInfo
<1>11. CASE t = s
  BY <1>11
<1>12. CASE t # s
  <2> "WT_MAX_STREAM_DATA" \in CapsuleType /\ "WT_MAX_STREAM_DATA" \notin StreamsBlockedCapsules
    BY DEF CapsuleType, StreamsBlockedCapsules
  <2>1. /\ c.type = "WT_MAX_STREAM_DATA" /\ c.id = id /\ c.val = n
    BY <1>1, <1>2, MessageFields
  <2>2. /\ Utters(s, t, c)
        /\ t.bytes_sent = s.bytes_sent
        /\ t.max_data_remote = u.max_data_remote
        /\ t.max_streams_remote = u.max_streams_remote
        /\ t.streams = u.streams
        /\ t.sent_stop_sending_stream_ids = u.sent_stop_sending_stream_ids
    BY <1>1, <1>2, <1>4, <1>8, <1>9, <1>12, SendCapsuleUtters
  <2> HIDE DEF c
  <2>3. SameEar(s.streams[id], t.streams[id])
    BY <1>2, <1>4, <1>6, <1>10, <1>12, <2>2 DEF SameEar
  <2>4. /\ c.val <= t.streams[id].max_stream_data_remote
        /\ s.streams[id].max_stream_data_remote <= c.val
    BY <1>2, <1>4, <1>6, <1>10, <1>12, <2>1, <2>2
  <2>5. \A o \in StreamId : o # id => t.streams[o] = s.streams[o]
    BY <1>10, <2>2
  <2> QED
    BY <1>1, <1>3, <1>4, <1>6, <1>9, <1>10, <1>12, <2>1, <2>2, <2>3, <2>4, <2>5, NotesPair
<1> QED
  BY <1>11, <1>12

LEMMA ReplenishPair ==
    ASSUME NEW p \in End, NEW s, Good(s), NEW r, Good(r), Pair(p, s, r),
           s.status = "open", NEW id \in StreamId
    PROVE  Pair(p, replenish_streams(s, p, id), r)
<1> DEFINE d == DirOf(id)
           n == s.max_streams_remote[d] + 1
           t == replenish_streams(s, p, id)
           u == [s EXCEPT !.max_streams_remote[d] = n]
           type == IF d = "uni" THEN "WT_MAX_STREAMS_UNI" ELSE "WT_MAX_STREAMS_BIDI"
           c == Message(s, type, 0, n)
<1> SUFFICES Pair(p, t, r)
  OBVIOUS
<1>1. s \in WtSessionInfo /\ d \in Dir /\ s.max_streams_remote[d] \in Nat /\ n \in Nat
  BY GoodFields, IdFacts
<1>2. Good(t)
  BY ReplenishGood
<1>3. t # s => n <= kMaxStreamsLimit /\ t = send_capsule(u, type, 0, n)
  BY <1>1, LimitAssumption DEF replenish_streams
<1>4. u \in WtSessionInfo /\ u.max_streams_remote = [s.max_streams_remote EXCEPT ![d] = n]
  BY <1>1 DEF WtSessionInfo
<1>5. /\ Alike(s, u) /\ u.max_data_remote = s.max_data_remote /\ u.streams = s.streams
      /\ u.sent_stop_sending_stream_ids = s.sent_stop_sending_stream_ids
  BY <1>1 DEF Alike, WtSessionInfo
<1>6. type \in CapsuleType /\ type \in MaxStreamsCapsules /\ type \notin StreamsBlockedCapsules
  BY DEF CapsuleType, MaxStreamsCapsules, StreamsBlockedCapsules
<1>7. type = "WT_MAX_STREAMS_UNI" <=> d = "uni"
  OBVIOUS
<1> HIDE DEF n, t, u, type, d
<1>8. CASE t = s
  BY <1>8
<1>9. CASE t # s
  <2>1. /\ c \in Capsule /\ c.type = type /\ c.val = n
    BY <1>1, <1>6, ZeroId, MessageFields
  <2>2. /\ Utters(s, t, c)
        /\ t.bytes_sent = s.bytes_sent
        /\ t.max_data_remote = u.max_data_remote
        /\ t.max_streams_remote = u.max_streams_remote
        /\ t.streams = u.streams
        /\ t.sent_stop_sending_stream_ids = u.sent_stop_sending_stream_ids
    BY <1>1, <1>3, <1>4, <1>5, <1>6, <1>9, ZeroId, SendCapsuleUtters
  <2> HIDE DEF c
  <2>3. c \notin MaxDatas /\ \A x \in Dir : c \in MaxStreamsOf(x) => x = d
    <3>1. dir_of_capsule(c) = d
      BY <1>1, <1>6, <1>7, <2>1 DEF dir_of_capsule, MaxStreamsCapsules, Dir
    <3> QED
      BY <1>6, <2>1, <3>1, KindsOf DEF MaxStreamsCapsules
  <2>4. Raised(s, t, c)
    <3>1. \A x \in Dir : /\ s.max_streams_remote[x] <= kMaxStreamsLimit
                         /\ s.max_streams_remote[x] \in Nat
      BY <1>1, SessionFields DEF Pair, One, Whole, CountLimit
    <3>2. /\ t.max_streams_remote[d] = n
          /\ \A x \in Dir : x # d => t.max_streams_remote[x] = s.max_streams_remote[x]
      BY <1>1, <1>4, <2>2 DEF WtSessionInfo
    <3>3. s.max_streams_remote[d] <= n
      BY <1>1 DEF n
    <3>4. s.max_data_remote <= t.max_data_remote
      BY <1>1, <1>5, <2>2, SessionFields
    <3>5. ASSUME NEW x \in Dir
          PROVE  /\ s.max_streams_remote[x] <= t.max_streams_remote[x]
                 /\ t.max_streams_remote[x] <= kMaxStreamsLimit
                 /\ c \in MaxStreamsOf(x) => /\ s.max_streams_remote[x] <= c.val
                                             /\ c.val <= t.max_streams_remote[x]
      <4>1. CASE x = d
        BY <1>1, <1>3, <1>9, <2>1, <3>2, <3>3, <4>1
      <4>2. CASE x # d
        BY <2>3, <3>1, <3>2, <4>2
      <4> QED
        BY <4>1, <4>2
    <3> QED
      BY <2>3, <3>4, <3>5 DEF Raised
  <2> QED
    BY <1>2, <1>5, <1>6, <2>1, <2>2, <2>4, AnnouncesPair
<1> QED
  BY <1>8, <1>9

LEMMA ReleasePair ==
    ASSUME NEW p \in End, NEW s, Good(s), NEW r, Good(r), Pair(p, s, r),
           s.status = "open", NEW id \in StreamId
    PROVE  Pair(p, maybe_release_stream(s, p, id), r)
<1> DEFINE t == erase_stream(s, p, id)
<1>1. Good(t)
  BY EraseGood
<1>2. t.status = "open"
  BY DEF erase_stream, Good, WtSessionInfo
<1>3. (id \in s.ids /\ releasable(s, p, id)) => Pair(p, t, r)
  BY DropsPair DEF Good
<1> HIDE DEF t
<1>4. (id \in s.ids /\ releasable(s, p, id)) => Pair(p, replenish_streams(t, p, id), r)
  BY <1>1, <1>2, <1>3, ReplenishPair
<1> QED
  BY <1>4 DEF maybe_release_stream, t

LEMMA AlikeSelf == ASSUME NEW s PROVE Alike(s, s)
BY DEF Alike

LEMMA ReportDataBlockedPair ==
    ASSUME NEW p \in End, NEW s, Good(s), NEW r, Good(r), Pair(p, s, r),
           s.status = "open", NEW blocked
    PROVE  /\ Pair(p, report_data_blocked(s, blocked), r)
           /\ report_data_blocked(s, blocked).status = "open"
<1> DEFINE t == report_data_blocked(s, blocked)
           n == s.max_data_local
           u == send_capsule(s, "WT_DATA_BLOCKED", 0, n)
           c == Message(s, "WT_DATA_BLOCKED", 0, n)
<1> SUFFICES Pair(p, t, r) /\ t.status = "open"
  OBVIOUS
<1>1. s \in WtSessionInfo /\ n \in Nat
  BY GoodFields
<1>2. Good(t)
  BY ReportDataBlockedGood
<1>3. t # s => t = [u EXCEPT !.data_blocked_sent = TRUE]
  BY DEF report_data_blocked
<1> "WT_DATA_BLOCKED" \in CapsuleType /\ "WT_DATA_BLOCKED" \notin StreamsBlockedCapsules
  BY DEF CapsuleType, StreamsBlockedCapsules
<1>4. Good(u)
  BY <1>1, ZeroId, SendCapsule
<1>5. c \in Capsule /\ c.type = "WT_DATA_BLOCKED"
  BY <1>1, ZeroId, MessageFields
<1>6. /\ Utters(s, u, c)
      /\ u.bytes_sent = s.bytes_sent
      /\ u.max_data_remote = s.max_data_remote
      /\ u.max_streams_remote = s.max_streams_remote
      /\ u.streams = s.streams
      /\ u.sent_stop_sending_stream_ids = s.sent_stop_sending_stream_ids
  BY <1>1, ZeroId, AlikeSelf, SendCapsuleUtters
<1> HIDE DEF t, u, c, n
<1>7. CASE t = s
  BY <1>7
<1>8. CASE t # s
  <2>1. u \in WtSessionInfo
    BY <1>4 DEF Good
  <2>2. Utters(s, t, c)
    BY <1>3, <1>6, <1>8, <2>1 DEF Utters, WtSessionInfo
  <2>3. /\ t.bytes_sent = u.bytes_sent
        /\ t.max_data_remote = u.max_data_remote
        /\ t.max_streams_remote = u.max_streams_remote
        /\ t.streams = u.streams
        /\ t.sent_stop_sending_stream_ids = u.sent_stop_sending_stream_ids
    BY <1>3, <1>8, <2>1 DEF WtSessionInfo
  <2>4. Raised(s, t, c)
    BY <1>1, <1>5, <1>6, <2>3, RaisedSame DEF MaxStreamsCapsules
  <2>5. Pair(p, t, r)
    BY <1>2, <1>5, <1>6, <2>2, <2>3, <2>4, AnnouncesPair
  <2> QED
    BY <2>2, <2>5 DEF Utters
<1> QED
  BY <1>7, <1>8

LEMMA ReportStreamDataBlockedPair ==
    ASSUME NEW p \in End, NEW s, Good(s), NEW r, Good(r), Pair(p, s, r),
           s.status = "open", NEW id \in s.ids, NEW blocked,
           s.streams[id].send_state \notin SendDone, is_sendable_stream(p, id)
    PROVE  Pair(p, report_stream_data_blocked(s, id, blocked), r)
<1> DEFINE t == report_stream_data_blocked(s, id, blocked)
           n == s.streams[id].max_stream_data_local
           f == s.streams[id]
           g == [f EXCEPT !.stream_data_blocked_sent = TRUE]
           u == send_capsule(s, "WT_STREAM_DATA_BLOCKED", id, n)
           c == Message(s, "WT_STREAM_DATA_BLOCKED", id, n)
<1> SUFFICES Pair(p, t, r)
  OBVIOUS
<1>1. s \in WtSessionInfo /\ id \in StreamId /\ f \in WtStreamInfo
  BY GoodFields
<1>2. n \in Nat
  BY <1>1, StreamFields
<1>3. Good(t)
  BY ReportStreamDataBlockedGood
<1>4. t # s => t = [u EXCEPT !.streams[id].stream_data_blocked_sent = TRUE]
  BY DEF report_stream_data_blocked
<1> "WT_STREAM_DATA_BLOCKED" \in CapsuleType /\ "WT_STREAM_DATA_BLOCKED" \notin StreamsBlockedCapsules
  BY DEF CapsuleType, StreamsBlockedCapsules
<1>5. Good(u)
  BY <1>1, <1>2, SendCapsule
<1>6. c \in Capsule /\ c.type = "WT_STREAM_DATA_BLOCKED" /\ c.id = id
  BY <1>1, <1>2, MessageFields
<1>7. /\ Utters(s, u, c)
      /\ u.bytes_sent = s.bytes_sent
      /\ u.max_data_remote = s.max_data_remote
      /\ u.max_streams_remote = s.max_streams_remote
      /\ u.streams = s.streams
      /\ u.sent_stop_sending_stream_ids = s.sent_stop_sending_stream_ids
  BY <1>1, <1>2, AlikeSelf, SendCapsuleUtters
<1>8. /\ g.recv_state = f.recv_state /\ g.send_state = f.send_state
      /\ g.bytes_sent = f.bytes_sent /\ g.pending_sends = f.pending_sends
      /\ SameEar(f, g)
  BY <1>1 DEF WtStreamInfo, SameEar
<1> HIDE DEF t, u, c, n
<1>9. CASE t = s
  BY <1>9
<1>10. CASE t # s
  <2>1. u \in WtSessionInfo
    BY <1>5 DEF Good
  <2>2. t = [u EXCEPT !.streams[id] = g]
    BY <1>4, <1>7, <1>10
  <2> HIDE DEF g
  <2>3. Utters(s, t, c)
    BY <1>7, <2>1, <2>2 DEF Utters, WtSessionInfo
  <2>4. /\ t.bytes_sent = u.bytes_sent
        /\ t.max_data_remote = u.max_data_remote
        /\ t.max_streams_remote = u.max_streams_remote
        /\ t.streams = [u.streams EXCEPT ![id] = g]
        /\ t.sent_stop_sending_stream_ids = u.sent_stop_sending_stream_ids
    BY <2>1, <2>2 DEF WtSessionInfo
  <2>5. t.streams[id] = g /\ \A o \in StreamId : o # id => t.streams[o] = s.streams[o]
    BY <1>1, <1>7, <2>4 DEF WtSessionInfo
  <2>6. /\ SameEar(s.streams[id], t.streams[id])
        /\ t.streams[id].recv_state = s.streams[id].recv_state
        /\ t.streams[id].send_state = s.streams[id].send_state
        /\ t.streams[id].bytes_sent = s.streams[id].bytes_sent
        /\ t.streams[id].pending_sends = s.streams[id].pending_sends
    BY <1>8, <2>5
  <2>7. /\ t.max_data_remote = s.max_data_remote
        /\ t.max_streams_remote = s.max_streams_remote
        /\ t.bytes_sent = s.bytes_sent
        /\ s.sent_stop_sending_stream_ids \subseteq t.sent_stop_sending_stream_ids
    BY <1>7, <2>4
  <2> QED
    BY <1>1, <1>3, <1>6, <2>3, <2>5, <2>6, <2>7, NotesPair
<1> QED
  BY <1>9, <1>10

LEMMA StreamsBlockedPair ==
    ASSUME NEW p \in End, NEW s, Good(s), NEW r, Good(r), Pair(p, s, r),
           s.status = "open", NEW d \in Dir, NEW t, Good(t),
           t = [send_capsule(s, IF d = "uni" THEN "WT_STREAMS_BLOCKED_UNI"
                                             ELSE "WT_STREAMS_BLOCKED_BIDI",
                             0, s.max_streams_local[d])
                   EXCEPT !.streams_blocked_sent = @ \cup {d}]
    PROVE  Pair(p, t, r)
<1> DEFINE n == s.max_streams_local[d]
           type == IF d = "uni" THEN "WT_STREAMS_BLOCKED_UNI" ELSE "WT_STREAMS_BLOCKED_BIDI"
           u == send_capsule(s, type, 0, n)
           c == Message(s, type, 0, n)
<1>1. s \in WtSessionInfo /\ n \in Nat
  BY GoodFields
<1>2. n <= kMaxStreamsLimit
  <2>1. n <= r.max_streams_remote[d] /\ r.max_streams_remote[d] <= kMaxStreamsLimit
    BY DEF Pair, One, Whole, CountLimit
  <2>2. r.max_streams_remote[d] \in Nat
    BY GoodFields
  <2> QED
    BY <1>1, <2>1, <2>2, LimitAssumption
<1>3. type \in CapsuleType /\ type \in StreamsBlockedCapsules
  BY DEF CapsuleType, StreamsBlockedCapsules
<1>4. t = [u EXCEPT !.streams_blocked_sent = @ \cup {d}]
  OBVIOUS
<1> HIDE DEF type, n
<1>5. Good(u)
  BY <1>1, <1>3, ZeroId, SendCapsule
<1>6. c \in Capsule /\ c.type = type
  BY <1>1, <1>2, <1>3, ZeroId, MessageFields
<1>7. /\ Utters(s, u, c)
      /\ u.bytes_sent = s.bytes_sent
      /\ u.max_data_remote = s.max_data_remote
      /\ u.max_streams_remote = s.max_streams_remote
      /\ u.streams = s.streams
      /\ u.sent_stop_sending_stream_ids = s.sent_stop_sending_stream_ids
  BY <1>1, <1>2, <1>3, ZeroId, AlikeSelf, SendCapsuleUtters
<1> HIDE DEF u, c
<1>8. u \in WtSessionInfo
  BY <1>5 DEF Good
<1>9. Utters(s, t, c)
  BY <1>4, <1>7, <1>8 DEF Utters, WtSessionInfo
<1>10. /\ t.bytes_sent = u.bytes_sent
       /\ t.max_data_remote = u.max_data_remote
       /\ t.max_streams_remote = u.max_streams_remote
       /\ t.streams = u.streams
       /\ t.sent_stop_sending_stream_ids = u.sent_stop_sending_stream_ids
  BY <1>4, <1>8 DEF WtSessionInfo
<1>11. Raised(s, t, c)
  BY <1>1, <1>3, <1>6, <1>7, <1>10, RaisedSame DEF MaxStreamsCapsules, StreamsBlockedCapsules
<1> QED
  BY <1>3, <1>6, <1>7, <1>9, <1>10, <1>11, AnnouncesPair

LEMMA StopSendingPair ==
    ASSUME NEW p \in End, NEW s, Good(s), NEW r, Good(r), Pair(p, s, r),
           s.status = "open", NEW id \in s.ids, id \notin s.sent_stop_sending_stream_ids,
           Disciplined => is_receivable_data_capsule(p, id)
    PROVE  Pair(p, stop_sending(s, id), r)
<1> DEFINE t == stop_sending(s, id)
           u == [s EXCEPT !.sent_stop_sending_stream_ids = @ \cup {id}]
           c == Message(s, "WT_STOP_SENDING", id, 0)
<1> SUFFICES Pair(p, t, r)
  OBVIOUS
<1>1. s \in WtSessionInfo /\ id \in StreamId /\ s.streams[id] \in WtStreamInfo
  BY GoodFields
<1>2. Good(t)
  BY StopSendingGood
<1>3. t = send_capsule(u, "WT_STOP_SENDING", id, 0)
  BY DEF stop_sending
<1>4. u \in WtSessionInfo
  BY <1>1 DEF WtSessionInfo
<1>5. Alike(s, u)
  BY <1>1 DEF Alike, WtSessionInfo
<1>6. /\ u.max_data_remote = s.max_data_remote
      /\ u.max_streams_remote = s.max_streams_remote
      /\ u.streams = s.streams
      /\ u.sent_stop_sending_stream_ids = s.sent_stop_sending_stream_ids \cup {id}
  BY <1>1 DEF WtSessionInfo
<1> "WT_STOP_SENDING" \in CapsuleType /\ "WT_STOP_SENDING" \notin StreamsBlockedCapsules
  BY DEF CapsuleType, StreamsBlockedCapsules
<1>7. c.type = "WT_STOP_SENDING" /\ c.id = id
  BY <1>1, MessageFields
<1> HIDE DEF t, u
<1>8. /\ Utters(s, t, c)
      /\ t.bytes_sent = s.bytes_sent
      /\ t.max_data_remote = u.max_data_remote
      /\ t.max_streams_remote = u.max_streams_remote
      /\ t.streams = u.streams
      /\ t.sent_stop_sending_stream_ids = u.sent_stop_sending_stream_ids
  BY <1>1, <1>3, <1>4, <1>5, SendCapsuleUtters
<1>9. SameEar(s.streams[id], t.streams[id])
  BY <1>1, <1>6, <1>8, StreamFields DEF SameEar
<1> HIDE DEF c
<1> QED
  BY <1>1, <1>2, <1>6, <1>7, <1>8, <1>9, NotesPair

(* close_session says WT_CLOSE_SESSION, and that it is closed.             *)
LEMMA ClosePair ==
    ASSUME NEW p \in End, NEW s, Good(s), NEW r, Good(r), Pair(p, s, r),
           s.status = "open", NEW why \in Reason, Disciplined => why \in {"none", "app"}
    PROVE  Pair(p, close_session(s, why), r)
<1> DEFINE t == close_session(s, why)
           u == send_capsule(s, "WT_CLOSE_SESSION", 0, 0)
           c == Message(s, "WT_CLOSE_SESSION", 0, 0)
<1> SUFFICES Pair(p, t, r)
  OBVIOUS
<1>1. s \in WtSessionInfo
  BY DEF Good
<1>2. Good(t)
  BY CloseSessionGood
<1>3. t = [u EXCEPT !.status = "terminated", !.reason = why]
  BY DEF close_session
<1> "WT_CLOSE_SESSION" \in CapsuleType /\ "WT_CLOSE_SESSION" \notin StreamsBlockedCapsules
  BY DEF CapsuleType, StreamsBlockedCapsules
<1>4. Good(u)
  BY <1>1, ZeroId, SendCapsule
<1>5. c \in Capsule /\ c \notin Unfit /\ c.type = "WT_CLOSE_SESSION"
  BY <1>1, ZeroId, MessageFields
<1>6. /\ Utters(s, u, c)
      /\ u.bytes_sent = s.bytes_sent
      /\ u.max_data_remote = s.max_data_remote
      /\ u.max_streams_remote = s.max_streams_remote
      /\ u.streams = s.streams
      /\ u.sent_stop_sending_stream_ids = s.sent_stop_sending_stream_ids
  BY <1>1, ZeroId, AlikeSelf, SendCapsuleUtters
<1> HIDE DEF t, u, c
<1>7. u \in WtSessionInfo
  BY <1>4 DEF Good
<1>8. /\ t.status = "terminated" /\ t.reason = why /\ t.out = u.out
      /\ t.bytes_sent = u.bytes_sent
      /\ t.max_data_remote = u.max_data_remote
      /\ t.max_streams_remote = u.max_streams_remote
      /\ t.streams = u.streams
      /\ t.released_stream_ids = u.released_stream_ids
      /\ t.sent_stop_sending_stream_ids = u.sent_stop_sending_stream_ids
  BY <1>3, <1>7 DEF WtSessionInfo
<1>9. /\ t.bytes_received = u.bytes_received
      /\ t.max_data_local = u.max_data_local
      /\ t.received_max_data = u.received_max_data
      /\ t.max_streams_local = u.max_streams_local
      /\ t.received_max_streams = u.received_max_streams
      /\ t.streams_opened = u.streams_opened
      /\ t.ids = u.ids
      /\ t.seen = u.seen
      /\ t.received_max_stream_data_by_id = u.received_max_stream_data_by_id
      /\ t.received_stop_sending_stream_ids = u.received_stop_sending_stream_ids
  BY <1>3, <1>7 DEF WtSessionInfo
<1>10. Raised(s, t, c)
  BY <1>1, <1>5, <1>6, <1>8, RaisedSame DEF MaxStreamsCapsules
<1>11. c \in Closes /\ c \notin Carriers
  BY <1>5, KindsOf DEF StreamCapsules
<1>12. ASSUME NEW o \in StreamId
       PROVE  SaysOf(p, s, t, c, o) /\ SameEar(s.streams[o], t.streams[o])
  <2>1. /\ c \notin CarriersOf(o) /\ c \notin DataOf(o) /\ c \notin AboutOf(o)
        /\ c \notin EndsOf(o) /\ c \notin RaisesOf(o) /\ c \notin StopsOf(o)
    BY <1>5, KindsOf DEF StreamCapsules
  <2>2. t.streams[o] = s.streams[o] /\ s.streams[o] \in WtStreamInfo
    BY <1>1, <1>6, <1>8, SessionFields
  <2>3. Size(c, CarriersOf(o)) = 0
    BY <2>1 DEF Size
  <2>4. SameEar(s.streams[o], t.streams[o])
    BY <2>2, StreamFields DEF SameEar
  <2>5. t.streams[o].bytes_sent = s.streams[o].bytes_sent + Size(c, CarriersOf(o))
    BY <2>2, <2>3, StreamFields
  <2> QED
    BY <1>6, <1>8, <2>1, <2>2, <2>4, <2>5 DEF SaysOf
<1>13. Listens(s, t)
  BY <1>6, <1>8, <1>9, <1>12 DEF Listens, Utters
<1>14. t.bytes_sent = s.bytes_sent + Size(c, Carriers)
  BY <1>1, <1>6, <1>8, <1>11, SessionFields DEF Size
<1>15. t.out = Append(s.out, c) /\ t.released_stream_ids = s.released_stream_ids
  BY <1>6, <1>8 DEF Utters
<1>16. Says(p, s, t, c)
  BY <1>5, <1>8, <1>10, <1>11, <1>12, <1>13, <1>14, <1>15 DEF Says, Raised
<1> QED
  BY <1>2, <1>16, SaysPair

(* WT_RESET_STREAM; then the stream may be released.                       *)
LEMMA ResetStreamPair ==
    ASSUME NEW p \in End, NEW s, Good(s), NEW r, Good(r), Pair(p, s, r),
           s.status = "open", NEW id \in s.ids, s.streams[id].send_state \notin SendDone,
           Disciplined => is_sendable_stream(p, id)
    PROVE  Pair(p, reset_stream(s, p, id), r)
<1> DEFINE f == s.streams[id]
           n == f.bytes_sent
           u == send_capsule(s, "WT_RESET_STREAM", id, n)
           g == [f EXCEPT !.send_state = "ResetSent", !.pending_sends = <<>>]
           t == [u EXCEPT !.streams[id] = g]
           c == Message(s, "WT_RESET_STREAM", id, n)
<1>1. s \in WtSessionInfo /\ id \in StreamId /\ f \in WtStreamInfo
  BY GoodFields
<1>2. n \in Nat
  BY <1>1, StreamFields
<1> "WT_RESET_STREAM" \in CapsuleType /\ "WT_RESET_STREAM" \notin StreamsBlockedCapsules
  BY DEF CapsuleType, StreamsBlockedCapsules
<1>3. Good(u)
  BY <1>1, <1>2, SendCapsule
<1>4. c \in Capsule /\ c.type = "WT_RESET_STREAM" /\ c.id = id /\ c.val = n
  BY <1>1, <1>2, MessageFields
<1>5. /\ Utters(s, u, c)
      /\ u.bytes_sent = s.bytes_sent
      /\ u.max_data_remote = s.max_data_remote
      /\ u.max_streams_remote = s.max_streams_remote
      /\ u.streams = s.streams
      /\ u.sent_stop_sending_stream_ids = s.sent_stop_sending_stream_ids
  BY <1>1, <1>2, AlikeSelf, SendCapsuleUtters
<1>6. g \in WtStreamInfo
  <2>1. <<>> \in Seq(PendingSend)
    OBVIOUS
  <2> HIDE DEF f
  <2> QED
    BY <1>1, <2>1 DEF WtStreamInfo, SendState
<1>7. /\ g.recv_state = f.recv_state /\ g.send_state = "ResetSent"
      /\ g.bytes_sent = f.bytes_sent /\ g.pending_sends = <<>>
      /\ SameEar(f, g) /\ g.bytes_received = f.bytes_received
      /\ g.max_stream_data_local = f.max_stream_data_local
      /\ g.max_stream_data_remote = f.max_stream_data_remote
  BY <1>1 DEF WtStreamInfo, SameEar
<1>8. StreamCredit(g)
  BY <1>7 DEF StreamCredit, Good
<1>9. [u EXCEPT !.streams[id].send_state = "ResetSent", !.streams[id].pending_sends = <<>>]
          = t
  <2>1. u.streams \in [StreamId -> WtStreamInfo] /\ u \in WtSessionInfo
    BY <1>3, GoodFields
  <2> QED
    BY <1>1, <1>5, <2>1 DEF WtSessionInfo
<1> HIDE DEF u, g, c, n
<1>10. Good(t)
  BY <1>1, <1>3, <1>6, <1>8, SetStream
<1>11. u \in WtSessionInfo /\ t \in WtSessionInfo /\ r \in WtSessionInfo
  BY <1>3, <1>10 DEF Good
<1>12. Utters(s, t, c)
  BY <1>5, <1>11 DEF Utters, WtSessionInfo
<1>13. /\ t.bytes_sent = u.bytes_sent
       /\ t.max_data_remote = u.max_data_remote
       /\ t.max_streams_remote = u.max_streams_remote
       /\ t.streams = [u.streams EXCEPT ![id] = g]
       /\ t.sent_stop_sending_stream_ids = u.sent_stop_sending_stream_ids
  BY <1>11 DEF WtSessionInfo
<1> HIDE DEF t
<1>14. t.streams[id] = g /\ \A o \in StreamId : o # id => t.streams[o] = s.streams[o]
  BY <1>1, <1>5, <1>13 DEF WtSessionInfo
<1>15. /\ c \notin Carriers /\ c \notin Closes /\ c \notin CarriersOf(id)
       /\ c \notin RaisesOf(id) /\ c \notin StopsOf(id)
  BY <1>4, KindsOf DEF StreamCapsules
<1>16. Size(c, Carriers) = 0 /\ Size(c, CarriersOf(id)) = 0
  BY <1>15 DEF Size
<1>17. Place(c) = f.bytes_sent
  BY <1>4 DEF Place, n
<1>18. t.streams[id].bytes_sent = f.bytes_sent + Size(c, CarriersOf(id))
  BY <1>1, <1>7, <1>14, <1>16, StreamFields
<1>19. SaysOf(p, s, t, c, id)
  <2>1. t.streams[id].send_state \in SendDone
    BY <1>7, <1>14 DEF SendDone
  <2> HIDE DEF f
  <2> QED
    BY <1>5, <1>7, <1>13, <1>14, <1>15, <1>17, <1>18, <2>1 DEF SaysOf, f
<1>20. Raised(s, t, c)
  BY <1>1, <1>4, <1>5, <1>13, RaisedSame DEF MaxStreamsCapsules
<1>21. t.bytes_sent = s.bytes_sent + Size(c, Carriers)
  BY <1>1, <1>5, <1>13, <1>16, SessionFields
<1>22. SameEar(s.streams[id], t.streams[id])
  BY <1>7, <1>14
<1>23. s.sent_stop_sending_stream_ids \subseteq t.sent_stop_sending_stream_ids
  BY <1>5, <1>13
<1>24. Says(p, s, t, c)
  BY <1>1, <1>4, <1>11, <1>12, <1>14, <1>15, <1>19, <1>20, <1>21, <1>22, <1>23, SaysAt
<1>25. Pair(p, t, r)
  BY <1>10, <1>24, SaysPair
<1>26. t.status = "open"
  BY <1>12 DEF Utters
<1>27. Pair(p, maybe_release_stream(t, p, id), r)
  BY <1>1, <1>10, <1>25, <1>26, ReleasePair
<1>28. reset_stream(s, p, id) = maybe_release_stream(t, p, id)
  BY <1>9 DEF reset_stream, u, n, f
<1> QED
  BY <1>27, <1>28

(* t is u with another entry for one stream.                               *)
Touches(u, t, id, g) ==
    /\ Alike(u, t)
    /\ t.max_data_remote = u.max_data_remote
    /\ t.max_streams_remote = u.max_streams_remote
    /\ t.sent_stop_sending_stream_ids = u.sent_stop_sending_stream_ids
    /\ t.streams[id] = g
    /\ \A o \in StreamId : o # id => t.streams[o] = u.streams[o]

LEMMA TouchesExcept ==
    ASSUME NEW u \in WtSessionInfo, NEW id \in StreamId, NEW g, NEW t,
           t = [u EXCEPT !.streams[id] = g]
    PROVE  Touches(u, t, id, g)
<1>1. Alike(u, t)
  BY DEF Alike, WtSessionInfo
<1>2. /\ t.max_data_remote = u.max_data_remote
      /\ t.max_streams_remote = u.max_streams_remote
      /\ t.sent_stop_sending_stream_ids = u.sent_stop_sending_stream_ids
      /\ t.streams = [u.streams EXCEPT ![id] = g]
  BY DEF WtSessionInfo
<1>3. t.streams[id] = g /\ \A o \in StreamId : o # id => t.streams[o] = u.streams[o]
  BY <1>2 DEF WtSessionInfo
<1> QED
  BY <1>1, <1>2, <1>3 DEF Touches

LEMMA TouchesSelf ==
    ASSUME NEW u, NEW id
    PROVE  Touches(u, u, id, u.streams[id])
BY AlikeSelf DEF Touches

LEMMA TouchesTwice ==
    ASSUME NEW u, NEW v, NEW t, NEW id, NEW f, NEW g,
           Touches(u, v, id, f), Touches(v, t, id, g)
    PROVE  Touches(u, t, id, g)
BY DEF Touches, Alike

(* Nobody else sees the queue and the books of a stream.                   *)
LEMMA TouchesPair ==
    ASSUME NEW p \in End, NEW s, Good(s), NEW t, Good(t), NEW r, Good(r), Pair(p, s, r),
           NEW id \in StreamId, NEW g, Touches(s, t, id, g),
           SameEar(s.streams[id], g), g.bytes_sent = s.streams[id].bytes_sent,
           g.send_state = s.streams[id].send_state,
           g.max_stream_data_remote = s.streams[id].max_stream_data_remote,
           g.recv_state \in RecvDone =>
               s.streams[id].recv_state \in RecvDone \/ s.seen[id] # "live",
           g.pending_sends # <<>> =>
               is_sendable_stream(p, id) \/ s.streams[id].pending_sends # <<>>
    PROVE  Pair(p, t, r)
<1>1. s \in WtSessionInfo /\ t \in WtSessionInfo /\ r \in WtSessionInfo
  BY DEF Good
<1>2. \A o \in StreamId : SameEar(s.streams[o], s.streams[o])
  BY <1>1, SessionFields, StreamFields DEF SameEar
<1>3. \A o \in StreamId : SameEar(s.streams[o], t.streams[o])
  BY <1>2 DEF Touches
<1>4. Listens(s, t)
  BY <1>3 DEF Listens, Touches, Alike
<1>5. ASSUME NEW o \in StreamId PROVE SpeaksOf(p, s, t, o)
  <2>1. t.ids = s.ids /\ t.seen = s.seen
    BY DEF Touches, Alike
  <2>2. CASE o # id
    BY <2>1, <2>2 DEF SpeaksOf, Touches
  <2>3. CASE o = id
    BY <2>1, <2>3 DEF SpeaksOf, Touches, SameEar
  <2> QED
    BY <2>2, <2>3
<1>6. \A d \in Dir : s.max_streams_local[d] <= t.max_streams_local[d]
  BY <1>1, SessionFields DEF Touches, Alike
<1>7. Speaks(p, s, t)
  BY <1>5, <1>6 DEF Speaks, Touches, Alike
<1> QED
  BY <1>1, <1>4, <1>7, KeepsPair

(* WT_STREAM: the bytes that follow those sent.                            *)
LEMMA CarriesPair ==
    ASSUME NEW p \in End, NEW s, Good(s), NEW t, Good(t), NEW r, Good(r), Pair(p, s, r),
           s.status = "open", NEW id \in s.ids, is_sendable_stream(p, id),
           s.streams[id].send_state \notin SendDone,
           NEW c, Utters(s, t, c), c.type \in StreamCapsules, c.id = id,
           c.off = s.streams[id].bytes_sent,
           t.bytes_sent = s.bytes_sent + c.len,
           t.max_data_remote = s.max_data_remote,
           t.max_streams_remote = s.max_streams_remote,
           t.sent_stop_sending_stream_ids = s.sent_stop_sending_stream_ids,
           \A o \in StreamId : o # id => t.streams[o] = s.streams[o],
           SameEar(s.streams[id], t.streams[id]),
           t.streams[id].recv_state = s.streams[id].recv_state,
           t.streams[id].bytes_sent = s.streams[id].bytes_sent + c.len,
           c.type = "WT_STREAM_FIN" => t.streams[id].send_state \in SendDone
    PROVE  Pair(p, t, r)
<1>1. c \in Capsule /\ id \in StreamId
  BY GoodFields DEF Utters
<1>2. s \in WtSessionInfo /\ t \in WtSessionInfo /\ r \in WtSessionInfo
  BY DEF Good
<1>3. /\ c \in Carriers /\ c \in CarriersOf(id) /\ c \notin Closes
      /\ c \notin RaisesOf(id) /\ c \notin StopsOf(id)
      /\ c \in EndsOf(id) => c.type = "WT_STREAM_FIN"
  BY <1>1, KindsOf DEF StreamCapsules
<1>4. Size(c, Carriers) = c.len /\ Size(c, CarriersOf(id)) = c.len
  BY <1>3 DEF Size
<1>5. Place(c) = s.streams[id].bytes_sent
  BY DEF Place, StreamCapsules
<1>6. SaysOf(p, s, t, c, id)
  BY <1>3, <1>4, <1>5 DEF SaysOf
<1>7. Raised(s, t, c)
  BY <1>1, <1>2, RaisedSame DEF MaxStreamsCapsules, StreamCapsules
<1>8. Says(p, s, t, c)
  BY <1>1, <1>2, <1>3, <1>4, <1>6, <1>7, SaysAt
<1> QED
  BY <1>8, SaysPair

Carrier(s, id, q, n) ==
    [type |-> IF n = q.len /\ q.fin THEN "WT_STREAM_FIN" ELSE "WT_STREAM",
     id |-> id, len |-> n, val |-> 0, form |-> "ok", off |-> q.off, at |-> s.bytes_sent]

LEMMA CarrierFields ==
    ASSUME NEW s \in WtSessionInfo, NEW id \in StreamId, NEW q \in PendingSend, NEW n \in Nat
    PROVE  LET c == Carrier(s, id, q, n)
           IN  /\ c \in Capsule /\ c \notin Unfit
               /\ c.type \in StreamCapsules /\ c.id = id /\ c.len = n /\ c.off = q.off
               /\ c.type = "WT_STREAM_FIN" => n = q.len /\ q.fin
<1> DEFINE type == IF n = q.len /\ q.fin THEN "WT_STREAM_FIN" ELSE "WT_STREAM"
           c == Carrier(s, id, q, n)
<1>1. /\ type \in StreamCapsules /\ type \in CapsuleType
      /\ type \notin StreamsBlockedCapsules
      /\ type = "WT_STREAM_FIN" => n = q.len /\ q.fin
  BY DEF StreamCapsules, CapsuleType, StreamsBlockedCapsules
<1>2. c = [type |-> type, id |-> id, len |-> n, val |-> 0, form |-> "ok",
           off |-> q.off, at |-> s.bytes_sent]
  BY DEF Carrier
<1> HIDE DEF c, type
<1>3. s.bytes_sent \in Nat /\ q.off \in Nat
  BY SessionFields DEF PendingSend
<1>4. c \in Capsule
  BY <1>1, <1>2, <1>3 DEF Capsule, Form
<1>5. c.type = type /\ c.id = id /\ c.len = n /\ c.off = q.off /\ c.form = "ok"
  BY <1>2
<1>6. c \notin Unfit
  BY <1>1, <1>5 DEF Unfit
<1>7. c.type \in StreamCapsules /\ (c.type = "WT_STREAM_FIN" => n = q.len /\ q.fin)
  BY <1>1, <1>5
<1> QED
  BY <1>4, <1>5, <1>6, <1>7 DEF c

LEMMA SendStreamCapsuleUtters ==
    ASSUME NEW s \in WtSessionInfo, NEW id \in StreamId, NEW q \in PendingSend, NEW n \in Nat
    PROVE  /\ Utters(s, send_stream_capsule(s, id, q, n), Carrier(s, id, q, n))
           /\ send_stream_capsule(s, id, q, n).bytes_sent = s.bytes_sent + n
           /\ send_stream_capsule(s, id, q, n).max_data_remote = s.max_data_remote
           /\ send_stream_capsule(s, id, q, n).max_streams_remote = s.max_streams_remote
           /\ send_stream_capsule(s, id, q, n).sent_stop_sending_stream_ids
                  = s.sent_stop_sending_stream_ids
<1> DEFINE t == send_stream_capsule(s, id, q, n)
           c == Carrier(s, id, q, n)
<1>1. c \in Capsule /\ c \notin Unfit
  BY CarrierFields
<1>2. /\ t.status = s.status /\ t.reason = s.reason
      /\ t.bytes_received = s.bytes_received /\ t.max_data_local = s.max_data_local
      /\ t.received_max_data = s.received_max_data
      /\ t.max_streams_local = s.max_streams_local
      /\ t.received_max_streams = s.received_max_streams
      /\ t.streams_opened = s.streams_opened
      /\ t.ids = s.ids /\ t.seen = s.seen
      /\ t.received_max_stream_data_by_id = s.received_max_stream_data_by_id
      /\ t.received_stop_sending_stream_ids = s.received_stop_sending_stream_ids
      /\ t.released_stream_ids = s.released_stream_ids
  BY DEF send_stream_capsule, WtSessionInfo
<1>3. t.out = Append(s.out, c)
  BY DEF send_stream_capsule, WtSessionInfo, Carrier
<1>4. /\ t.bytes_sent = s.bytes_sent + n
      /\ t.max_data_remote = s.max_data_remote
      /\ t.max_streams_remote = s.max_streams_remote
      /\ t.sent_stop_sending_stream_ids = s.sent_stop_sending_stream_ids
  BY DEF send_stream_capsule, WtSessionInfo
<1> HIDE DEF t, c
<1>5. Utters(s, t, c)
  BY <1>1, <1>2, <1>3 DEF Utters
<1> QED
  BY <1>4, <1>5 DEF t, c

(* send_stream_capsule, with what becomes of the stream's entry.           *)
LEMMA SentPair ==
    ASSUME NEW p \in End, NEW s, Good(s), NEW t, Good(t), NEW r, Good(r), Pair(p, s, r),
           s.status = "open", NEW id \in s.ids, is_sendable_stream(p, id),
           s.streams[id].send_state \notin SendDone,
           NEW q \in PendingSend, NEW n \in Nat, q.off = s.streams[id].bytes_sent,
           NEW g, Touches(send_stream_capsule(s, id, q, n), t, id, g),
           g.bytes_sent = s.streams[id].bytes_sent + n,
           g.recv_state = s.streams[id].recv_state,
           SameEar(s.streams[id], g),
           (n = q.len /\ q.fin) => g.send_state \in SendDone
    PROVE  Pair(p, t, r) /\ t.status = "open" /\ t.ids = s.ids
<1> DEFINE u == send_stream_capsule(s, id, q, n)
           c == Carrier(s, id, q, n)
<1>1. s \in WtSessionInfo /\ id \in StreamId
  BY GoodFields
<1>2. /\ Utters(s, u, c)
      /\ u.bytes_sent = s.bytes_sent + n
      /\ u.max_data_remote = s.max_data_remote
      /\ u.max_streams_remote = s.max_streams_remote
      /\ u.sent_stop_sending_stream_ids = s.sent_stop_sending_stream_ids
  BY <1>1, SendStreamCapsuleUtters
<1>3. \A o \in StreamId : o # id => u.streams[o] = s.streams[o]
  <2>1. Only(s, u, id)
    BY <1>1, SendStreamCapsuleOnly
  <2> HIDE DEF u
  <2> QED
    BY <2>1 DEF Only
<1>4. /\ c.type \in StreamCapsules /\ c.id = id /\ c.len = n /\ c.off = q.off
      /\ c.type = "WT_STREAM_FIN" => n = q.len /\ q.fin
  BY <1>1, CarrierFields
<1>5. Touches(u, t, id, g)
  OBVIOUS
<1> HIDE DEF u, c
<1>6. Utters(s, t, c)
  BY <1>2, <1>5 DEF Utters, Touches, Alike
<1>7. /\ t.bytes_sent = s.bytes_sent + n
      /\ t.max_data_remote = s.max_data_remote
      /\ t.max_streams_remote = s.max_streams_remote
      /\ t.sent_stop_sending_stream_ids = s.sent_stop_sending_stream_ids
      /\ t.streams[id] = g
      /\ \A o \in StreamId : o # id => t.streams[o] = s.streams[o]
  BY <1>2, <1>3, <1>5 DEF Touches, Alike
<1>8. Pair(p, t, r)
  BY <1>4, <1>6, <1>7, CarriesPair
<1> QED
  BY <1>6, <1>8 DEF Utters

(* The entry of a stream after n bytes of it were sent.                    *)
LEMMA SentEntry ==
    ASSUME NEW s, Good(s), NEW id \in s.ids, NEW q, NEW n \in Nat,
           NEW h, h = send_stream_capsule(s, id, q, n).streams[id]
    PROVE  /\ h.bytes_sent = s.streams[id].bytes_sent + n
           /\ h.recv_state = s.streams[id].recv_state
           /\ h.send_state = s.streams[id].send_state
           /\ h.pending_sends = s.streams[id].pending_sends
           /\ SameEar(s.streams[id], h)
<1>1. s \in WtSessionInfo /\ id \in StreamId /\ s.streams[id] \in WtStreamInfo
  BY GoodFields
<1>2. h = [s.streams[id] EXCEPT !.bytes_sent = @ + n]
  BY <1>1, SendStreamCapsuleOnly
<1> QED
  BY <1>1, <1>2 DEF WtStreamInfo, SameEar

LEMMA QueuePair ==
    ASSUME NEW p \in End, NEW s, Good(s), NEW r, Good(r), Pair(p, s, r),
           NEW id \in s.ids, is_sendable_stream(p, id), NEW q \in PendingSend
    PROVE  Pair(p, queue_send(s, id, q), r)
<1> DEFINE t == queue_send(s, id, q)
           f == s.streams[id]
           g == [f EXCEPT !.pending_sends = Append(@, q)]
<1> SUFFICES Pair(p, t, r)
  OBVIOUS
<1>1. s \in WtSessionInfo /\ id \in StreamId /\ f \in WtStreamInfo
  BY GoodFields
<1>2. Good(t)
  BY QueueGood
<1>3. t = [s EXCEPT !.streams[id] = g]
  BY DEF queue_send
<1>4. /\ SameEar(f, g) /\ g.bytes_sent = f.bytes_sent /\ g.send_state = f.send_state
      /\ g.max_stream_data_remote = f.max_stream_data_remote
      /\ g.recv_state = f.recv_state
  BY <1>1 DEF WtStreamInfo, SameEar
<1> HIDE DEF t, g
<1>5. Touches(s, t, id, g)
  BY <1>1, <1>3, TouchesExcept
<1> QED
  BY <1>1, <1>2, <1>4, <1>5, TouchesPair

LEMMA SendPartPair ==
    ASSUME NEW p \in End, NEW s, Good(s), NEW r, Good(r), Pair(p, s, r),
           s.status = "open", NEW id \in s.ids, is_sendable_stream(p, id),
           s.streams[id].send_state \notin SendDone,
           NEW q \in PendingSend, q.off = s.streams[id].bytes_sent,
           sendable(s, id, q.len) < q.len
    PROVE  Pair(p, send_part(s, id, q), r)
<1> DEFINE session == session_avail(s, q.len)
           stream == stream_avail(s, id, q.len)
           n == sendable(s, id, q.len)
           sent == IF n > 0 THEN send_stream_capsule(s, id, q, n) ELSE s
           a == report_data_blocked(sent, session <= stream)
           b == report_stream_data_blocked(a, id, stream <= session)
           rest == rest_of_send(q, n)
<1>1. q.len \in Nat
  BY DEF PendingSend
<1>2. /\ n \in Nat /\ n <= q.len
      /\ s.bytes_sent + n <= s.max_data_local
      /\ s.streams[id].bytes_sent + n <= s.streams[id].max_stream_data_local
  BY <1>1, SendableFits
<1>3. send_part(s, id, q) = queue_send(b, id, rest)
  BY DEF send_part
<1>4. n # q.len
  BY <1>1, <1>2
<1> HIDE DEF n, session, stream
<1>5. /\ Good(sent) /\ sent.ids = s.ids /\ sent.status = "open" /\ Pair(p, sent, r)
      /\ sent.streams[id].send_state \notin SendDone
  <2>1. CASE n > 0
    <3> DEFINE x == send_stream_capsule(s, id, q, n)
               h == x.streams[id]
    <3>1. Good(x) /\ x.ids = s.ids
      BY <1>2, SendStreamCapsuleGood
    <3>2. /\ h.bytes_sent = s.streams[id].bytes_sent + n
          /\ h.recv_state = s.streams[id].recv_state
          /\ h.send_state = s.streams[id].send_state
          /\ SameEar(s.streams[id], h)
      BY <1>2, SentEntry
    <3>3. Touches(send_stream_capsule(s, id, q, n), x, id, h)
      BY TouchesSelf
    <3> HIDE DEF x
    <3>4. Pair(p, x, r) /\ x.status = "open"
      BY <1>2, <1>4, <3>1, <3>2, <3>3, SentPair
    <3>5. sent = x
      BY <2>1 DEF x
    <3> QED
      BY <3>1, <3>2, <3>4, <3>5
  <2>2. CASE ~(n > 0)
    BY <2>2
  <2> QED
    BY <2>1, <2>2
<1>6. rest \in PendingSend
  BY <1>2, RestOfSend
<1> HIDE DEF sent, rest
<1>7. /\ Good(a) /\ a.ids = s.ids /\ Pair(p, a, r) /\ a.status = "open"
      /\ a.streams = sent.streams
  BY <1>5, ReportDataBlockedGood, ReportDataBlockedPair, ReportDataBlockedKept DEF Good
<1> HIDE DEF a
<1>8. Good(b) /\ b.ids = s.ids /\ Pair(p, b, r)
  BY <1>5, <1>7, ReportStreamDataBlockedGood, ReportStreamDataBlockedPair
<1> HIDE DEF b
<1> QED
  BY <1>3, <1>6, <1>8, QueuePair

(* With the FIN the stream is done sending, and may be released.           *)
LEMMA FinishedPair ==
    ASSUME NEW p \in End, NEW s, Good(s), NEW t, Good(t), NEW r, Good(r), Pair(p, s, r),
           s.status = "open", NEW id \in s.ids, is_sendable_stream(p, id),
           s.streams[id].send_state \notin SendDone,
           NEW q \in PendingSend, NEW n \in Nat, q.off = s.streams[id].bytes_sent,
           NEW g, Touches(send_stream_capsule(s, id, q, n), t, id, g), id \in t.ids,
           g.bytes_sent = s.streams[id].bytes_sent + n,
           g.recv_state = s.streams[id].recv_state,
           SameEar(s.streams[id], g)
    PROVE  Pair(p, finish_sending(t, p, id), r)
<1> DEFINE h == [g EXCEPT !.send_state = "DataSent"]
           u == [t EXCEPT !.streams[id].send_state = "DataSent"]
           x == send_stream_capsule(s, id, q, n)
<1>1. id \in StreamId /\ t \in WtSessionInfo /\ t.streams[id] \in WtStreamInfo
  BY GoodFields
<1>2. t.streams[id] = g
  BY DEF Touches
<1>3. u = [t EXCEPT !.streams[id] = h]
  BY <1>2
<1>4. /\ h.bytes_sent = g.bytes_sent /\ h.recv_state = g.recv_state
      /\ h.send_state = "DataSent"
      /\ h.bytes_received = g.bytes_received
      /\ h.max_stream_data_local = g.max_stream_data_local
      /\ h.stop_sending_received = g.stop_sending_received
      /\ h.max_stream_data_remote = g.max_stream_data_remote
  BY <1>1, <1>2 DEF WtStreamInfo
<1>5. Good(u)
  BY SetSendState DEF SendState
<1>6. finish_sending(t, p, id) = maybe_release_stream(u, p, id)
  BY DEF finish_sending
<1> HIDE DEF h, u
<1>7. Touches(t, u, id, h)
  BY <1>1, <1>3, TouchesExcept
<1>8. Touches(x, u, id, h)
  BY <1>7, TouchesTwice
<1>9. SameEar(s.streams[id], h) /\ h.send_state \in SendDone
  BY <1>4 DEF SameEar, SendDone
<1>10. Pair(p, u, r) /\ u.status = "open"
  BY <1>4, <1>5, <1>8, <1>9, SentPair
<1> QED
  BY <1>1, <1>5, <1>6, <1>10, ReleasePair

LEMMA SendAllPair ==
    ASSUME NEW p \in End, NEW s, Good(s), NEW r, Good(r), Pair(p, s, r),
           s.status = "open", NEW id \in s.ids, is_sendable_stream(p, id),
           s.streams[id].send_state \notin SendDone,
           NEW q \in PendingSend, q.off = s.streams[id].bytes_sent,
           s.bytes_sent + q.len <= s.max_data_local,
           s.streams[id].bytes_sent + q.len <= s.streams[id].max_stream_data_local
    PROVE  Pair(p, send_all(s, p, id, q), r)
<1> DEFINE n == q.len
           x == send_stream_capsule(s, id, q, n)
           h == x.streams[id]
<1>1. n \in Nat
  BY DEF PendingSend
<1>2. Good(x) /\ x.ids = s.ids
  BY <1>1, SendStreamCapsuleGood
<1>3. send_all(s, p, id, q) = IF q.fin THEN finish_sending(x, p, id) ELSE x
  BY DEF send_all
<1> HIDE DEF n
<1>4. /\ h.bytes_sent = s.streams[id].bytes_sent + n
      /\ h.recv_state = s.streams[id].recv_state
      /\ SameEar(s.streams[id], h)
  BY <1>1, SentEntry
<1>5. Touches(send_stream_capsule(s, id, q, n), x, id, h)
  BY TouchesSelf
<1> HIDE DEF x
<1>6. CASE q.fin
  <2>1. Pair(p, finish_sending(x, p, id), r)
    BY <1>1, <1>2, <1>4, <1>5, FinishedPair
  <2> QED
    BY <1>3, <1>6, <2>1
<1>7. CASE ~q.fin
  <2>1. Pair(p, x, r)
    BY <1>1, <1>2, <1>4, <1>5, <1>7, SentPair
  <2> QED
    BY <1>3, <1>7, <2>1
<1> QED
  BY <1>6, <1>7

LEMMA SendStreamDataPair ==
    ASSUME NEW p \in End, NEW s, Good(s), NEW r, Good(r), Pair(p, s, r), Local(p, s),
           s.status = "open", NEW id \in s.ids, is_sendable_stream(p, id),
           s.streams[id].send_state \notin SendDone, NEW n \in Nat, NEW fin \in BOOLEAN
    PROVE  Pair(p, send_stream_data(s, p, id, n, fin), r)
<1> DEFINE f == s.streams[id]
           g == [f EXCEPT !.written = @ + n]
           q == [off |-> f.written, len |-> n, fin |-> fin]
           t == [s EXCEPT !.streams[id] = g]
<1>1. f \in WtStreamInfo /\ StreamCredit(f) /\ id \in StreamId /\ s \in WtSessionInfo
  BY GoodFields DEF Good
<1>2. send_stream_data(s, p, id, n, fin) =
          IF f.pending_sends # <<>> THEN queue_send(t, id, q)
          ELSE IF sendable(s, id, n) < n THEN send_part(t, id, q)
          ELSE send_all(t, p, id, q)
  BY DEF send_stream_data
<1>3. sendable(s, id, n) < n \/ (/\ s.bytes_sent + n <= s.max_data_local
                                 /\ f.bytes_sent + n <= f.max_stream_data_local)
  BY SendableFits
<1>4. Accounted(f) /\ f.send_state = "Ready"
  BY <1>1 DEF Local, AllAccounted, WtStreamInfo, SendState, SendDone
<1>5. f.pending_sends = <<>> => f.bytes_sent = f.written
  BY <1>4 DEF Accounted
<1> HIDE DEF f
<1>6. q \in PendingSend /\ q.len = n /\ q.off = f.written
  BY <1>1, StreamFields DEF PendingSend
<1>7. /\ g \in WtStreamInfo /\ StreamCredit(g)
      /\ g.bytes_sent = f.bytes_sent /\ g.max_stream_data_local = f.max_stream_data_local
  BY <1>1, StreamFields DEF WtStreamInfo, StreamCredit
<1>8. /\ SameEar(f, g) /\ g.send_state = f.send_state
      /\ g.max_stream_data_remote = f.max_stream_data_remote
      /\ g.recv_state = f.recv_state
  BY <1>1 DEF WtStreamInfo, SameEar
<1> HIDE DEF g, q
<1>9. Good(t)
  BY <1>1, <1>7, SetStream
<1>10. Touches(s, t, id, g)
  BY <1>1, TouchesExcept
<1> HIDE DEF t
<1>11. /\ t.ids = s.ids /\ t.status = "open" /\ t.streams[id] = g
       /\ t.bytes_sent = s.bytes_sent /\ t.max_data_local = s.max_data_local
  BY <1>10 DEF Touches, Alike
<1>12. Pair(p, t, r)
  BY <1>1, <1>7, <1>8, <1>9, <1>10, TouchesPair DEF f
<1>13. t.streams[id].send_state \notin SendDone
  BY <1>8, <1>11 DEF f
<1>14. Pair(p, queue_send(t, id, q), r)
  BY <1>6, <1>9, <1>11, <1>12, QueuePair
<1>15. sendable(t, id, n) = sendable(s, id, n)
  BY <1>7, <1>11 DEF sendable, session_avail, stream_avail, f
<1>16. CASE f.pending_sends = <<>> /\ sendable(s, id, n) < n
  <2>1. Pair(p, send_part(t, id, q), r)
    BY <1>5, <1>6, <1>7, <1>9, <1>11, <1>12, <1>13, <1>15, <1>16, SendPartPair
  <2> QED
    BY <1>2, <1>16, <2>1
<1>17. CASE f.pending_sends = <<>> /\ ~(sendable(s, id, n) < n)
  <2>1. Pair(p, send_all(t, p, id, q), r)
    BY <1>3, <1>5, <1>6, <1>7, <1>9, <1>11, <1>12, <1>13, <1>17, SendAllPair
  <2> QED
    BY <1>2, <1>17, <2>1
<1> QED
  BY <1>2, <1>14, <1>16, <1>17

LEMMA FlushOnePair ==
    ASSUME NEW p \in End, NEW s, Good(s), NEW r, Good(r), Pair(p, s, r), Local(p, s),
           s.status = "open", NEW id \in Flushable(s)
    PROVE  Pair(p, flush_one(s, p, id), r)
<1> DEFINE f == s.streams[id]
           a == f.pending_sends
           q == Head(a)
           n == sendable(s, id, q.len)
           sent == send_stream_capsule(s, id, q, n)
           h == sent.streams[id]
           rest == [a EXCEPT ![1] = rest_of_send(q, n)]
           popped == [sent EXCEPT !.streams[id].pending_sends = Tail(a)]
           moved == [sent EXCEPT !.streams[id].pending_sends = rest]
<1>1. /\ id \in s.ids /\ id \in StreamId /\ a # <<>> /\ a \in Seq(PendingSend)
      /\ s \in WtSessionInfo /\ f.send_state \notin SendDone
  BY GoodFields, StreamFields DEF Flushable
<1>2. q \in PendingSend /\ Tail(a) \in Seq(PendingSend) /\ q = a[1]
  <2> HIDE DEF a
  <2> QED BY <1>1
<1>3. h.pending_sends = a
  BY <1>1, SendStreamCapsuleFrame
<1>4. flush_one(s, p, id) =
          IF n < q.len THEN moved
          ELSE IF q.fin THEN finish_sending(popped, p, id) ELSE popped
  <2>1. [sent EXCEPT !.streams[id].pending_sends = Tail(@)] = popped
    BY <1>3
  <2>2. [sent EXCEPT !.streams[id].pending_sends[1] = rest_of_send(q, n)] = moved
    BY <1>3
  <2> QED
    BY <2>1, <2>2 DEF flush_one
<1>5. q.off = f.bytes_sent
  BY <1>1, <1>2 DEF Local, AllAccounted, Accounted
<1>6. is_sendable_stream(p, id)
  BY <1>1 DEF Pair, One, Parts, Entry
<1> HIDE DEF f
<1>7. /\ n \in Nat /\ n <= q.len /\ q.len \in Nat
      /\ s.bytes_sent + n <= s.max_data_local
      /\ f.bytes_sent + n <= f.max_stream_data_local
  BY <1>1, <1>2, SendableFits DEF PendingSend, f
<1> HIDE DEF a, q, n
<1>8. Good(sent) /\ sent.ids = s.ids
  BY <1>1, <1>2, <1>7, SendStreamCapsuleGood DEF f
<1>9. rest \in Seq(PendingSend)
  BY <1>1, <1>2, <1>7, RestOfSend, ReplaceHead
<1>10. /\ h.bytes_sent = f.bytes_sent + n /\ h.recv_state = f.recv_state
       /\ SameEar(f, h)
  BY <1>1, <1>7, SentEntry DEF f
<1>11. h \in WtStreamInfo /\ sent \in WtSessionInfo
  BY <1>1, <1>8, GoodFields
<1> HIDE DEF rest, h
<1>12. ASSUME NEW x, NEW u, u = [sent EXCEPT !.streams[id].pending_sends = x]
       PROVE  \E g : /\ Touches(sent, u, id, g) /\ u.ids = s.ids
                     /\ g.bytes_sent = f.bytes_sent + n /\ g.recv_state = f.recv_state
                     /\ SameEar(f, g)
  <2> DEFINE g == [h EXCEPT !.pending_sends = x]
  <2>1. u = [sent EXCEPT !.streams[id] = g]
    BY <1>12 DEF h
  <2>2. /\ g.bytes_sent = h.bytes_sent /\ g.recv_state = h.recv_state
        /\ g.bytes_received = h.bytes_received
        /\ g.max_stream_data_local = h.max_stream_data_local
        /\ g.stop_sending_received = h.stop_sending_received
        /\ g.max_stream_data_remote = h.max_stream_data_remote
    BY <1>11 DEF WtStreamInfo
  <2> HIDE DEF g, sent
  <2>3. Touches(sent, u, id, g)
    BY <1>1, <1>11, <2>1, TouchesExcept
  <2>4. SameEar(f, g)
    BY <1>10, <2>2 DEF SameEar
  <2> QED
    BY <1>8, <1>10, <2>2, <2>3, <2>4 DEF Touches, Alike
<1>13. Good(moved) /\ Good(popped)
  <2> HIDE DEF sent
  <2> QED
    BY <1>1, <1>2, <1>8, <1>9, SetPending
<1>14. CASE n < q.len
  <2>1. PICK g : /\ Touches(sent, moved, id, g)
                 /\ g.bytes_sent = f.bytes_sent + n /\ g.recv_state = f.recv_state
                 /\ SameEar(f, g)
    BY <1>12
  <2>2. n # q.len
    BY <1>7, <1>14
  <2> HIDE DEF moved
  <2>3. Pair(p, moved, r)
    BY <1>1, <1>2, <1>5, <1>6, <1>7, <1>13, <2>1, <2>2, SentPair DEF f
  <2> QED
    BY <1>4, <1>14, <2>3
<1>15. CASE ~(n < q.len)
  <2>1. PICK g : /\ Touches(sent, popped, id, g) /\ popped.ids = s.ids
                 /\ g.bytes_sent = f.bytes_sent + n /\ g.recv_state = f.recv_state
                 /\ SameEar(f, g)
    BY <1>12
  <2> HIDE DEF popped
  <2>2. ~q.fin => Pair(p, popped, r)
    BY <1>1, <1>2, <1>5, <1>6, <1>7, <1>13, <2>1, SentPair DEF f
  <2>3. q.fin => Pair(p, finish_sending(popped, p, id), r)
    BY <1>1, <1>2, <1>5, <1>6, <1>7, <1>13, <2>1, FinishedPair DEF f
  <2> QED
    BY <1>4, <1>15, <2>2, <2>3
<1> QED
  BY <1>14, <1>15

LEMMA FlushReturnsPair ==
    ASSUME NEW p \in End, NEW s, Good(s), NEW r, Good(r), Pair(p, s, r)
    PROVE  Pair(p, flush_returns(s), r)
<1> DEFINE g(id) == IF s.streams[id].send_state \in SendDone
                    THEN [s.streams[id] EXCEPT !.pending_sends = <<>>]
                    ELSE s.streams[id]
           t == flush_returns(s)
<1> SUFFICES Pair(p, t, r)
  OBVIOUS
<1>1. s \in WtSessionInfo /\ r \in WtSessionInfo
  BY DEF Good
<1>2. t \in WtSessionInfo
  BY FlushReturnsGood DEF Good
<1>3. t.streams = [id \in StreamId |-> g(id)]
  BY <1>1 DEF flush_returns, WtSessionInfo
<1>4. Alike(s, t)
  BY <1>1 DEF flush_returns, WtSessionInfo, Alike
<1>5. /\ t.max_data_remote = s.max_data_remote
      /\ t.max_streams_remote = s.max_streams_remote
      /\ t.sent_stop_sending_stream_ids = s.sent_stop_sending_stream_ids
  BY <1>1 DEF flush_returns, WtSessionInfo
<1> HIDE DEF t
<1>6. ASSUME NEW id \in StreamId
      PROVE  SameEar(s.streams[id], t.streams[id]) /\ SpeaksOf(p, s, t, id)
  <2> DEFINE f == s.streams[id]
             h == t.streams[id]
  <2>1. h = g(id) /\ f \in WtStreamInfo
    BY <1>1, <1>3, SessionFields
  <2> HIDE DEF f, h
  <2>2. /\ h.bytes_sent = f.bytes_sent /\ h.send_state = f.send_state
        /\ h.recv_state = f.recv_state /\ h.bytes_received = f.bytes_received
        /\ h.max_stream_data_local = f.max_stream_data_local
        /\ h.stop_sending_received = f.stop_sending_received
        /\ h.max_stream_data_remote = f.max_stream_data_remote
        /\ h.pending_sends # <<>> => f.pending_sends # <<>>
    BY <2>1 DEF WtStreamInfo, f
  <2>3. f.max_stream_data_remote \in Nat
    BY <2>1, StreamFields
  <2>4. t.seen = s.seen
    BY <1>4 DEF Alike
  <2>5. SameEar(f, h)
    BY <2>2, <2>3 DEF SameEar
  <2>6. SpeaksOf(p, s, t, id)
    BY <2>2, <2>4 DEF SpeaksOf, f, h
  <2> QED
    BY <2>5, <2>6 DEF f, h
<1>7. Listens(s, t)
  BY <1>4, <1>6 DEF Listens, Alike
<1>8. \A d \in Dir : s.max_streams_local[d] <= t.max_streams_local[d]
  BY <1>1, <1>4, SessionFields DEF Alike
<1>9. Speaks(p, s, t)
  BY <1>4, <1>5, <1>6, <1>8 DEF Speaks, Alike
<1> QED
  BY <1>1, <1>2, <1>7, <1>9, KeepsPair

-----------------------------------------------------------------------------
(* New streams.                                                            *)

LEMMA BuildStreamId ==
    ASSUME NEW p \in End, NEW d \in Dir, NEW k \in Nat, k < MaxStreamCount,
           NEW id, id = build_stream_id(p, d, k)
    PROVE  /\ id \in StreamId /\ is_local(p, id) /\ DirOf(id) = d /\ id \div 4 = k
           /\ \A o \in StreamId : (is_local(p, o) /\ DirOf(o) = d /\ o \div 4 = k) => o = id
<1> DEFINE a == IF d = "uni" THEN 2 ELSE 0
           b == IF p = "server" THEN 1 ELSE 0
<1>1. a \in {0, 2} /\ b \in {0, 1} /\ (a = 2 <=> d = "uni") /\ (b = 1 <=> p = "server")
  OBVIOUS
<1>2. id = 4 * k + a + b
  BY DEF build_stream_id
<1> HIDE DEF a, b
<1>3. id \in StreamId
  BY <1>1, <1>2, BoundAssumption DEF StreamId
<1>4. id % 2 = b /\ id \div 4 = k
  BY <1>1, <1>2
<1>5. (id \div 2) % 2 = 1 <=> a = 2
  <2>1. id \div 2 = 2 * k + (IF a = 2 THEN 1 ELSE 0)
    BY <1>1, <1>2
  <2> QED
    BY <1>1, <2>1
<1>6. is_local(p, id)
  BY <1>1, <1>4 DEF is_local
<1>7. DirOf(id) = d
  BY <1>1, <1>5 DEF DirOf, is_unidirectional, Dir
<1>8. ASSUME NEW o \in StreamId, is_local(p, o), DirOf(o) = d, o \div 4 = k
      PROVE  o = id
  <2>1. o \in Nat
    BY <1>8, IdFacts
  <2>2. (o % 2 = 1) <=> (b = 1)
    BY <1>1, <1>8 DEF is_local
  <2>3. (o \div 2) % 2 = 1 <=> a = 2
    BY <1>1, <1>8 DEF DirOf, is_unidirectional
  <2>4. o = 4 * (o \div 4) + 2 * ((o \div 2) % 2) + (o % 2)
    BY <2>1
  <2>5. o % 2 \in {0, 1} /\ (o \div 2) % 2 \in {0, 1}
    BY <2>1
  <2>6. o % 2 = b /\ 2 * ((o \div 2) % 2) = a
    BY <1>1, <2>2, <2>3, <2>5
  <2> QED
    BY <1>1, <1>2, <1>8, <2>4, <2>6
<1> QED
  BY <1>3, <1>4, <1>6, <1>7, <1>8

(* What a new entry of the map leaves alone.                               *)
Made(p, s, t, id) ==
    /\ SameWhole(s, t) /\ t.streams_opened = s.streams_opened
    /\ t.ids = s.ids \cup {id}
    /\ t.released_stream_ids = s.released_stream_ids
    /\ \A o \in StreamId : o # id => t.streams[o] = s.streams[o]
    /\ t.streams[id] = [NoStream EXCEPT
           !.max_stream_data_local = initialize_stream_send_credit(s, p, id),
           !.max_stream_data_remote = Config[p].max_stream_data]

LEMMA NewStreamMade ==
    ASSUME NEW s \in WtSessionInfo, NEW p \in End, NEW id \in StreamId
    PROVE  Made(p, s, new_stream(s, p, id), id)
<1> DEFINE t == new_stream(s, p, id)
<1> DEFINE f == [NoStream EXCEPT
                    !.max_stream_data_local = initialize_stream_send_credit(s, p, id),
                    !.max_stream_data_remote = Config[p].max_stream_data]
<1>1. t = [s EXCEPT !.ids = @ \cup {id}, !.streams[id] = f]
  BY DEF new_stream
<1> SUFFICES Made(p, s, t, id)
  OBVIOUS
<1> HIDE DEF f, t
<1>2. SameWhole(s, t)
  BY <1>1 DEF SameWhole, WtSessionInfo
<1>3. /\ t.streams_opened = s.streams_opened
      /\ t.ids = s.ids \cup {id}
      /\ t.released_stream_ids = s.released_stream_ids
      /\ t.streams = [s.streams EXCEPT ![id] = f]
  BY <1>1 DEF WtSessionInfo
<1>4. t.streams[id] = f /\ \A o \in StreamId : o # id => t.streams[o] = s.streams[o]
  BY <1>3 DEF WtSessionInfo
<1> QED
  BY <1>2, <1>3, <1>4 DEF f, Made

LEMMA OpenStreamPair ==
    ASSUME NEW p \in End, NEW s, Good(s), NEW r, Good(r), Pair(p, s, r), NEW d \in Dir,
           s.streams_opened[d] < s.max_streams_local[d],
           s.streams_opened[d] < MaxStreamCount,
           NEW id, id = build_stream_id(p, d, s.streams_opened[d]), id \notin s.ids,
           NEW t, t = [new_stream(s, p, id) EXCEPT !.streams_opened[d] = @ + 1,
                                                   !.seen[id] = "live"]
    PROVE  Pair(p, t, r)
<1> DEFINE k == s.streams_opened[d]
           u == new_stream(s, p, id)
<1>1. s \in WtSessionInfo /\ r \in WtSessionInfo /\ k \in Nat
  BY SessionFields DEF Good
<1>2. /\ id \in StreamId /\ is_local(p, id) /\ DirOf(id) = d /\ id \div 4 = k
      /\ \A o \in StreamId : (is_local(p, o) /\ DirOf(o) = d /\ o \div 4 = k) => o = id
  BY <1>1, BuildStreamId
<1>m. Made(p, s, u, id)
  BY <1>1, <1>2, NewStreamMade
<1>4. u \in WtSessionInfo
  BY <1>2, NewStreamGood DEF Good
<1>u. t = [u EXCEPT !.streams_opened[d] = @ + 1, !.seen[id] = "live"]
  OBVIOUS
<1> HIDE DEF u
<1>3. /\ SameWhole(s, u) /\ u.streams_opened = s.streams_opened
      /\ u.ids = s.ids \cup {id}
      /\ u.released_stream_ids = s.released_stream_ids
      /\ \A o \in StreamId : o # id => u.streams[o] = s.streams[o]
      /\ u.streams[id] = [NoStream EXCEPT
             !.max_stream_data_local = initialize_stream_send_credit(s, p, id),
             !.max_stream_data_remote = Config[p].max_stream_data]
  BY <1>m DEF Made
<1>5. ~Opened(s, id)
  BY <1>1, <1>2 DEF Opened
<1>6. s.seen[id] = "live"
  BY <1>2, <1>5 DEF Pair, One, Parts, Entry
<1>7. /\ t.ids = u.ids /\ t.streams = u.streams
      /\ t.released_stream_ids = u.released_stream_ids
      /\ t.streams_opened = [u.streams_opened EXCEPT ![d] = @ + 1]
      /\ t.max_streams_local = u.max_streams_local
  BY <1>u, <1>4 DEF WtSessionInfo
<1>8. t.seen = s.seen
  <2>1. t.seen = [s.seen EXCEPT ![id] = "live"]
    <3>1. t.seen = [u.seen EXCEPT ![id] = "live"]
      BY <1>u, <1>4 DEF WtSessionInfo
    <3> QED
      BY <1>3, <3>1 DEF SameWhole
  <2>2. s.seen \in [StreamId -> SeenState]
    BY <1>1 DEF WtSessionInfo
  <2> QED
    BY <1>2, <1>6, <2>1, <2>2
<1>9. SameWhole(s, t)
  <2>1. /\ t.out = u.out /\ t.status = u.status /\ t.reason = u.reason
        /\ t.bytes_sent = u.bytes_sent /\ t.bytes_received = u.bytes_received
        /\ t.max_data_local = u.max_data_local
        /\ t.received_max_data = u.received_max_data
        /\ t.max_data_remote = u.max_data_remote
        /\ t.received_max_streams = u.received_max_streams
        /\ t.max_streams_remote = u.max_streams_remote
        /\ t.received_max_stream_data_by_id = u.received_max_stream_data_by_id
        /\ t.received_stop_sending_stream_ids = u.received_stop_sending_stream_ids
        /\ t.sent_stop_sending_stream_ids = u.sent_stop_sending_stream_ids
    BY <1>u, <1>4 DEF WtSessionInfo
  <2> QED
    BY <1>3, <1>7, <1>8, <2>1 DEF SameWhole
<1>10. /\ t.streams_opened[d] = k + 1
       /\ \A x \in Dir : x # d => t.streams_opened[x] = s.streams_opened[x]
  <2>1. s.streams_opened \in [Dir -> Nat]
    BY <1>1 DEF WtSessionInfo
  <2> QED
    BY <1>3, <1>7, <2>1
<1>11. \A x \in Dir : t.streams_opened[x] <= t.max_streams_local[x]
  <2>1. \A x \in Dir : /\ s.streams_opened[x] <= s.max_streams_local[x]
                       /\ s.max_streams_local[x] \in Nat
    BY <1>1, SessionFields DEF Pair, One, Whole, CountLimit
  <2>2. t.max_streams_local = s.max_streams_local
    BY <1>9 DEF SameWhole
  <2> QED
    BY <1>1, <1>10, <2>1, <2>2
<1>12. ASSUME NEW o \in StreamId PROVE Opened(s, o) => Opened(t, o)
  <2>1. DirOf(o) \in Dir /\ o \div 4 \in Nat
    BY IdFacts
  <2> QED
    BY <1>1, <1>10, <2>1 DEF Opened
<1>13. Opened(t, id)
  BY <1>1, <1>2, <1>10 DEF Opened
<1>14. ASSUME NEW o \in StreamId, o # id, is_local(p, o), Opened(t, o)
       PROVE  Opened(s, o)
  <2>1. DirOf(o) \in Dir /\ o \div 4 \in Nat
    BY IdFacts
  <2>2. CASE DirOf(o) = d
    <3>1. o \div 4 # k
      BY <1>2, <1>14, <2>2
    <3> QED
      BY <1>1, <1>10, <1>14, <2>1, <2>2, <3>1 DEF Opened
  <2>3. CASE DirOf(o) # d
    BY <1>10, <1>14, <2>1, <2>3 DEF Opened
  <2> QED
    BY <2>2, <2>3
<1>15. Makes(p, s, t, r, id)
  BY <1>2, <1>3, <1>5, <1>6, <1>7, <1>9, <1>11, <1>12, <1>13, <1>14 DEF Makes
<1> QED
  BY <1>1, <1>2, <1>15, MakesPair

(* A data capsule of a stream without an entry is of a stream the peer has *)
(* opened.                                                                 *)
LEMMA NonePresent ==
    ASSUME NEW q \in Seq(Capsule), q # <<>>, NEW K, Head(q) \in K
    PROVE  ~None(q, K)
BY TailFacts DEF None

LEMMA KnownPair ==
    ASSUME NEW p \in End, NEW s, Good(s), NEW r, Good(r), Pair(p, s, r),
           s.status = "open", r.out # <<>>, NEW c, c = Head(r.out),
           c \in DataOf(c.id), is_receivable_data_capsule(p, c.id)
    PROVE  /\ Pair(p, Known(s, p, c), r)
           /\ s.seen[c.id] = "live"
           /\ Known(s, p, c).seen = s.seen
           /\ Known(s, p, c).status = "open"
           /\ c \in Capsule
<1> DEFINE id == c.id
           e == Peer(p)
           t == new_stream(s, p, id)
<1>1. s \in WtSessionInfo /\ r \in WtSessionInfo /\ r.out \in Seq(Capsule)
  BY SessionFields DEF Good
<1>2. c \in Capsule /\ id \in StreamId
  <2>1. c \in Capsule
    BY <1>1
  <2> QED
    BY <2>1 DEF Capsule
<1>3. e \in End /\ Peer(e) = p /\ (is_local(e, id) <=> ~is_local(p, id))
  BY <1>2, PeerPeer, Directions
<1>4. ~None(r.out, DataOf(id)) /\ ~None(r.out, AboutOf(id))
  <2>1. c \in AboutOf(id)
    BY Kinds
  <2> QED
    BY <1>1, <2>1, NonePresent
<1>5. /\ Entry(p, s, id) /\ Born(e, r, s, id) /\ Way(e, r, s, id)
  BY <1>2, <1>3, OneParts DEF Pair
<1> HIDE DEF e
<1>6. s.seen[id] = "live"
  BY <1>4, <1>5 DEF Way
<1>7. CASE id \in s.ids
  BY <1>2, <1>6, <1>7 DEF Known
<1>8. CASE id \notin s.ids
  <2>1. ~is_local(p, id)
    <3>1. is_local(p, id) => ~is_unidirectional(id)
      BY DEF is_receivable_data_capsule
    <3>2. is_local(p, id) => Opened(s, id)
      BY <1>3, <1>4, <1>5 DEF Born
    <3> QED
      BY <1>5, <1>6, <1>8, <3>1, <3>2 DEF Entry
  <2>2. Opened(r, id)
    BY <1>3, <1>4, <1>5, <2>1 DEF Born
  <2>3. /\ SameWhole(s, t) /\ t.streams_opened = s.streams_opened
        /\ t.ids = s.ids \cup {id}
        /\ t.released_stream_ids = s.released_stream_ids
        /\ \A o \in StreamId : o # id => t.streams[o] = s.streams[o]
        /\ t.streams[id] = [NoStream EXCEPT
               !.max_stream_data_local = initialize_stream_send_credit(s, p, id),
               !.max_stream_data_remote = Config[p].max_stream_data]
    <3>1. Made(p, s, t, id)
      BY <1>1, <1>2, NewStreamMade
    <3> QED
      BY <3>1 DEF Made
  <2> HIDE DEF t
  <2>4. \A d \in Dir : t.streams_opened[d] <= t.max_streams_local[d]
    BY <2>3 DEF Pair, One, Whole, CountLimit, SameWhole
  <2>5. \A o \in StreamId : Opened(s, o) <=> Opened(t, o)
    BY <2>3 DEF Opened
  <2>6. Makes(p, s, t, r, id)
    BY <1>6, <1>8, <2>1, <2>2, <2>3, <2>4, <2>5 DEF Makes
  <2>7. Pair(p, t, r)
    BY <1>1, <1>2, <2>6, MakesPair
  <2>8. Known(s, p, c) = t
    BY <1>8 DEF Known, t
  <2> QED
    BY <1>2, <1>6, <2>3, <2>7, <2>8 DEF SameWhole
<1> QED
  BY <1>7, <1>8

-----------------------------------------------------------------------------
(* Data and its end arrive.                                                *)

(* t has taken n more bytes of one stream, and perhaps its end.            *)
TakesOf(f, g, n) ==
    /\ g.bytes_received = f.bytes_received + n
    /\ g.bytes_sent = f.bytes_sent
    /\ g.send_state = f.send_state
    /\ g.recv_state = f.recv_state
    /\ g.max_stream_data_local = f.max_stream_data_local
    /\ g.max_stream_data_remote = f.max_stream_data_remote
    /\ g.pending_sends = f.pending_sends
    /\ g.stop_sending_received = f.stop_sending_received

Takes(s, t, id, n) ==
    /\ t.out = s.out
    /\ t.status = s.status
    /\ t.reason = s.reason
    /\ t.bytes_sent = s.bytes_sent
    /\ t.bytes_received = s.bytes_received + n
    /\ t.max_data_local = s.max_data_local
    /\ t.received_max_data = s.received_max_data
    /\ t.max_data_remote = s.max_data_remote
    /\ t.streams_opened = s.streams_opened
    /\ t.max_streams_local = s.max_streams_local
    /\ t.received_max_streams = s.received_max_streams
    /\ t.max_streams_remote = s.max_streams_remote
    /\ t.ids = s.ids
    /\ t.released_stream_ids = s.released_stream_ids
    /\ t.received_max_stream_data_by_id = s.received_max_stream_data_by_id
    /\ t.received_stop_sending_stream_ids = s.received_stop_sending_stream_ids
    /\ t.sent_stop_sending_stream_ids = s.sent_stop_sending_stream_ids
    /\ \A o \in StreamId : o # id => t.streams[o] = s.streams[o] /\ t.seen[o] = s.seen[o]
    /\ TakesOf(s.streams[id], t.streams[id], n)

LEMMA PoppedGood ==
    ASSUME NEW r, Good(r), r.out # <<>>
    PROVE  Good(Popped(r))
<1>1. r.out \in Seq(Capsule) /\ Tail(r.out) \in Seq(Capsule)
  BY GoodFields, TailFacts
<1> QED
  BY <1>1, SetOut DEF Popped

LEMMA PushTakes ==
    ASSUME NEW s \in WtSessionInfo, NEW id \in StreamId, NEW n,
           NEW reset \in BOOLEAN, NEW fin \in BOOLEAN
    PROVE  Takes(s, push_event(s, id, n, reset, fin), id, 0)
<1> DEFINE t == push_event(s, id, n, reset, fin)
<1>1. /\ \A o \in StreamId : o # id => t.streams[o] = s.streams[o] /\ t.seen[o] = s.seen[o]
      /\ t.streams = s.streams
  BY PushEventTells DEF Tells
<1>2. /\ t.out = s.out /\ t.status = s.status /\ t.reason = s.reason
      /\ t.bytes_sent = s.bytes_sent /\ t.bytes_received = s.bytes_received
      /\ t.max_data_local = s.max_data_local
      /\ t.received_max_data = s.received_max_data
      /\ t.max_data_remote = s.max_data_remote
  BY DEF push_event, WtSessionInfo
<1>3. /\ t.streams_opened = s.streams_opened
      /\ t.max_streams_local = s.max_streams_local
      /\ t.received_max_streams = s.received_max_streams
      /\ t.max_streams_remote = s.max_streams_remote
      /\ t.ids = s.ids
      /\ t.released_stream_ids = s.released_stream_ids
      /\ t.received_max_stream_data_by_id = s.received_max_stream_data_by_id
      /\ t.received_stop_sending_stream_ids = s.received_stop_sending_stream_ids
      /\ t.sent_stop_sending_stream_ids = s.sent_stop_sending_stream_ids
  BY DEF push_event, WtSessionInfo
<1>4. /\ s.bytes_received \in Nat /\ s.streams[id].bytes_received \in Nat
  BY SessionFields, StreamFields
<1> SUFFICES Takes(s, t, id, 0)
  OBVIOUS
<1> HIDE DEF t
<1>5. TakesOf(s.streams[id], t.streams[id], 0)
  BY <1>1, <1>4 DEF TakesOf
<1> QED
  BY <1>1, <1>2, <1>3, <1>4, <1>5 DEF Takes

(* bytes_received of the session and of the stream.                        *)
Counted(s, id, n) == [s EXCEPT !.bytes_received = @ + n,
                               !.streams[id].bytes_received = @ + n]

LEMMA CountTakes ==
    ASSUME NEW s \in WtSessionInfo, NEW u \in WtSessionInfo, NEW id \in StreamId,
           NEW n \in Nat, Takes(s, u, id, 0)
    PROVE  /\ Takes(s, Counted(u, id, n), id, n)
           /\ Counted(u, id, n).seen = u.seen
<1> DEFINE t == Counted(u, id, n)
           f == u.streams[id]
           g == [f EXCEPT !.bytes_received = @ + n]
<1>1. t.streams = [u.streams EXCEPT ![id] = g] /\ t.bytes_received = u.bytes_received + n
  BY DEF Counted, WtSessionInfo
<1>2. /\ t.out = u.out /\ t.status = u.status /\ t.reason = u.reason
      /\ t.bytes_sent = u.bytes_sent
      /\ t.max_data_local = u.max_data_local
      /\ t.received_max_data = u.received_max_data
      /\ t.max_data_remote = u.max_data_remote
      /\ t.seen = u.seen
  BY DEF Counted, WtSessionInfo
<1>3. /\ t.streams_opened = u.streams_opened
      /\ t.max_streams_local = u.max_streams_local
      /\ t.received_max_streams = u.received_max_streams
      /\ t.max_streams_remote = u.max_streams_remote
      /\ t.ids = u.ids
      /\ t.released_stream_ids = u.released_stream_ids
      /\ t.received_max_stream_data_by_id = u.received_max_stream_data_by_id
      /\ t.received_stop_sending_stream_ids = u.received_stop_sending_stream_ids
      /\ t.sent_stop_sending_stream_ids = u.sent_stop_sending_stream_ids
  BY DEF Counted, WtSessionInfo
<1>4. /\ s.bytes_received \in Nat /\ s.streams[id].bytes_received \in Nat
      /\ f \in WtStreamInfo
  BY SessionFields, StreamFields
<1> SUFFICES Takes(s, t, id, n) /\ t.seen = u.seen
  OBVIOUS
<1> HIDE DEF t
<1>5. t.streams[id] = g /\ \A o \in StreamId : o # id => t.streams[o] = u.streams[o]
  BY <1>1 DEF WtSessionInfo
<1>f. TakesOf(s.streams[id], f, 0)
  BY DEF Takes
<1> HIDE DEF f
<1>6. TakesOf(s.streams[id], g, n)
  BY <1>4, <1>f DEF TakesOf, WtStreamInfo
<1> HIDE DEF g
<1>7. t.bytes_received = s.bytes_received + n
  BY <1>1, <1>4 DEF Takes
<1> QED
  BY <1>2, <1>3, <1>5, <1>6, <1>7 DEF Takes

LEMMA TakesPair ==
    ASSUME NEW p \in End, NEW s, Good(s), NEW t, Good(t), NEW r, Good(r), Pair(p, s, r),
           s.status = "open", r.out # <<>>, NEW c, c = Head(r.out),
           NEW id \in s.ids, c.id = id, c \in DataOf(id),
           Takes(s, t, id, Size(c, Carriers)), s.seen[id] = "live",
           t.seen[id] = IF c \in EndsOf(id) THEN "ended" ELSE "live"
    PROVE  Pair(p, t, Popped(r))
<1>1. s \in WtSessionInfo /\ t \in WtSessionInfo /\ r \in WtSessionInfo /\ id \in StreamId
  BY GoodFields
<1>2. c \in Capsule
  BY <1>1, SessionFields, TailFacts
<1>3. /\ \A o \in StreamId : o # id => c \notin CarriersOf(o)
      /\ Size(c, CarriersOf(id)) = Size(c, Carriers)
  BY <1>2, KindsOf DEF Size
<1>4. ASSUME NEW o \in StreamId, o # id
      PROVE  HearsOf(p, s, t, c, o) /\ SpeaksOf(p, s, t, o)
  <2>1. t.streams[o] = s.streams[o] /\ t.seen[o] = s.seen[o] /\ t.ids = s.ids
    BY <1>4 DEF Takes
  <2>2. previous_max_stream_data(t, p, o) = previous_max_stream_data(s, p, o)
    BY <2>1 DEF previous_max_stream_data, Takes
  <2>3. has_received_stop_sending(t, o) => has_received_stop_sending(s, o)
    BY <2>1 DEF has_received_stop_sending, Takes
  <2>4. Size(c, CarriersOf(o)) = 0 /\ s.streams[o].bytes_received \in Nat
    BY <1>1, <1>3, <1>4, SessionFields, StreamFields DEF Size
  <2>5. HearsOf(p, s, t, c, o)
    BY <2>1, <2>2, <2>3, <2>4 DEF HearsOf
  <2>6. SpeaksOf(p, s, t, o)
    BY <2>1 DEF SpeaksOf
  <2> QED
    BY <2>5, <2>6
<1>5. HearsOf(p, s, t, c, id) /\ SpeaksOf(p, s, t, id)
  <2>1. TakesOf(s.streams[id], t.streams[id], Size(c, CarriersOf(id))) /\ t.ids = s.ids
    BY <1>3 DEF Takes
  <2>2. previous_max_stream_data(t, p, id) = previous_max_stream_data(s, p, id)
    BY <2>1 DEF previous_max_stream_data, Takes, TakesOf
  <2>3. has_received_stop_sending(t, id) => has_received_stop_sending(s, id)
    BY <2>1 DEF has_received_stop_sending, Takes, TakesOf
  <2>4. HearsOf(p, s, t, c, id)
    BY <2>1, <2>2, <2>3 DEF HearsOf, TakesOf
  <2>5. SpeaksOf(p, s, t, id)
    BY <2>1 DEF SpeaksOf, TakesOf
  <2> QED
    BY <2>4, <2>5
<1>6. Hears(p, s, t, c)
  BY <1>4, <1>5 DEF Hears, Takes
<1>7. \A d \in Dir : s.max_streams_local[d] <= t.max_streams_local[d]
  BY <1>1, SessionFields DEF Takes
<1>8. Speaks(p, s, t)
  BY <1>4, <1>5, <1>7 DEF Speaks, Takes
<1>9. One(p, t, r) /\ One(Peer(p), r, s)
  BY <1>1, <1>8, SpeaksOne DEF Pair
<1> QED
  BY <1>1, <1>6, <1>9, HearsPair

(* The receiving side of a stream is finished once its end was told.       *)
LEMMA EndedPair ==
    ASSUME NEW p \in End, NEW s, Good(s), NEW r, Good(r), Pair(p, s, r),
           NEW id \in s.ids, s.seen[id] # "live", NEW state \in RecvState
    PROVE  /\ Pair(p, recv_ended(s, id, state), r)
           /\ Good(recv_ended(s, id, state))
           /\ recv_ended(s, id, state).status = s.status
<1> DEFINE t == recv_ended(s, id, state)
           f == s.streams[id]
           g == [f EXCEPT !.recv_state = state]
<1>1. s \in WtSessionInfo /\ r \in WtSessionInfo /\ id \in StreamId /\ f \in WtStreamInfo
  BY GoodFields
<1>2. Good(t)
  BY SetRecvState DEF recv_ended
<1>3. t.status = s.status
  BY <1>1 DEF recv_ended, WtSessionInfo
<1>4. t = [s EXCEPT !.streams[id] = g]
  BY DEF recv_ended
<1> HIDE DEF t, f
<1>5. /\ SameEar(f, g) /\ g.bytes_sent = f.bytes_sent /\ g.send_state = f.send_state
      /\ g.max_stream_data_remote = f.max_stream_data_remote
      /\ g.pending_sends = f.pending_sends
  BY <1>1, StreamFields DEF SameEar, WtStreamInfo
<1> HIDE DEF g
<1>6. Touches(s, t, id, g)
  BY <1>1, <1>4, TouchesExcept
<1>7. Pair(p, t, r)
  BY <1>1, <1>2, <1>5, <1>6, TouchesPair DEF f
<1> QED
  BY <1>2, <1>3, <1>7 DEF t

LEMMA HandleWtStreamPair ==
    ASSUME NEW p \in End, NEW s, Good(s), NEW r, Good(r), Pair(p, s, r),
           s.status = "open", r.out # <<>>, NEW c, c = Head(r.out),
           c.type \in StreamCapsules, wt_stream_verdict(s, p, c) = "accept"
    PROVE  Pair(p, handle_wt_stream(s, p, c), Popped(r))
<1> DEFINE id    == c.id
           fin   == c.type = "WT_STREAM_FIN"
           known == Known(s, p, c)
           told  == push_event(known, id, c.len, FALSE, fin)
           count == Counted(told, id, c.len)
           data  == maybe_send_max_data(count, p)
           grant == maybe_send_max_stream_data(data, p, id)
           done  == recv_ended(grant, id, "DataRecvd")
           q     == Popped(r)
<1>1. c \in Capsule /\ id \in StreamId /\ c.len \in Nat
  <2>1. c \in Capsule
    BY GoodFields, TailFacts
  <2> QED
    BY <2>1 DEF Capsule
<1>2. handle_wt_stream(s, p, c) = IF fin THEN maybe_release_stream(done, p, id) ELSE grant
  BY DEF handle_wt_stream, Known, Counted, recv_ended
<1>3. /\ c \in DataOf(id) /\ Size(c, Carriers) = c.len
      /\ c \in EndsOf(id) <=> fin
  BY <1>1, KindsOf DEF DataOf, Size, StreamCapsules
<1>4. is_receivable_data_capsule(p, id)
  BY StreamAccepted
<1>5. /\ Good(known) /\ id \in known.ids /\ known \in WtSessionInfo
      /\ known.bytes_received + c.len <= known.max_data_remote
      /\ known.streams[id].bytes_received + c.len
             <= known.streams[id].max_stream_data_remote
  BY <1>1, KnownGood, AcceptFits, GoodFields
<1>6. /\ Pair(p, known, r) /\ known.seen[id] = "live" /\ known.status = "open"
  BY <1>1, <1>3, <1>4, KnownPair
<1>7. fin \in BOOLEAN
  OBVIOUS
<1>8. Good(q)
  BY PoppedGood
<1> HIDE DEF known, fin, id, q
<1>9. /\ Good(told) /\ id \in told.ids /\ told \in WtSessionInfo
      /\ told.bytes_received + c.len <= told.max_data_remote
      /\ told.streams[id].bytes_received + c.len
             <= told.streams[id].max_stream_data_remote
  <2>1. Good(told)
    BY <1>1, <1>5, <1>7, PushEventGood
  <2>2. /\ told.ids = known.ids /\ told.streams = known.streams
        /\ told.bytes_received = known.bytes_received
        /\ told.max_data_remote = known.max_data_remote
    BY <1>1, <1>5, <1>7, PushEventGood, ZenonT(60)
  <2> HIDE DEF told
  <2> QED
    BY <1>5, <2>1, <2>2, GoodFields
<1>10. Takes(known, told, id, 0)
  BY <1>1, <1>5, <1>7, PushTakes
<1>11. told.seen[id] = IF fin THEN "ended" ELSE "live"
  <2>1. told.seen[id] = seen_after(known.seen[id], c.len, FALSE, fin)
    BY <1>1, <1>5, <1>7, PushEventTells
  <2> QED
    BY <1>6, <2>1 DEF seen_after
<1> HIDE DEF told
<1>12. Good(count) /\ id \in count.ids
  BY <1>1, <1>9, CountGood, ZenonT(60) DEF Counted
<1>13. Takes(known, count, id, c.len) /\ count.seen = told.seen
  BY <1>1, <1>5, <1>9, <1>10, CountTakes
<1> HIDE DEF count
<1>14. Pair(p, count, q) /\ count.status = "open"
  <2>1. count.seen[id] = IF c \in EndsOf(id) THEN "ended" ELSE "live"
    BY <1>3, <1>11, <1>13
  <2>2. Pair(p, count, Popped(r))
    BY <1>3, <1>5, <1>6, <1>12, <1>13, <2>1, TakesPair DEF id
  <2> QED
    BY <1>6, <1>13, <2>2 DEF Takes, q
<1>15. /\ Good(data) /\ id \in data.ids /\ data \in WtSessionInfo
       /\ data.status = "open" /\ data.seen = count.seen
  <2>1. count \in WtSessionInfo
    BY <1>12, GoodFields
  <2>2. Good(data)
    BY <1>12, MaxDataGood
  <2> QED
    BY <1>12, <1>14, <2>1, <2>2, MaxDataKept, GoodFields DEF Kept
<1>16. Pair(p, data, q)
  BY <1>8, <1>12, <1>14, MaxDataPair
<1> HIDE DEF data
<1>17. /\ Good(grant) /\ id \in grant.ids
       /\ grant.status = "open" /\ grant.seen = count.seen
  <2>1. Good(grant)
    BY <1>15, MaxStreamDataGood
  <2>2. Only(data, grant, id)
    BY <1>1, <1>15, MaxStreamDataOnly
  <2> QED
    BY <1>15, <2>1, <2>2 DEF Only, Kept
<1>18. Pair(p, grant, q)
  BY <1>4, <1>8, <1>15, <1>16, MaxStreamDataPair DEF id
<1> HIDE DEF grant
<1>19. CASE ~fin
  BY <1>2, <1>18, <1>19 DEF q
<1>20. CASE fin
  <2>1. grant.seen[id] # "live"
    BY <1>11, <1>13, <1>17, <1>20
  <2>2. Pair(p, done, q) /\ Good(done) /\ done.status = "open"
    BY <1>8, <1>17, <1>18, <2>1, EndedPair DEF RecvState
  <2> HIDE DEF done
  <2>3. Pair(p, maybe_release_stream(done, p, id), q)
    BY <1>1, <1>8, <2>2, ReleasePair
  <2> QED
    BY <1>2, <1>20, <2>3 DEF q
<1> QED
  BY <1>19, <1>20

LEMMA HandleWtResetStreamPair ==
    ASSUME NEW p \in End, NEW s, Good(s), NEW r, Good(r), Pair(p, s, r),
           s.status = "open", r.out # <<>>, NEW c, c = Head(r.out),
           c.type = "WT_RESET_STREAM", wt_reset_stream_verdict(s, p, c) = "accept"
    PROVE  Pair(p, handle_wt_reset_stream(s, p, c), Popped(r))
<1> DEFINE id    == c.id
           known == Known(s, p, c)
           told  == push_event(known, id, 0, TRUE, FALSE)
           done  == recv_ended(told, id, "ResetRecvd")
           q     == Popped(r)
<1>1. c \in Capsule /\ id \in StreamId
  <2>1. c \in Capsule
    BY GoodFields, TailFacts
  <2> QED
    BY <2>1 DEF Capsule
<1>2. handle_wt_reset_stream(s, p, c) = maybe_release_stream(done, p, id)
  BY DEF handle_wt_reset_stream, Known, recv_ended
<1>3. c \in DataOf(id) /\ Size(c, Carriers) = 0 /\ c \in EndsOf(id)
  BY <1>1, KindsOf DEF DataOf, EndsOf, Size, StreamCapsules
<1>4. is_receivable_data_capsule(p, id)
  BY <1>1, ResetAccepted
<1>5. Good(known) /\ id \in known.ids /\ known \in WtSessionInfo
  BY <1>1, KnownGood, GoodFields
<1>6. Pair(p, known, r) /\ known.seen[id] = "live" /\ known.status = "open"
  BY <1>1, <1>3, <1>4, KnownPair
<1>7. Good(q)
  BY PoppedGood
<1> HIDE DEF known, id, q
<1>8. Good(told) /\ id \in told.ids
  BY <1>1, <1>5, PushEventGood, ZenonT(60)
<1>9. Takes(known, told, id, 0)
  BY <1>1, <1>5, PushTakes
<1>10. told.seen[id] = "ended"
  <2>1. told.seen[id] = seen_after(known.seen[id], 0, TRUE, FALSE)
    BY <1>1, <1>5, PushEventTells
  <2> QED
    BY <1>6, <2>1 DEF seen_after
<1> HIDE DEF told
<1>11. Pair(p, told, q) /\ told.status = "open"
  <2>1. Pair(p, told, Popped(r))
    BY <1>3, <1>5, <1>6, <1>8, <1>9, <1>10, TakesPair DEF id
  <2> QED
    BY <1>6, <1>9, <2>1 DEF Takes, q
<1>12. Pair(p, done, q) /\ Good(done) /\ done.status = "open"
  BY <1>7, <1>8, <1>10, <1>11, EndedPair DEF RecvState
<1> HIDE DEF done
<1>13. Pair(p, maybe_release_stream(done, p, id), q)
  BY <1>1, <1>7, <1>12, ReleasePair
<1> QED
  BY <1>2, <1>13 DEF q

-----------------------------------------------------------------------------
(* Limits and requests to stop arrive.                                     *)

NoticesOf(p, s, t, c, id) ==
    LET f == s.streams[id]
        g == t.streams[id]
        n == previous_max_stream_data(t, p, id)
    IN  /\ g.bytes_received = f.bytes_received
        /\ g.bytes_sent = f.bytes_sent
        /\ g.send_state = f.send_state
        /\ g.recv_state = f.recv_state
        /\ g.max_stream_data_remote = f.max_stream_data_remote
        /\ g.pending_sends = f.pending_sends
        /\ n = previous_max_stream_data(s, p, id) \/ (c \in RaisesOf(id) /\ n = c.val)
        /\ \/ g.max_stream_data_local = f.max_stream_data_local
           \/ c \in RaisesOf(id) /\ g.max_stream_data_local = c.val
        /\ has_received_stop_sending(t, id) =>
              has_received_stop_sending(s, id) \/ c \in StopsOf(id)

(* t is s but for what the capsules of the peer tell it about limits.      *)
Steady(s, t) ==
    /\ t.out = s.out
    /\ t.status = s.status
    /\ t.reason = s.reason
    /\ t.bytes_sent = s.bytes_sent
    /\ t.bytes_received = s.bytes_received
    /\ t.max_data_remote = s.max_data_remote
    /\ t.streams_opened = s.streams_opened
    /\ t.max_streams_remote = s.max_streams_remote
    /\ t.ids = s.ids
    /\ t.seen = s.seen
    /\ t.released_stream_ids = s.released_stream_ids
    /\ t.sent_stop_sending_stream_ids = s.sent_stop_sending_stream_ids

Notices(p, s, t, c) ==
    /\ Steady(s, t)
    /\ \/ t.received_max_data = s.received_max_data
       \/ c \in MaxDatas /\ t.received_max_data = c.val
    /\ \/ t.max_data_local = s.max_data_local
       \/ c \in MaxDatas /\ t.max_data_local = c.val
    /\ \A d \in Dir :
          /\ \/ t.received_max_streams[d] = s.received_max_streams[d]
             \/ c \in MaxStreamsOf(d) /\ t.received_max_streams[d] = c.val
          /\ \/ t.max_streams_local[d] = s.max_streams_local[d]
             \/ c \in MaxStreamsOf(d) /\ t.max_streams_local[d] = c.val
          /\ s.max_streams_local[d] <= t.max_streams_local[d]
    /\ \A id \in StreamId : NoticesOf(p, s, t, c, id)

LEMMA NoticesPair ==
    ASSUME NEW p \in End, NEW s, Good(s), NEW t, Good(t), NEW r, Good(r), Pair(p, s, r),
           r.out # <<>>, NEW c, c = Head(r.out),
           s.status = "open" => Size(c, Carriers) = 0, Notices(p, s, t, c)
    PROVE  Pair(p, t, Popped(r))
<1>1. s \in WtSessionInfo /\ t \in WtSessionInfo /\ r \in WtSessionInfo
  BY GoodFields
<1>2. c \in Capsule
  BY <1>1, SessionFields, TailFacts
<1>3. ASSUME NEW id \in StreamId
      PROVE  HearsOf(p, s, t, c, id) /\ SpeaksOf(p, s, t, id)
  <2>1. NoticesOf(p, s, t, c, id) /\ t.seen = s.seen /\ t.ids = s.ids /\ t.status = s.status
    BY DEF Notices, Steady
  <2>2. s.streams[id].bytes_received \in Nat
    BY <1>1, SessionFields, StreamFields
  <2>3. s.status = "open" => Size(c, CarriersOf(id)) = 0
    BY <1>2, KindsOf DEF Size
  <2>4. HearsOf(p, s, t, c, id)
    BY <2>1, <2>2, <2>3 DEF HearsOf, NoticesOf
  <2>5. SpeaksOf(p, s, t, id)
    BY <2>1 DEF SpeaksOf, NoticesOf
  <2> QED
    BY <2>4, <2>5
<1>4. Hears(p, s, t, c)
  <2>1. s.bytes_received \in Nat
    BY <1>1, SessionFields
  <2> QED
    BY <1>3, <2>1 DEF Hears, Notices, Steady
<1>5. Speaks(p, s, t)
  BY <1>3 DEF Speaks, Notices, Steady
<1>6. One(p, t, r) /\ One(Peer(p), r, s)
  BY <1>1, <1>5, SpeaksOne DEF Pair
<1> QED
  BY <1>1, <1>4, <1>6, HearsPair

(* What is said of no stream.                                              *)
LEMMA NoticesNoStream ==
    ASSUME NEW p, NEW s, NEW t, NEW c, t.ids = s.ids, t.streams = s.streams,
           t.received_max_stream_data_by_id = s.received_max_stream_data_by_id,
           t.received_stop_sending_stream_ids = s.received_stop_sending_stream_ids,
           NEW id
    PROVE  NoticesOf(p, s, t, c, id)
<1>1. previous_max_stream_data(t, p, id) = previous_max_stream_data(s, p, id)
  BY DEF previous_max_stream_data
<1>2. has_received_stop_sending(t, id) => has_received_stop_sending(s, id)
  BY DEF has_received_stop_sending
<1> QED
  BY <1>1, <1>2 DEF NoticesOf

(* A capsule that changes nothing.                                         *)
LEMMA IgnoredPair ==
    ASSUME NEW p \in End, NEW s, Good(s), NEW r, Good(r), Pair(p, s, r),
           r.out # <<>>, NEW c, c = Head(r.out), s.status = "open" => Size(c, Carriers) = 0
    PROVE  Pair(p, s, Popped(r))
<1>1. \A id \in StreamId : NoticesOf(p, s, s, c, id)
  BY NoticesNoStream
<1>2. \A d \in Dir : s.max_streams_local[d] <= s.max_streams_local[d]
  BY SessionFields DEF Good
<1>3. Notices(p, s, s, c)
  BY <1>1, <1>2 DEF Notices, Steady
<1> QED
  BY <1>3, NoticesPair

LEMMA HandleWtMaxDataPair ==
    ASSUME NEW p \in End, NEW s, Good(s), NEW r, Good(r), Pair(p, s, r),
           r.out # <<>>, NEW c, c = Head(r.out), c.type = "WT_MAX_DATA"
    PROVE  Pair(p, handle_wt_max_data(s, c), Popped(r))
<1> DEFINE t == handle_wt_max_data(s, c)
<1>1. c \in Capsule /\ s \in WtSessionInfo
  BY GoodFields, TailFacts
<1>2. c \in MaxDatas /\ Size(c, Carriers) = 0
  BY <1>1, KindsOf DEF Size, StreamCapsules
<1>3. Good(t)
  BY <1>1, HandleWtMaxDataGood
<1>4. Steady(s, t)
  BY <1>1 DEF Steady, handle_wt_max_data, WtSessionInfo
<1>5. /\ t.streams = s.streams /\ t.max_streams_local = s.max_streams_local
      /\ t.received_max_streams = s.received_max_streams
      /\ t.received_max_stream_data_by_id = s.received_max_stream_data_by_id
      /\ t.received_stop_sending_stream_ids = s.received_stop_sending_stream_ids
      /\ t.received_max_data = c.val
      /\ t.max_data_local = s.max_data_local \/ t.max_data_local = c.val
  BY <1>1 DEF handle_wt_max_data, WtSessionInfo
<1> SUFFICES Pair(p, t, Popped(r))
  OBVIOUS
<1> HIDE DEF t
<1>6. \A id \in StreamId : NoticesOf(p, s, t, c, id)
  BY <1>4, <1>5, NoticesNoStream DEF Steady
<1>7. \A d \in Dir : s.max_streams_local[d] <= t.max_streams_local[d]
  BY <1>1, <1>5, SessionFields
<1>8. Notices(p, s, t, c)
  BY <1>2, <1>4, <1>5, <1>6, <1>7 DEF Notices
<1> QED
  BY <1>2, <1>3, <1>8, NoticesPair

LEMMA HandleWtMaxStreamsPair ==
    ASSUME NEW p \in End, NEW s, Good(s), NEW r, Good(r), Pair(p, s, r),
           r.out # <<>>, NEW c, c = Head(r.out), c.type \in MaxStreamsCapsules
    PROVE  Pair(p, handle_wt_max_streams(s, c), Popped(r))
<1> DEFINE t == handle_wt_max_streams(s, c)
           d == dir_of_capsule(c)
           noted == [s EXCEPT !.received_max_streams[d] = c.val]
           raised == [noted EXCEPT !.max_streams_local[d] = c.val,
                                   !.streams_blocked_sent = @ \ {d}]
<1>1. c \in Capsule /\ s \in WtSessionInfo /\ d \in Dir
  BY GoodFields, TailFacts DEF dir_of_capsule, Dir
<1>2. c \in MaxStreamsOf(d) /\ Size(c, Carriers) = 0 /\ c.val \in Nat
  BY <1>1, KindsOf, Naturals DEF Size, StreamCapsules, MaxStreamsCapsules
<1>3. Good(t)
  BY <1>1, HandleWtMaxStreamsGood
<1>4. t = IF c.val > s.max_streams_local[d] THEN raised ELSE noted
  BY DEF handle_wt_max_streams
<1> HIDE DEF d
<1>5. /\ Steady(s, noted) /\ noted.streams = s.streams
      /\ noted.received_max_data = s.received_max_data
      /\ noted.max_data_local = s.max_data_local
      /\ noted.received_max_stream_data_by_id = s.received_max_stream_data_by_id
      /\ noted.received_stop_sending_stream_ids = s.received_stop_sending_stream_ids
      /\ noted.max_streams_local = s.max_streams_local
      /\ noted.received_max_streams = [s.received_max_streams EXCEPT ![d] = c.val]
  BY <1>1 DEF Steady, WtSessionInfo
<1>6. noted \in WtSessionInfo
  BY <1>1, <1>2 DEF WtSessionInfo
<1> HIDE DEF noted
<1>7. /\ Steady(s, raised) /\ raised.streams = s.streams
      /\ raised.received_max_data = s.received_max_data
      /\ raised.max_data_local = s.max_data_local
      /\ raised.received_max_stream_data_by_id = s.received_max_stream_data_by_id
      /\ raised.received_stop_sending_stream_ids = s.received_stop_sending_stream_ids
      /\ raised.max_streams_local = [s.max_streams_local EXCEPT ![d] = c.val]
      /\ raised.received_max_streams = [s.received_max_streams EXCEPT ![d] = c.val]
  BY <1>5, <1>6 DEF Steady, WtSessionInfo
<1> SUFFICES Pair(p, t, Popped(r))
  OBVIOUS
<1> HIDE DEF t, raised
<1>8. /\ s.max_streams_local \in [Dir -> Nat]
      /\ s.received_max_streams \in [Dir -> Nat]
  BY <1>1 DEF WtSessionInfo
<1>9. \A o \in Dir :
          /\ \/ t.received_max_streams[o] = s.received_max_streams[o]
             \/ c \in MaxStreamsOf(o) /\ t.received_max_streams[o] = c.val
          /\ \/ t.max_streams_local[o] = s.max_streams_local[o]
             \/ c \in MaxStreamsOf(o) /\ t.max_streams_local[o] = c.val
          /\ s.max_streams_local[o] <= t.max_streams_local[o]
  <2> TAKE o \in Dir
  <2>1. s.max_streams_local[o] \in Nat
    BY <1>8
  <2>2. CASE o = d
    BY <1>2, <1>4, <1>5, <1>7, <1>8, <2>1, <2>2
  <2>3. CASE o # d
    BY <1>4, <1>5, <1>7, <1>8, <2>1, <2>3
  <2> QED
    BY <2>2, <2>3
<1>10. /\ Steady(s, t) /\ t.streams = s.streams
       /\ t.received_max_data = s.received_max_data
       /\ t.max_data_local = s.max_data_local
       /\ t.received_max_stream_data_by_id = s.received_max_stream_data_by_id
       /\ t.received_stop_sending_stream_ids = s.received_stop_sending_stream_ids
  BY <1>4, <1>5, <1>7
<1>11. \A id \in StreamId : NoticesOf(p, s, t, c, id)
  BY <1>10, NoticesNoStream DEF Steady
<1>12. Notices(p, s, t, c)
  BY <1>9, <1>10, <1>11 DEF Notices
<1> QED
  BY <1>2, <1>3, <1>12, NoticesPair

LEMMA HandleWtMaxStreamDataPair ==
    ASSUME NEW p \in End, NEW s, Good(s), NEW r, Good(r), Pair(p, s, r),
           r.out # <<>>, NEW c, c = Head(r.out), c.type = "WT_MAX_STREAM_DATA"
    PROVE  Pair(p, handle_wt_max_stream_data(s, c), Popped(r))
<1> DEFINE id == c.id
           t == handle_wt_max_stream_data(s, c)
           noted == [s EXCEPT !.received_max_stream_data_by_id[id] = c.val]
           kept == IF \/ id \in received_ids(s)
                      \/ Cardinality(received_ids(s)) < kMaxReceivedMapEntries
                   THEN noted ELSE s
           raised == [kept EXCEPT !.streams[id].max_stream_data_local = c.val,
                                  !.streams[id].stream_data_blocked_sent = FALSE,
                                  !.flushing = TRUE]
<1>1. c \in Capsule /\ s \in WtSessionInfo /\ r \in WtSessionInfo
  BY GoodFields, TailFacts
<1>2. c \in RaisesOf(id) /\ Size(c, Carriers) = 0 /\ c.val \in Nat /\ id \in StreamId
  BY <1>1, KindsOf, Naturals DEF Size, StreamCapsules
<1>3. Good(t)
  BY <1>1, HandleWtMaxStreamDataGood
<1>4. t = raised \/ t = kept
  BY DEF handle_wt_max_stream_data
<1> HIDE DEF id
<1>5. /\ Steady(s, noted) /\ noted.streams = s.streams
      /\ noted.received_max_data = s.received_max_data
      /\ noted.max_data_local = s.max_data_local
      /\ noted.max_streams_local = s.max_streams_local
      /\ noted.received_max_streams = s.received_max_streams
      /\ noted.received_stop_sending_stream_ids = s.received_stop_sending_stream_ids
      /\ noted.received_max_stream_data_by_id =
             [s.received_max_stream_data_by_id EXCEPT ![id] = c.val]
  BY <1>1 DEF Steady, WtSessionInfo
<1>6. noted \in WtSessionInfo
  BY <1>1, <1>2 DEF WtSessionInfo
<1> HIDE DEF noted
<1>7. /\ Steady(s, kept) /\ kept.streams = s.streams
      /\ kept.received_max_data = s.received_max_data
      /\ kept.max_data_local = s.max_data_local
      /\ kept.max_streams_local = s.max_streams_local
      /\ kept.received_max_streams = s.received_max_streams
      /\ kept.received_stop_sending_stream_ids = s.received_stop_sending_stream_ids
      /\ kept \in WtSessionInfo
  BY <1>1, <1>5, <1>6 DEF Steady
<1>8. ASSUME NEW o \in StreamId
      PROVE  LET b == s.received_max_stream_data_by_id[o]
             IN  kept.received_max_stream_data_by_id[o] \in {b} \cup
                     (IF o = id THEN {c.val} ELSE {})
  <2>1. s.received_max_stream_data_by_id \in [StreamId -> Nat \cup {Absent}]
    BY <1>1 DEF WtSessionInfo
  <2> QED
    BY <1>2, <1>5, <2>1
<1> HIDE DEF kept
<1>9. /\ Steady(s, raised)
      /\ raised.received_max_data = s.received_max_data
      /\ raised.max_data_local = s.max_data_local
      /\ raised.max_streams_local = s.max_streams_local
      /\ raised.received_max_streams = s.received_max_streams
      /\ raised.received_stop_sending_stream_ids = s.received_stop_sending_stream_ids
      /\ raised.received_max_stream_data_by_id = kept.received_max_stream_data_by_id
  BY <1>7 DEF Steady, WtSessionInfo
<1>10. raised.streams = [[s.streams EXCEPT ![id].max_stream_data_local = c.val]
                              EXCEPT ![id].stream_data_blocked_sent = FALSE]
  BY <1>7 DEF WtSessionInfo
<1> SUFFICES Pair(p, t, Popped(r))
  OBVIOUS
<1> HIDE DEF t, raised
<1>11. /\ Steady(s, t)
       /\ t.received_max_data = s.received_max_data
       /\ t.max_data_local = s.max_data_local
       /\ t.max_streams_local = s.max_streams_local
       /\ t.received_max_streams = s.received_max_streams
       /\ t.received_stop_sending_stream_ids = s.received_stop_sending_stream_ids
       /\ t.received_max_stream_data_by_id = kept.received_max_stream_data_by_id
  BY <1>4, <1>7, <1>9
<1>12. \A d \in Dir : s.max_streams_local[d] <= t.max_streams_local[d]
  BY <1>1, <1>11, SessionFields
<1>13. ASSUME NEW o \in StreamId PROVE NoticesOf(p, s, t, c, o)
  <2> DEFINE f == s.streams[o]
             g == t.streams[o]
  <2>1. f \in WtStreamInfo /\ s.streams \in [StreamId -> WtStreamInfo]
    BY <1>1 DEF WtSessionInfo
  <2>2. /\ g.bytes_received = f.bytes_received /\ g.bytes_sent = f.bytes_sent
        /\ g.send_state = f.send_state /\ g.recv_state = f.recv_state
        /\ g.max_stream_data_remote = f.max_stream_data_remote
        /\ g.pending_sends = f.pending_sends
        /\ g.stop_sending_received = f.stop_sending_received
        /\ \/ g.max_stream_data_local = f.max_stream_data_local
           \/ o = id /\ g.max_stream_data_local = c.val
    <3>1. CASE t = kept
      BY <1>7, <3>1
    <3>2. CASE t = raised /\ o = id
      <4>1. g = [f EXCEPT !.max_stream_data_local = c.val,
                          !.stream_data_blocked_sent = FALSE]
        BY <1>10, <2>1, <3>2
      <4> HIDE DEF f, g
      <4> QED
        BY <2>1, <3>2, <4>1 DEF WtStreamInfo
    <3>3. CASE t = raised /\ o # id
      <4>1. g = f
        BY <1>2, <1>10, <2>1, <3>3
      <4> HIDE DEF f, g
      <4> QED
        BY <4>1
    <3> QED
      BY <1>4, <3>1, <3>2, <3>3
  <2>3. /\ t.received_max_stream_data_by_id[o] \in Nat \cup {Absent}
        /\ \/ t.received_max_stream_data_by_id[o] = s.received_max_stream_data_by_id[o]
           \/ o = id /\ t.received_max_stream_data_by_id[o] = c.val
    <3>1. kept.received_max_stream_data_by_id[o] \in Nat \cup {Absent}
      BY <1>7, SessionFields
    <3> QED
      BY <1>8, <1>11, <3>1
  <2>4. t.ids = s.ids /\ (o = id => c \in RaisesOf(o)) /\ c.val # Absent
    BY <1>2, <1>11 DEF Steady, Absent
  <2>5. LET n == previous_max_stream_data(t, p, o)
        IN  n = previous_max_stream_data(s, p, o) \/ (c \in RaisesOf(o) /\ n = c.val)
    <3> HIDE DEF f, g
    <3> QED
      BY <2>2, <2>3, <2>4 DEF previous_max_stream_data, f, g
  <2>6. has_received_stop_sending(t, o) => has_received_stop_sending(s, o)
    BY <1>11, <2>2, <2>4 DEF has_received_stop_sending
  <2> QED
    BY <2>2, <2>4, <2>5, <2>6 DEF NoticesOf
<1>14. Notices(p, s, t, c)
  BY <1>11, <1>12, <1>13 DEF Notices
<1> QED
  BY <1>2, <1>3, <1>14, NoticesPair

LEMMA HandleWtStopSendingPair ==
    ASSUME NEW p \in End, NEW s, Good(s), NEW r, Good(r), Pair(p, s, r), s.status = "open",
           r.out # <<>>, NEW c, c = Head(r.out), c.type = "WT_STOP_SENDING",
           wt_stop_sending_verdict(s, p, c) = "accept"
    PROVE  Pair(p, handle_wt_stop_sending(s, p, c), Popped(r))
<1> DEFINE id == c.id
           ids == IF Cardinality(s.received_stop_sending_stream_ids) < kMaxReceivedMapEntries
                  THEN s.received_stop_sending_stream_ids \cup {id}
                  ELSE s.received_stop_sending_stream_ids
           noted == [s EXCEPT !.received_stop_sending_stream_ids = ids]
           marked == [noted EXCEPT !.streams[id].stop_sending_received = TRUE]
           q == Popped(r)
<1>1. c \in Capsule /\ s \in WtSessionInfo /\ r \in WtSessionInfo
  BY GoodFields, TailFacts
<1>2. c \in StopsOf(id) /\ Size(c, Carriers) = 0 /\ id \in StreamId
  BY <1>1, KindsOf, Naturals DEF Size, StreamCapsules
<1>3. handle_wt_stop_sending(s, p, c) =
          IF id \notin s.ids THEN noted
          ELSE IF s.streams[id].send_state \in SendDone THEN marked
          ELSE reset_stream(marked, p, id)
  BY DEF handle_wt_stop_sending
<1>4. is_sendable_stream(p, id)
  BY DEF wt_stop_sending_verdict, is_receivable_flow_capsule, is_sendable_stream
<1>5. ids \subseteq StreamId /\ \A o \in ids : o \in s.received_stop_sending_stream_ids \/ o = id
  BY <1>1, <1>2 DEF WtSessionInfo
<1>6. Good(q)
  BY PoppedGood
<1> HIDE DEF id, ids, q
<1>7. Good(noted)
  BY <1>5 DEF Good, SessionCredit, WtSessionInfo
<1>8. /\ Steady(s, noted) /\ noted.streams = s.streams
      /\ noted.received_max_data = s.received_max_data
      /\ noted.max_data_local = s.max_data_local
      /\ noted.max_streams_local = s.max_streams_local
      /\ noted.received_max_streams = s.received_max_streams
      /\ noted.received_stop_sending_stream_ids = ids
      /\ noted.received_max_stream_data_by_id = s.received_max_stream_data_by_id
  BY <1>1 DEF Steady, WtSessionInfo
<1> HIDE DEF noted
<1>9. \A d \in Dir : s.max_streams_local[d] <= s.max_streams_local[d]
  BY <1>1, SessionFields
<1>10. Pair(p, noted, q)
  <2>1. ASSUME NEW o \in StreamId PROVE NoticesOf(p, s, noted, c, o)
    <3>1. noted.ids = s.ids
      BY <1>8 DEF Steady
    <3>2. previous_max_stream_data(noted, p, o) = previous_max_stream_data(s, p, o)
      BY <1>8, <3>1 DEF previous_max_stream_data
    <3>3. has_received_stop_sending(noted, o) =>
              has_received_stop_sending(s, o) \/ c \in StopsOf(o)
      BY <1>2, <1>5, <1>8, <3>1 DEF has_received_stop_sending
    <3> QED
      BY <1>8, <3>2, <3>3 DEF NoticesOf
  <2>2. Notices(p, s, noted, c)
    BY <1>8, <1>9, <2>1 DEF Notices
  <2>3. Pair(p, noted, Popped(r))
    BY <1>2, <1>7, <2>2, NoticesPair
  <2> QED
    BY <2>3 DEF q
<1>11. CASE id \notin s.ids
  BY <1>3, <1>10, <1>11 DEF q
<1>12. CASE id \in s.ids
  <2> DEFINE f == s.streams[id]
             g == [f EXCEPT !.stop_sending_received = TRUE]
  <2>1. f \in WtStreamInfo /\ StreamCredit(f) /\ noted \in WtSessionInfo
    BY <1>2, <1>7, <1>12, GoodFields DEF Good
  <2>2. marked = [noted EXCEPT !.streams[id] = g]
    BY <1>8
  <2> HIDE DEF f
  <2>3. g \in WtStreamInfo /\ StreamCredit(g)
    BY <2>1 DEF WtStreamInfo, StreamCredit
  <2>4. /\ g.bytes_received = f.bytes_received /\ g.bytes_sent = f.bytes_sent
        /\ g.send_state = f.send_state /\ g.recv_state = f.recv_state
        /\ g.max_stream_data_remote = f.max_stream_data_remote
        /\ g.max_stream_data_local = f.max_stream_data_local
        /\ g.pending_sends = f.pending_sends
    BY <2>1 DEF WtStreamInfo
  <2> HIDE DEF g, marked
  <2>5. Good(marked)
    BY <1>2, <1>7, <2>2, <2>3, SetStream
  <2>6. /\ Steady(noted, marked)
        /\ marked.received_max_data = noted.received_max_data
        /\ marked.max_data_local = noted.max_data_local
        /\ marked.max_streams_local = noted.max_streams_local
        /\ marked.received_max_streams = noted.received_max_streams
        /\ marked.received_stop_sending_stream_ids = noted.received_stop_sending_stream_ids
        /\ marked.received_max_stream_data_by_id = noted.received_max_stream_data_by_id
        /\ marked.streams = [noted.streams EXCEPT ![id] = g]
    BY <2>1, <2>2 DEF Steady, WtSessionInfo
  <2>7. /\ marked.streams[id] = g
        /\ \A o \in StreamId : o # id => marked.streams[o] = s.streams[o]
    BY <1>1, <1>2, <1>8, <2>6 DEF WtSessionInfo
  <2>8. ASSUME NEW o \in StreamId PROVE NoticesOf(p, s, marked, c, o)
    <3>1. marked.ids = s.ids
      BY <1>8, <2>6 DEF Steady
    <3>2. /\ marked.received_max_stream_data_by_id = s.received_max_stream_data_by_id
          /\ marked.received_stop_sending_stream_ids = ids
      BY <1>8, <2>6
    <3>3. CASE o = id
      <4>1. previous_max_stream_data(marked, p, o) = previous_max_stream_data(s, p, o)
        BY <2>4, <2>7, <3>1, <3>2, <3>3 DEF previous_max_stream_data, f
      <4> QED
        BY <1>2, <2>4, <2>7, <3>3, <4>1 DEF NoticesOf, f
    <3>4. CASE o # id
      <4>1. previous_max_stream_data(marked, p, o) = previous_max_stream_data(s, p, o)
        BY <2>7, <3>1, <3>2, <3>4 DEF previous_max_stream_data
      <4>2. has_received_stop_sending(marked, o) => has_received_stop_sending(s, o)
        BY <1>5, <2>7, <3>1, <3>2, <3>4 DEF has_received_stop_sending
      <4> QED
        BY <2>7, <3>4, <4>1, <4>2 DEF NoticesOf
    <3> QED
      BY <3>3, <3>4
  <2>9. Notices(p, s, marked, c)
    BY <1>8, <1>9, <2>6, <2>8 DEF Notices, Steady
  <2>10. Pair(p, marked, Popped(r))
    BY <1>2, <2>5, <2>9, NoticesPair
  <2>11. /\ id \in marked.ids /\ marked.status = "open"
         /\ marked.streams[id].send_state = s.streams[id].send_state
    BY <1>8, <1>12, <2>4, <2>6, <2>7 DEF Steady, f
  <2>12. s.streams[id].send_state \notin SendDone => Pair(p, reset_stream(marked, p, id), q)
    BY <1>4, <1>6, <2>5, <2>10, <2>11, ResetStreamPair DEF q
  <2> QED
    BY <1>3, <1>12, <2>10, <2>12 DEF q
<1> QED
  BY <1>11, <1>12

-----------------------------------------------------------------------------
(* The end of the session.                                                 *)

LEMMA EmptyQueue ==
    /\ \A K : None(<<>>, K)
    /\ \A A, B : NoneAfter(<<>>, A, B)
    /\ \A K, n : Rising(<<>>, K, n) /\ AtMost(<<>>, K, n)
BY DEF None, NoneAfter, Rising, AtMost

(* The peer closes: it is not open any more, and p falls silent.           *)
LEMMA HandleWtCloseSessionPair ==
    ASSUME NEW p \in End, NEW s, Good(s), NEW r, Good(r), Pair(p, s, r),
           r.out # <<>>, NEW c, c = Head(r.out), c.type = "WT_CLOSE_SESSION"
    PROVE  Pair(p, handle_wt_close_session(s), Popped(r))
<1> DEFINE t == handle_wt_close_session(s)
<1>1. c \in Capsule /\ s \in WtSessionInfo /\ r \in WtSessionInfo /\ r.out \in Seq(Capsule)
  BY GoodFields, TailFacts
<1>2. Good(t) /\ t \in WtSessionInfo
  BY HandleWtCloseSessionGood, GoodFields
<1>3. /\ t.out = <<>> /\ t.status = "erased" /\ t.reason = s.reason
      /\ t.bytes_sent = s.bytes_sent /\ t.bytes_received = s.bytes_received
      /\ t.max_data_local = s.max_data_local
      /\ t.received_max_data = s.received_max_data
      /\ t.max_data_remote = s.max_data_remote
      /\ t.streams_opened = s.streams_opened
      /\ t.max_streams_local = s.max_streams_local
      /\ t.received_max_streams = s.received_max_streams
      /\ t.max_streams_remote = s.max_streams_remote
  BY <1>1 DEF handle_wt_close_session, WtSessionInfo
<1>4. /\ t.ids = s.ids /\ t.streams = s.streams /\ t.seen = s.seen
      /\ t.released_stream_ids = s.released_stream_ids
      /\ t.received_max_stream_data_by_id = s.received_max_stream_data_by_id
      /\ t.received_stop_sending_stream_ids = s.received_stop_sending_stream_ids
      /\ t.sent_stop_sending_stream_ids = s.sent_stop_sending_stream_ids
  BY <1>1 DEF handle_wt_close_session, WtSessionInfo
<1> SUFFICES Pair(p, t, Popped(r))
  OBVIOUS
<1> HIDE DEF t
<1>5. r.status # "open"
  <2>1. c \in Closes
    BY <1>1, KindsOf
  <2>2. ~None(r.out, Closes)
    BY <1>1, <2>1, NonePresent
  <2> QED
    BY <2>2 DEF Pair, One, Whole
<1>6. Whole(t, r)
  <2>1. Whole(s, r)
    BY DEF Pair, One
  <2>2. SessionLimit(t, r)
    BY <1>3, <2>1, EmptyQueue DEF Whole, SessionLimit
  <2>3. \A d \in Dir : CountLimit(t, r, d)
    BY <1>3, <2>1, EmptyQueue DEF Whole, CountLimit
  <2> QED
    BY <1>3, <1>5, <2>1, <2>2, <2>3, EmptyQueue DEF Whole
<1>7. ASSUME NEW id \in StreamId PROVE Parts(p, t, r, id)
  <2>1. /\ Entry(p, s, id) /\ Born(p, s, r, id) /\ Stopped(s, r, id)
        /\ is_receivable_data_capsule(p, id) => Credit(p, s, r, id)
    BY OneParts DEF Pair
  <2>2. Entry(p, t, id)
    BY <1>3, <1>4, <2>1 DEF Entry, Opened
  <2>3. Born(p, t, r, id)
    BY <1>3, <1>4, <2>1, EmptyQueue DEF Born, Opened
  <2>4. Credit(p, s, r, id) => Credit(p, t, r, id)
    BY <1>3, <1>4, EmptyQueue DEF Credit, GrantedBy
  <2>5. Stopped(t, r, id)
    BY <1>3, <1>4, <2>1, EmptyQueue DEF Stopped
  <2>6. Directed(p, t, id)
    BY <1>3, EmptyQueue DEF Directed
  <2> QED
    BY <1>5, <2>1, <2>2, <2>3, <2>4, <2>5, <2>6 DEF Parts
<1>8. One(p, t, r) /\ One(Peer(p), r, s)
  BY <1>6, <1>7 DEF One, Pair
<1>9. ASSUME NEW id \in StreamId PROVE HearsOf(p, s, t, c, id)
  <2>1. previous_max_stream_data(t, p, id) = previous_max_stream_data(s, p, id)
    BY <1>4 DEF previous_max_stream_data
  <2>2. has_received_stop_sending(t, id) => has_received_stop_sending(s, id)
    BY <1>4 DEF has_received_stop_sending
  <2> QED
    BY <1>3, <1>4, <2>1, <2>2 DEF HearsOf
<1>10. Hears(p, s, t, c)
  BY <1>3, <1>4, <1>9 DEF Hears
<1> QED
  BY <1>1, <1>2, <1>8, <1>10, HearsPair

(* What the head of the queue is, the whole queue says.                    *)
LEMMA HeadIs ==
    ASSUME NEW q \in Seq(Capsule), q # <<>>, NEW K, Head(q) \in K
    PROVE  /\ \A n : Rising(q, K, n) => n <= Head(q).val
           /\ \A n : AtMost(q, K, n) => Head(q).val <= n
           /\ ~None(q, K)
<1>1. Len(q) \in Nat /\ Len(q) >= 1 /\ Head(q) = q[1]
  BY TailFacts
<1>2. 1 \in 1 .. Len(q)
  BY <1>1
<1> QED
  BY <1>1, <1>2 DEF Rising, AtMost, None

(* What is on its way about a stream finds that stream as the peer thinks  *)
(* it is.                                                                  *)
LEMMA Expected ==
    ASSUME NEW p \in End, NEW s, Good(s), NEW r, Good(r), Pair(p, s, r),
           s.status = "open", r.out # <<>>, NEW c, c = Head(r.out), NEW id \in StreamId,
           c \in AboutOf(id), is_receivable_data_capsule(p, id)
    PROVE  /\ s.seen[id] = "live"
           /\ id \notin s.released_stream_ids
           /\ ~recv_finished(s, id)
           /\ c \in DataOf(id) =>
                 /\ id \notin s.ids => ~incoming_stream_exceeds_limit(s, id)
                 /\ Place(c) = s.streams[id].bytes_received
                 /\ s.streams[id].bytes_received + Size(c, CarriersOf(id))
                        <= GrantedBy(p, s, id)
                 /\ id \notin s.ids => s.streams[id].bytes_received = 0
<1> DEFINE e == Peer(p)
<1>1. s \in WtSessionInfo /\ r \in WtSessionInfo /\ r.out \in Seq(Capsule)
  BY GoodFields
<1>2. e \in End /\ Peer(e) = p /\ (is_local(e, id) <=> ~is_local(p, id))
  BY PeerPeer, Directions
<1>3. /\ Entry(p, s, id) /\ Born(e, r, s, id) /\ Way(e, r, s, id)
  BY <1>2, OneParts DEF Pair
<1>4. \A d \in Dir : CountLimit(s, r, d) /\ CountLimit(r, s, d)
  BY DEF Pair, One, Whole
<1> HIDE DEF e
<1>5. s.seen[id] = "live"
  <2>1. ~None(r.out, AboutOf(id))
    BY <1>1, HeadIs
  <2> QED
    BY <1>3, <2>1 DEF Way
<1>6. id \notin s.released_stream_ids /\ ~recv_finished(s, id)
  BY <1>3, <1>5 DEF Entry, recv_finished
<1>7. ASSUME c \in DataOf(id), id \notin s.ids
      PROVE  ~incoming_stream_exceeds_limit(s, id)
  <2>1. ~None(r.out, DataOf(id))
    BY <1>1, <1>7, HeadIs
  <2>2. ~is_local(p, id)
    <3>1. is_local(p, id) => ~is_unidirectional(id)
      BY DEF is_receivable_data_capsule
    <3>2. is_local(p, id) => Opened(s, id)
      BY <1>2, <1>3, <2>1 DEF Born
    <3> QED
      BY <1>3, <1>5, <1>7, <3>1, <3>2 DEF Entry
  <2>3. Opened(r, id)
    BY <1>2, <1>3, <2>1, <2>2 DEF Born
  <2>4. DirOf(id) \in Dir /\ id \div 4 \in Nat
    BY IdFacts
  <2>5. /\ r.streams_opened[DirOf(id)] <= r.max_streams_local[DirOf(id)]
        /\ r.max_streams_local[DirOf(id)] <= s.max_streams_remote[DirOf(id)]
    BY <1>4, <2>4 DEF CountLimit
  <2>6. /\ r.streams_opened[DirOf(id)] \in Nat /\ r.max_streams_local[DirOf(id)] \in Nat
        /\ s.max_streams_remote[DirOf(id)] \in Nat
    BY <1>1, <2>4, SessionFields
  <2> QED
    BY <2>3, <2>4, <2>5, <2>6 DEF Opened, incoming_stream_exceeds_limit
<1>8. ASSUME c \in DataOf(id)
      PROVE  /\ Place(c) = s.streams[id].bytes_received
             /\ s.streams[id].bytes_received + Size(c, CarriersOf(id)) <= GrantedBy(p, s, id)
  <2>1. s.streams[id].bytes_received \in Nat /\ GrantedBy(p, s, id) \in Nat
    BY <1>1, SessionFields, StreamFields, GrantedNat
  <2>2. PICK to \in Nat :
            /\ Chain(r.out, CarriersOf(id), DataOf(id), s.streams[id].bytes_received, to)
            /\ to <= GrantedBy(p, s, id)
    BY <1>2, <1>3, <1>5 DEF Way
  <2>3. /\ s.streams[id].bytes_received + Size(c, CarriersOf(id)) <= to
        /\ Place(c) = s.streams[id].bytes_received
    BY <1>1, <1>8, <2>1, <2>2, ChainPop
  <2>4. Size(c, CarriersOf(id)) \in Nat
    <3>1. c \in Capsule
      BY <1>1, TailFacts
    <3> QED
      BY <3>1, Naturals DEF Size
  <2> QED
    BY <2>1, <2>2, <2>3, <2>4
<1>9. id \notin s.ids => s.streams[id].bytes_received = 0
  BY <1>3 DEF Entry
<1> QED
  BY <1>5, <1>6, <1>7, <1>8, <1>9

-----------------------------------------------------------------------------
(* The verdict on each kind of capsule, when the applications respect      *)
(* directions: none is refused.                                            *)

Fine == {"accept", "ignore"}

LEMMA StreamFine ==
    ASSUME NEW p \in End, NEW s, Good(s), NEW r, Good(r), Pair(p, s, r),
           s.status = "open", r.out # <<>>, NEW c, c = Head(r.out),
           c.type \in StreamCapsules
    PROVE  wt_stream_verdict(s, p, c) \in Fine
<1> DEFINE id == c.id
           e == Peer(p)
           u == new_stream(s, p, id)
           info == IF id \in s.ids THEN s.streams[id] ELSE u.streams[id]
<1>1. s \in WtSessionInfo /\ r \in WtSessionInfo /\ r.out \in Seq(Capsule)
  BY GoodFields
<1>2. c \in Capsule /\ c.len \in Nat /\ id \in StreamId
  <2>1. c \in Capsule
    BY <1>1, TailFacts
  <2> QED
    BY <2>1 DEF Capsule
<1>3. /\ c \in CarriersOf(id) /\ c \in DataOf(id) /\ c \in AboutOf(id) /\ c \in Carriers
      /\ Size(c, CarriersOf(id)) = c.len /\ Size(c, Carriers) = c.len
  BY <1>2, KindsOf DEF Size
<1>4. is_receivable_data_capsule(p, id)
  <2>1. e \in End /\ Peer(e) = p
    BY PeerPeer
  <2>2. Directed(e, r, id)
    BY <1>2, OneParts DEF Pair
  <2>3. is_sendable_stream(e, id)
    BY <1>1, <1>3, <2>2, HeadIs DEF Directed
  <2> QED
    BY <1>2, <2>1, <2>3, Directions
<1>5. /\ id \notin s.released_stream_ids /\ ~recv_finished(s, id)
      /\ id \notin s.ids => ~incoming_stream_exceeds_limit(s, id)
      /\ s.streams[id].bytes_received + c.len <= GrantedBy(p, s, id)
      /\ id \notin s.ids => s.streams[id].bytes_received = 0
  BY <1>2, <1>3, <1>4, Expected
<1>6. /\ info.recv_state \notin RecvDone
      /\ info.bytes_received = s.streams[id].bytes_received
      /\ info.max_stream_data_remote = GrantedBy(p, s, id)
  <2>1. CASE id \in s.ids
    BY <1>5, <2>1 DEF recv_finished, GrantedBy
  <2>2. CASE id \notin s.ids
    <3>1. Made(p, s, u, id)
      BY <1>1, <1>2, NewStreamMade
    <3> HIDE DEF u
    <3>2. u.streams[id] = [NoStream EXCEPT
              !.max_stream_data_local = initialize_stream_send_credit(s, p, id),
              !.max_stream_data_remote = Config[p].max_stream_data]
      BY <3>1 DEF Made
    <3>3. /\ u.streams[id].recv_state = "Recv" /\ u.streams[id].bytes_received = 0
          /\ u.streams[id].max_stream_data_remote = Config[p].max_stream_data
      BY <3>2 DEF NoStream
    <3> QED
      BY <1>5, <2>2, <3>3 DEF GrantedBy, RecvDone
  <2> QED
    BY <2>1, <2>2
<1>7. info.bytes_received + c.len <= info.max_stream_data_remote
  BY <1>5, <1>6
<1>8. s.bytes_received + c.len <= s.max_data_remote
  <2>1. Total(r, s) /\ SessionLimit(s, r)
    BY DEF Pair, One, Whole
  <2>2. /\ s.bytes_received \in Nat /\ r.bytes_sent \in Nat /\ r.max_data_local \in Nat
        /\ s.max_data_remote \in Nat
    BY <1>1, SessionFields
  <2>3. s.bytes_received + c.len <= r.bytes_sent
    BY <1>1, <1>3, <2>1, <2>2, ChainPop DEF Total
  <2>4. r.bytes_sent <= r.max_data_local /\ r.max_data_local <= s.max_data_remote
    BY <2>1 DEF Good, SessionCredit, SessionLimit
  <2> QED
    BY <1>2, <2>2, <2>3, <2>4
<1>9. /\ info.bytes_received \in Nat /\ info.max_stream_data_remote \in Nat
      /\ s.bytes_received \in Nat /\ s.max_data_remote \in Nat
  BY <1>1, <1>2, <1>6, SessionFields, StreamFields, GrantedNat
<1>10. wt_stream_verdict(s, p, c) =
          IF ~is_receivable_data_capsule(p, id) THEN "stream_state"
          ELSE IF id \notin s.ids /\ id \in s.released_stream_ids
               THEN IF c.len = 0 THEN "ignore" ELSE "stream_state"
          ELSE IF id \notin s.ids /\ incoming_stream_exceeds_limit(s, id)
               THEN "flow_control"
          ELSE IF c.len > 0 /\ info.recv_state \in RecvDone THEN "stream_state"
          ELSE IF \/ s.bytes_received + c.len > s.max_data_remote
                  \/ info.bytes_received + c.len > info.max_stream_data_remote
               THEN "flow_control"
          ELSE "accept"
  BY DEF wt_stream_verdict
<1> HIDE DEF id, info
<1> QED
  BY <1>2, <1>4, <1>5, <1>6, <1>7, <1>8, <1>9, <1>10 DEF Fine

LEMMA AboutFine ==
    ASSUME NEW p \in End, NEW s, Good(s), NEW r, Good(r), Pair(p, s, r), Disciplined,
           s.status = "open", r.out # <<>>, NEW c, c = Head(r.out), c.form = "ok"
    PROVE  /\ c.type = "WT_RESET_STREAM" => wt_reset_stream_verdict(s, p, c) \in Fine
           /\ c.type = "WT_STREAM_DATA_BLOCKED" =>
                  wt_stream_data_blocked_verdict(s, p, c) \in Fine
<1> DEFINE id == c.id
           e == Peer(p)
<1>1. s \in WtSessionInfo /\ r \in WtSessionInfo /\ r.out \in Seq(Capsule)
  BY GoodFields
<1>2. c \in Capsule /\ id \in StreamId /\ c.val \in Nat
  <2>1. c \in Capsule
    BY <1>1, TailFacts
  <2> QED
    BY <2>1 DEF Capsule
<1>3. ASSUME c \in AboutOf(id) PROVE is_receivable_data_capsule(p, id)
  <2>1. e \in End /\ Peer(e) = p
    BY PeerPeer
  <2>2. Directed(e, r, id)
    BY <1>2, OneParts DEF Pair
  <2>3. is_sendable_stream(e, id)
    BY <1>1, <1>3, <2>2, HeadIs DEF Directed
  <2> QED
    BY <1>2, <2>1, <2>3, Directions
<1>4. ASSUME c.type = "WT_RESET_STREAM" PROVE wt_reset_stream_verdict(s, p, c) \in Fine
  <2>1. c \in DataOf(id) /\ c \in AboutOf(id)
    BY <1>2, <1>4, KindsOf
  <2>2. is_receivable_data_capsule(p, id)
    BY <1>3, <2>1
  <2>3. /\ id \notin s.released_stream_ids /\ ~recv_finished(s, id)
        /\ id \notin s.ids => ~incoming_stream_exceeds_limit(s, id)
        /\ Place(c) = s.streams[id].bytes_received
        /\ id \notin s.ids => s.streams[id].bytes_received = 0
    BY <1>2, <2>1, <2>2, Expected
  <2>4. c.val = s.streams[id].bytes_received
    BY <1>4, <2>3 DEF Place
  <2> QED
    BY <1>2, <2>2, <2>3, <2>4 DEF wt_reset_stream_verdict, recv_finished, Fine
<1>5. ASSUME c.type = "WT_STREAM_DATA_BLOCKED"
      PROVE  wt_stream_data_blocked_verdict(s, p, c) \in Fine
  <2>1. c \in AboutOf(id)
    BY <1>2, <1>5, KindsOf
  <2>2. is_receivable_data_capsule(p, id)
    BY <1>3, <2>1
  <2>3. id \notin s.released_stream_ids /\ ~recv_finished(s, id)
    BY <1>2, <2>1, <2>2, Expected
  <2> QED
    BY <2>2, <2>3 DEF wt_stream_data_blocked_verdict, Fine
<1> QED
  BY <1>4, <1>5

LEMMA AskedFine ==
    ASSUME NEW p \in End, NEW s, Good(s), NEW r, Good(r), Pair(p, s, r), Disciplined,
           r.out # <<>>, NEW c, c = Head(r.out), c.form = "ok"
    PROVE  /\ c.type = "WT_STOP_SENDING" => wt_stop_sending_verdict(s, p, c) \in Fine
           /\ c.type = "WT_MAX_STREAM_DATA" =>
                  wt_max_stream_data_verdict(s, p, c) \in Fine
<1> DEFINE id == c.id
           e == Peer(p)
<1>1. s \in WtSessionInfo /\ r \in WtSessionInfo /\ r.out \in Seq(Capsule)
  BY GoodFields
<1>2. c \in Capsule /\ id \in StreamId /\ c.val \in Nat
  <2>1. c \in Capsule
    BY <1>1, TailFacts
  <2> QED
    BY <2>1 DEF Capsule
<1>3. e \in End /\ Peer(e) = p
  BY PeerPeer
<1>4. /\ Directed(e, r, id) /\ Stopped(r, s, id)
      /\ is_receivable_data_capsule(e, id) => Credit(e, r, s, id)
  BY <1>2, OneParts DEF Pair
<1>5. is_receivable_flow_capsule(p, id) <=> is_receivable_data_capsule(e, id)
  BY <1>2, <1>3, Directions
<1> HIDE DEF e
<1>6. ASSUME c.type = "WT_STOP_SENDING" PROVE wt_stop_sending_verdict(s, p, c) \in Fine
  <2>1. c \in StopsOf(id)
    BY <1>2, <1>6, KindsOf
  <2>2. ~None(r.out, StopsOf(id))
    BY <1>1, <2>1, HeadIs
  <2>3. is_receivable_flow_capsule(p, id) /\ ~has_received_stop_sending(s, id)
    BY <1>4, <1>5, <2>2 DEF Directed, Stopped
  <2> QED
    BY <2>3 DEF wt_stop_sending_verdict, Fine
<1>7. ASSUME c.type = "WT_MAX_STREAM_DATA" PROVE wt_max_stream_data_verdict(s, p, c) \in Fine
  <2>1. c \in RaisesOf(id)
    BY <1>2, <1>7, KindsOf
  <2>2. ~None(r.out, RaisesOf(id))
    BY <1>1, <2>1, HeadIs
  <2>3. /\ is_receivable_flow_capsule(p, id) /\ is_receivable_data_capsule(e, id)
        /\ ~has_received_stop_sending(s, id)
    BY <1>4, <1>5, <2>2 DEF Directed, Stopped
  <2>4. previous_max_stream_data(s, p, id) <= c.val
    BY <1>1, <1>3, <1>4, <2>1, <2>3, HeadIs DEF Credit
  <2>5. previous_max_stream_data(s, p, id) \in Nat
    BY <1>1, <1>2, PreviousNat
  <2> QED
    BY <1>2, <2>3, <2>4, <2>5 DEF wt_max_stream_data_verdict, Fine
<1> QED
  BY <1>6, <1>7

LEMMA NeverRefused ==
    ASSUME NEW p \in End, NEW s, Good(s), NEW r, Good(r), Pair(p, s, r), Disciplined,
           r.out # <<>>, NEW c, c = Head(r.out)
    PROVE  process_capsule(s, p, c) \in Fine
<1>1. s \in WtSessionInfo /\ r \in WtSessionInfo /\ r.out \in Seq(Capsule)
  BY GoodFields
<1>2. c \in Capsule /\ c.type \in CapsuleType /\ c.val \in Nat
  <2>1. c \in Capsule
    BY <1>1, TailFacts
  <2> QED
    BY <2>1 DEF Capsule
<1>3. c.form = "ok" /\ (c.type \in StreamsBlockedCapsules => ~(c.val > kMaxStreamsLimit))
  <2>1. c \notin Unfit
    BY <1>1, HeadIs DEF Pair, One, Whole
  <2> QED
    BY <1>2, <2>1 DEF Unfit
<1>4. ASSUME c.type = "WT_MAX_DATA" PROVE ~(c.val < s.received_max_data)
  <2>1. c \in MaxDatas
    BY <1>2, <1>4, KindsOf
  <2>2. Rising(r.out, MaxDatas, s.received_max_data)
    BY DEF Pair, One, Whole, SessionLimit
  <2>3. s.received_max_data <= c.val /\ s.received_max_data \in Nat
    BY <1>1, <2>1, <2>2, HeadIs, SessionFields
  <2> QED
    BY <1>2, <2>3
<1>5. ASSUME c.type \in MaxStreamsCapsules PROVE wt_max_streams_verdict(s, c) \in Fine
  <2> DEFINE d == dir_of_capsule(c)
  <2>1. d \in Dir /\ c \in MaxStreamsOf(d)
    BY <1>2, <1>5, KindsOf DEF dir_of_capsule, Dir
  <2> HIDE DEF d
  <2>2. CountLimit(r, s, d)
    BY <2>1 DEF Pair, One, Whole
  <2>3. /\ s.received_max_streams[d] <= c.val /\ c.val <= r.max_streams_remote[d]
        /\ r.max_streams_remote[d] <= kMaxStreamsLimit
    BY <1>1, <2>1, <2>2, HeadIs DEF CountLimit
  <2>4. s.received_max_streams[d] \in Nat /\ r.max_streams_remote[d] \in Nat
    BY <1>1, <2>1, SessionFields
  <2>5. ~(c.val > kMaxStreamsLimit) /\ ~(c.val < s.received_max_streams[d])
    BY <1>2, <2>3, <2>4, LimitAssumption
  <2> QED
    BY <2>5 DEF wt_max_streams_verdict, Fine, d
<1>6. ASSUME s.status = "open" PROVE capsule_verdict(s, p, c) \in Fine
  <2>1. CASE c.type \in StreamCapsules
    <3>1. wt_stream_verdict(s, p, c) \in Fine
      BY <1>6, <2>1, StreamFine
    <3>2. capsule_verdict(s, p, c) = wt_stream_verdict(s, p, c)
      BY <2>1 DEF capsule_verdict, StreamCapsules, MaxStreamsCapsules,
                  StreamsBlockedCapsules
    <3> QED
      BY <3>1, <3>2
  <2>2. CASE c.type = "WT_RESET_STREAM"
    BY <1>3, <1>6, <2>2, AboutFine
       DEF capsule_verdict, StreamCapsules, MaxStreamsCapsules, StreamsBlockedCapsules
  <2>3. CASE c.type = "WT_STOP_SENDING"
    BY <1>3, <2>3, AskedFine
       DEF capsule_verdict, StreamCapsules, MaxStreamsCapsules, StreamsBlockedCapsules
  <2>4. CASE c.type = "WT_MAX_DATA"
    BY <1>4, <2>4
       DEF capsule_verdict, StreamCapsules, MaxStreamsCapsules, StreamsBlockedCapsules, Fine
  <2>5. CASE c.type = "WT_MAX_STREAM_DATA"
    BY <1>3, <2>5, AskedFine
       DEF capsule_verdict, StreamCapsules, MaxStreamsCapsules, StreamsBlockedCapsules
  <2>6. CASE c.type \in MaxStreamsCapsules
    BY <1>5, <2>6
       DEF capsule_verdict, StreamCapsules, MaxStreamsCapsules, StreamsBlockedCapsules
  <2>7. CASE c.type = "WT_STREAM_DATA_BLOCKED"
    BY <1>3, <1>6, <2>7, AboutFine
       DEF capsule_verdict, StreamCapsules, MaxStreamsCapsules, StreamsBlockedCapsules
  <2>8. CASE c.type \in StreamsBlockedCapsules
    BY <1>3, <2>8
       DEF capsule_verdict, StreamCapsules, MaxStreamsCapsules, StreamsBlockedCapsules, Fine
  <2>9. CASE c.type \in {"WT_DATA_BLOCKED", "WT_CLOSE_SESSION"}
    BY <1>3, <2>9
       DEF capsule_verdict, StreamCapsules, MaxStreamsCapsules, StreamsBlockedCapsules, Fine
  <2> QED
    BY <1>2, <2>1, <2>2, <2>3, <2>4, <2>5, <2>6, <2>7, <2>8, <2>9 DEF CapsuleType
<1> QED
  BY <1>3, <1>6 DEF process_capsule, Fine

-----------------------------------------------------------------------------
(* The steps of the specification.                                         *)

PairInv == Impl = End => \A e \in End : Pair(e, wt[e], wt[Peer(e)])

All == Both /\ PairInv

LEMMA PairSwap ==
    ASSUME NEW p \in End, NEW s, NEW r, Pair(p, s, r)
    PROVE  Pair(Peer(p), r, s)
BY PeerPeer DEF Pair

LEMMA InitialFields ==
    ASSUME NEW e \in End
    PROVE  /\ InitialSession(e).status = "open"
           /\ InitialSession(e).reason = "none"
           /\ InitialSession(e).out = <<>>
           /\ InitialSession(e).bytes_sent = 0
           /\ InitialSession(e).max_data_local = Config[Peer(e)].max_data
           /\ InitialSession(e).received_max_data = Config[Peer(e)].max_data
           /\ InitialSession(e).bytes_received = 0
           /\ InitialSession(e).max_data_remote = Config[e].max_data
           /\ InitialSession(e).streams_opened = [d \in Dir |-> 0]
           /\ InitialSession(e).max_streams_local = Config[Peer(e)].max_streams
           /\ InitialSession(e).received_max_streams = Config[Peer(e)].max_streams
           /\ InitialSession(e).max_streams_remote = Config[e].max_streams
           /\ InitialSession(e).ids = {}
           /\ InitialSession(e).streams = [id \in StreamId |-> NoStream]
           /\ InitialSession(e).received_max_stream_data_by_id =
                  [id \in StreamId |-> Absent]
           /\ InitialSession(e).received_stop_sending_stream_ids = {}
           /\ InitialSession(e).released_stream_ids = {}
           /\ InitialSession(e).seen = [id \in StreamId |-> "live"]
BY DEF InitialSession

LEMMA InitOne ==
    ASSUME NEW p \in End
    PROVE  One(p, InitialSession(p), InitialSession(Peer(p)))
<1> DEFINE s == InitialSession(p)
           e == Peer(p)
           r == InitialSession(e)
<1>1. e \in End /\ Peer(e) = p
  BY PeerPeer
<1>2. /\ s.status = "open" /\ s.reason = "none" /\ s.out = <<>> /\ s.bytes_sent = 0
      /\ s.max_data_remote = Config[p].max_data
      /\ s.streams_opened = [d \in Dir |-> 0]
      /\ s.max_streams_local = Config[e].max_streams
      /\ s.max_streams_remote = Config[p].max_streams
      /\ s.ids = {} /\ s.streams = [id \in StreamId |-> NoStream]
      /\ s.released_stream_ids = {} /\ s.seen = [id \in StreamId |-> "live"]
  BY InitialFields
<1>3. /\ r.status = "open" /\ r.bytes_received = 0
      /\ r.max_data_local = Config[p].max_data
      /\ r.received_max_data = Config[p].max_data
      /\ r.streams_opened = [d \in Dir |-> 0]
      /\ r.max_streams_local = Config[p].max_streams
      /\ r.received_max_streams = Config[p].max_streams
      /\ r.ids = {} /\ r.streams = [id \in StreamId |-> NoStream]
      /\ r.received_max_stream_data_by_id = [id \in StreamId |-> Absent]
      /\ r.received_stop_sending_stream_ids = {}
      /\ r.seen = [id \in StreamId |-> "live"]
  BY <1>1, InitialFields
<1>4. /\ Config[p].max_data \in Nat /\ Config[p].max_stream_data \in Nat
      /\ \A d \in Dir : /\ Config[p].max_streams[d] \in Nat
                        /\ Config[e].max_streams[d] \in Nat
                        /\ Config[p].max_streams[d] <= kMaxStreamsLimit
  BY <1>1, ConfigAssumption, LimitAssumption
<1> HIDE DEF s, r, e
<1>5. \A K, P : Chain(s.out, K, P, 0, 0)
  <2> TAKE K, P
  <2>1. <<>> \in Seq(Capsule) /\ None(<<>>, K) /\ None(<<>>, P)
    BY EmptyQueue
  <2> DEFINE n == 0
  <2>2. n \in Nat
    OBVIOUS
  <2> HIDE DEF n
  <2>3. Chain(<<>>, K, P, n, n)
    BY <2>1, <2>2, ChainNone
  <2> QED
    BY <1>2, <2>3 DEF n
<1>6. Whole(s, r)
  <2>1. None(s.out, Closes) /\ None(s.out, Unfit)
    BY <1>2, EmptyQueue
  <2>2. Total(s, r)
    BY <1>2, <1>3, <1>5 DEF Total
  <2>3. SessionLimit(s, r)
    BY <1>2, <1>3, <1>4, EmptyQueue DEF SessionLimit
  <2>4. ASSUME NEW d \in Dir PROVE CountLimit(s, r, d)
    <3>1. s.streams_opened[d] = 0
      BY <1>2
    <3>2. Rising(s.out, MaxStreamsOf(d), r.received_max_streams[d])
          /\ AtMost(s.out, MaxStreamsOf(d), s.max_streams_remote[d])
      BY <1>2, EmptyQueue
    <3> QED
      BY <1>2, <1>3, <1>4, <3>1, <3>2 DEF CountLimit
  <2> QED
    BY <1>2, <2>1, <2>2, <2>3, <2>4 DEF Whole
<1>7. ASSUME NEW id \in StreamId PROVE Parts(p, s, r, id)
  <2>1. /\ s.seen[id] = "live" /\ r.seen[id] = "live"
        /\ s.streams[id] = NoStream /\ r.streams[id] = NoStream
        /\ r.received_max_stream_data_by_id[id] = Absent
    BY <1>2, <1>3
  <2>2. /\ NoStream.bytes_received = 0 /\ NoStream.bytes_sent = 0
    BY DEF NoStream
  <2>3. ~Opened(s, id) /\ ~Opened(r, id)
    <3>1. s.streams_opened[DirOf(id)] = 0 /\ r.streams_opened[DirOf(id)] = 0
      BY <1>2, <1>3, IdFacts
    <3> QED
      BY <3>1, IdFacts DEF Opened
  <2>4. Entry(p, s, id)
    BY <1>2, <2>1, <2>2, <2>3 DEF Entry
  <2>5. Born(p, s, r, id)
    BY <1>2, EmptyQueue DEF Born
  <2>6. ~Done(p, s, id)
    BY <1>2, <2>1, <2>3 DEF Done, Past
  <2>7. Way(p, s, r, id)
    <3>1. GrantedBy(e, r, id) = Config[e].max_stream_data /\ Config[e].max_stream_data \in Nat
      BY <1>1, <1>3, ConfigAssumption DEF GrantedBy
    <3>2. /\ Chain(s.out, CarriersOf(id), DataOf(id), r.streams[id].bytes_received, 0)
          /\ s.streams[id].bytes_sent = 0
          /\ 0 <= GrantedBy(e, r, id)
      BY <1>5, <2>1, <2>2, <3>1
    <3>3. /\ NoneAfter(s.out, EndsOf(id), AboutOf(id))
          /\ None(s.out, EndsOf(id)) /\ None(s.out, AboutOf(id))
      BY <1>2, EmptyQueue
    <3> QED
      BY <2>1, <3>2, <3>3 DEF Way, e
  <2>8. Credit(p, s, r, id)
    <3>1. previous_max_stream_data(r, e, id) = Config[p].max_stream_data
      BY <1>1, <1>3, <2>1 DEF previous_max_stream_data
    <3>2. GrantedBy(p, s, id) = Config[p].max_stream_data
      BY <1>2 DEF GrantedBy
    <3>3. \A n : Rising(s.out, RaisesOf(id), n) /\ AtMost(s.out, RaisesOf(id), n)
      BY <1>2, EmptyQueue
    <3> QED
      BY <1>3, <1>4, <3>1, <3>2, <3>3 DEF Credit, e
  <2>9. Stopped(s, r, id)
    <3>1. ~has_received_stop_sending(r, id)
      BY <1>3 DEF has_received_stop_sending
    <3> QED
      BY <1>2, <3>1, EmptyQueue DEF Stopped
  <2>10. Directed(p, s, id)
    BY <1>2, EmptyQueue DEF Directed
  <2> QED
    BY <2>4, <2>5, <2>7, <2>8, <2>9, <2>10 DEF Parts
<1>8. One(p, s, r)
  BY <1>6, <1>7 DEF One
<1> QED
  BY <1>8 DEF s, r, e

LEMMA InitPair == Init => PairInv
<1> SUFFICES ASSUME Init, NEW e \in End PROVE Pair(e, wt[e], wt[Peer(e)])
  BY DEF PairInv
<1>1. /\ Peer(e) \in End /\ Peer(Peer(e)) = e
      /\ wt[e] = InitialSession(e) /\ wt[Peer(e)] = InitialSession(Peer(e))
  BY PeerPeer DEF Init
<1>2. One(e, wt[e], wt[Peer(e)])
  BY <1>1, InitOne
<1>3. One(Peer(e), wt[Peer(e)], wt[e])
  BY <1>1, InitOne
<1> QED
  BY <1>2, <1>3 DEF Pair

(* Both ends run this code: what the invariant says of e and its peer.     *)
LEMMA BothEnds ==
    ASSUME All, Impl = End, NEW e \in End
    PROVE  /\ e \in Impl /\ Peer(e) \in End /\ Peer(e) # e /\ Peer(Peer(e)) = e
           /\ wt \in [End -> WtSessionInfo]
           /\ Good(wt[e]) /\ Local(e, wt[e]) /\ Good(wt[Peer(e)])
           /\ Pair(e, wt[e], wt[Peer(e)])
<1>1. e \in Impl /\ Peer(e) \in End /\ Peer(e) # e /\ Peer(Peer(e)) = e
  BY PeerPeer, ImplEnd
<1> QED
  BY <1>1 DEF All, Both, Inv, TypeOK, LocalInv, PairInv

(* A step of e that leaves the peer alone.                                 *)
LEMMA SetSessionPair ==
    ASSUME All, Impl = End, NEW e \in End, NEW s, Pair(e, s, wt[Peer(e)]),
           wt' = [wt EXCEPT ![e] = s]
    PROVE  PairInv'
<1> DEFINE p == Peer(e)
<1>1. p \in End /\ p # e /\ Peer(p) = e /\ wt \in [End -> WtSessionInfo]
  BY BothEnds
<1>2. \A o \in End : o = e \/ o = p
  BY DEF End, Peer
<1>3. wt'[e] = s /\ wt'[p] = wt[p]
  BY <1>1
<1>4. Pair(p, wt[p], s)
  BY PairSwap
<1>5. Pair(e, wt'[e], wt'[Peer(e)]) /\ Pair(p, wt'[p], wt'[Peer(p)])
  BY <1>1, <1>3, <1>4
<1>6. \A o \in End : Pair(o, wt'[o], wt'[Peer(o)])
  BY <1>2, <1>5
<1> QED
  BY <1>6 DEF PairInv

LEMMA ReceivePair ==
    ASSUME All, Impl = End, NEW e \in End, NEW s, Pair(e, s, Popped(wt[Peer(e)])),
           Receive(e, s)
    PROVE  PairInv'
<1> DEFINE p == Peer(e)
           t == Popped(wt[p])
<1>1. p \in End /\ p # e /\ Peer(p) = e /\ wt \in [End -> WtSessionInfo]
  BY BothEnds
<1>2. \A o \in End : o = e \/ o = p
  BY DEF End, Peer
<1>3. wt' = [[wt EXCEPT ![p] = t] EXCEPT ![e] = s]
  BY DEF Receive, Popped
<1>4. Pair(p, t, s)
  BY PairSwap
<1> HIDE DEF t
<1>5. wt'[e] = s /\ wt'[p] = t
  BY <1>1, <1>3
<1>6. Pair(e, wt'[e], wt'[Peer(e)]) /\ Pair(p, wt'[p], wt'[Peer(p)])
  BY <1>1, <1>4, <1>5 DEF t
<1>7. \A o \in End : Pair(o, wt'[o], wt'[Peer(o)])
  BY <1>2, <1>6
<1> QED
  BY <1>7 DEF PairInv

LEMMA OpenStreamStep ==
    ASSUME All, Impl = End, NEW e \in End, NEW d \in Dir, OpenStream(e, d)
    PROVE  PairInv'
<1> DEFINE s == wt[e]
           id == build_stream_id(e, d, s.streams_opened[d])
           t == [new_stream(s, e, id) EXCEPT !.streams_opened[d] = @ + 1,
                                             !.seen[id] = "live"]
<1>1. Good(s) /\ Good(wt[Peer(e)]) /\ Pair(e, s, wt[Peer(e)])
  BY BothEnds
<1>2. /\ s.streams_opened[d] < s.max_streams_local[d]
      /\ s.streams_opened[d] < MaxStreamCount
      /\ id \notin s.ids /\ Call(e, t)
  BY DEF OpenStream
<1> HIDE DEF s
<1>3. Pair(e, t, wt[Peer(e)])
  BY <1>1, <1>2, OpenStreamPair
<1> HIDE DEF t
<1> QED
  BY <1>2, <1>3, SetSessionPair DEF Call

LEMMA OpenStreamBlockedStep ==
    ASSUME All, Impl = End, NEW e \in End, NEW d \in Dir, OpenStreamBlocked(e, d)
    PROVE  PairInv'
<1> DEFINE s == wt[e]
           type == IF d = "uni" THEN "WT_STREAMS_BLOCKED_UNI" ELSE "WT_STREAMS_BLOCKED_BIDI"
           u == send_capsule(s, type, 0, s.max_streams_local[d])
           t == [u EXCEPT !.streams_blocked_sent = @ \cup {d}]
<1>1. Good(s) /\ Good(wt[Peer(e)]) /\ Pair(e, s, wt[Peer(e)])
  BY BothEnds
<1>2. s.status = "open" /\ Call(e, t)
  BY DEF OpenStreamBlocked, Callable
<1> HIDE DEF s
<1>3. Good(t)
  <2>1. s.max_streams_local[d] \in Nat /\ type \in CapsuleType
    BY <1>1, GoodFields DEF CapsuleType, StreamsBlockedCapsules, WtSessionInfo
  <2> HIDE DEF type
  <2>2. Good(u)
    BY <1>1, <2>1, SendCapsule, ZeroId
  <2> HIDE DEF u
  <2>3. t \in WtSessionInfo
    BY <2>2 DEF Good, WtSessionInfo
  <2>4. /\ t.ids = u.ids /\ t.streams = u.streams
        /\ t.bytes_sent = u.bytes_sent /\ t.max_data_local = u.max_data_local
        /\ t.bytes_received = u.bytes_received
        /\ t.max_data_remote = u.max_data_remote
    BY <2>2 DEF Good, WtSessionInfo
  <2> HIDE DEF t
  <2> QED
    BY <2>2, <2>3, <2>4 DEF Good, SessionCredit
<1>4. Pair(e, t, wt[Peer(e)])
  BY <1>1, <1>2, <1>3, StreamsBlockedPair
<1> HIDE DEF t
<1> QED
  BY <1>2, <1>4, SetSessionPair DEF Call

LEMMA CallsPair ==
    ASSUME All, Impl = End, NEW e \in End, ApplicationCall(e)
    PROVE  PairInv'
<1> DEFINE s == wt[e]
           r == wt[Peer(e)]
<1>1. Good(s) /\ Good(r) /\ Pair(e, s, r) /\ Local(e, s)
  BY BothEnds
<1>2. s.status = "open"
  BY DEF ApplicationCall, OpenStream, OpenStreamBlocked, SendStreamData, ResetStream,
         StopSending, CloseSession, Callable
<1>3. ASSUME NEW d \in Dir, OpenStream(e, d) \/ OpenStreamBlocked(e, d) PROVE PairInv'
  BY <1>3, OpenStreamStep, OpenStreamBlockedStep
<1>4. ASSUME NEW id \in StreamId, NEW n \in WriteSizes, NEW fin \in BOOLEAN,
             SendStreamData(e, id, n, fin)
      PROVE  PairInv'
  <2>1. /\ n \in Nat /\ id \in s.ids /\ is_sendable_stream(e, id)
        /\ s.streams[id].send_state \notin SendDone
        /\ Call(e, send_stream_data(s, e, id, n, fin))
    BY <1>4, BoundAssumption DEF SendStreamData
  <2> HIDE DEF s, r
  <2>2. Pair(e, send_stream_data(s, e, id, n, fin), r)
    BY <1>1, <1>2, <2>1, SendStreamDataPair
  <2> QED
    BY <2>1, <2>2, SetSessionPair DEF Call, r
<1>5. ASSUME NEW id \in StreamId, ResetStream(e, id) PROVE PairInv'
  <2>1. /\ id \in s.ids /\ s.streams[id].send_state \notin SendDone
        /\ Disciplined => is_sendable_stream(e, id)
        /\ Call(e, reset_stream(s, e, id))
    BY <1>5 DEF ResetStream
  <2> HIDE DEF s, r
  <2>2. Pair(e, reset_stream(s, e, id), r)
    BY <1>1, <1>2, <2>1, ResetStreamPair
  <2> QED
    BY <2>1, <2>2, SetSessionPair DEF Call, r
<1>6. ASSUME NEW id \in StreamId, StopSending(e, id) PROVE PairInv'
  <2>1. /\ id \in s.ids /\ id \notin s.sent_stop_sending_stream_ids
        /\ Disciplined => is_receivable_data_capsule(e, id)
        /\ Call(e, stop_sending(s, id))
    BY <1>6 DEF StopSending
  <2> HIDE DEF s, r
  <2>2. Pair(e, stop_sending(s, id), r)
    BY <1>1, <1>2, <2>1, StopSendingPair
  <2> QED
    BY <2>1, <2>2, SetSessionPair DEF Call, r
<1>7. CASE CloseSession(e)
  <2>1. Call(e, close_session(s, "app")) /\ "app" \in Reason
    BY <1>7 DEF CloseSession, Reason
  <2> HIDE DEF s, r
  <2>2. Pair(e, close_session(s, "app"), r)
    BY <1>1, <1>2, <2>1, ClosePair
  <2> QED
    BY <2>1, <2>2, SetSessionPair DEF Call, r
<1> QED
  BY <1>3, <1>4, <1>5, <1>6, <1>7 DEF ApplicationCall

LEMMA FlushPair ==
    ASSUME All, Impl = End, NEW e \in End, Flush(e)
    PROVE  PairInv'
<1> DEFINE s == wt[e]
           r == wt[Peer(e)]
<1>1. Good(s) /\ Good(r) /\ Pair(e, s, r) /\ Local(e, s)
  BY BothEnds
<1>2. s.flushing
  BY DEF Flush, FlushPendingSends, FlushReturns
<1>3. s.status = "open"
  BY <1>1, <1>2 DEF Local, Quiet
<1>4. CASE FlushPendingSends(e)
  <2>1. PICK id \in Flushable(s) : wt' = [wt EXCEPT ![e] = flush_one(s, e, id)]
    BY <1>4 DEF FlushPendingSends
  <2>2. Pair(e, flush_one(s, e, id), r)
    BY <1>1, <1>3, FlushOnePair
  <2> QED
    BY <2>1, <2>2, SetSessionPair
<1>5. CASE FlushReturns(e)
  <2>1. Pair(e, flush_returns(s), r)
    BY <1>1, FlushReturnsPair
  <2> QED
    BY <1>5, <2>1, SetSessionPair DEF FlushReturns
<1> QED
  BY <1>4, <1>5 DEF Flush

(* A capsule that is ignored in an open session carries no data.           *)
LEMMA IgnoredEmpty ==
    ASSUME NEW s, NEW e, NEW c, s.status = "open", process_capsule(s, e, c) = "ignore"
    PROVE  Size(c, Carriers) = 0
<1>1. CASE c.type \in StreamCapsules
  <2>1. wt_stream_verdict(s, e, c) = "ignore"
    BY <1>1 DEF process_capsule, capsule_verdict, StreamCapsules, MaxStreamsCapsules,
                StreamsBlockedCapsules
  <2>2. c.len = 0
    BY <2>1 DEF wt_stream_verdict
  <2> QED
    BY <2>2 DEF Size
<1>2. CASE c.type \notin StreamCapsules
  BY <1>2 DEF Size, Carriers
<1> QED
  BY <1>1, <1>2

LEMMA AcceptedStop ==
    ASSUME NEW s, NEW e, NEW c, process_capsule(s, e, c) = "accept",
           c.type = "WT_STOP_SENDING"
    PROVE  wt_stop_sending_verdict(s, e, c) = "accept"
BY DEF process_capsule, capsule_verdict, StreamCapsules, MaxStreamsCapsules,
       StreamsBlockedCapsules

(* Between two ends of this code a capsule is refused only when an         *)
(* application does not respect directions; the session is then closed.    *)
LEMMA RefusedPair ==
    ASSUME NEW p \in End, NEW s, Good(s), NEW r, Good(r), Pair(p, s, r),
           r.out # <<>>, NEW c, c = Head(r.out), NEW why, why = process_capsule(s, p, c),
           why \in {"stream_state", "flow_control", "wt_error"}
    PROVE  Pair(p, close_session(s, why), Popped(r))
<1> DEFINE t == close_session(s, why)
<1>1. s.status = "open"
  BY DEF process_capsule
<1>2. why \in Reason /\ ~Disciplined
  BY NeverRefused DEF Reason, Fine
<1>3. Pair(p, t, r)
  BY <1>1, <1>2, ClosePair
<1>4. Good(t)
  BY <1>2, CloseSessionGood
<1>5. t.status # "open"
  <2>1. s \in WtSessionInfo
    BY GoodFields
  <2> QED
    BY <2>1 DEF close_session, send_capsule, WtSessionInfo
<1> HIDE DEF t
<1>6. Pair(p, t, Popped(r))
  BY <1>3, <1>4, <1>5, IgnoredPair
<1> QED
  BY <1>6 DEF t

LEMMA NeverMalformed ==
    ASSUME NEW p \in End, NEW s, NEW r, Good(r), Pair(p, s, r), r.out # <<>>,
           NEW c, c = Head(r.out)
    PROVE  process_capsule(s, p, c) # "malformed"
<1>1. r.out \in Seq(Capsule) /\ None(r.out, Unfit)
  BY GoodFields DEF Pair, One, Whole
<1>2. c \in Capsule /\ c \notin Unfit
  BY <1>1, TailFacts, NonePresent
<1>3. c.form = "ok" /\ c.type \in CapsuleType
  BY <1>2 DEF Unfit, Capsule
<1>4. /\ wt_stream_verdict(s, p, c) # "malformed"
      /\ wt_reset_stream_verdict(s, p, c) # "malformed"
      /\ wt_stop_sending_verdict(s, p, c) # "malformed"
      /\ wt_max_stream_data_verdict(s, p, c) # "malformed"
      /\ wt_max_streams_verdict(s, c) # "malformed"
      /\ wt_stream_data_blocked_verdict(s, p, c) # "malformed"
  BY DEF wt_stream_verdict, wt_reset_stream_verdict, wt_stop_sending_verdict,
         wt_max_stream_data_verdict, wt_max_streams_verdict,
         wt_stream_data_blocked_verdict
<1>5. capsule_verdict(s, p, c) # "malformed"
  BY <1>3, <1>4 DEF capsule_verdict, CapsuleType, StreamCapsules, MaxStreamsCapsules,
                    StreamsBlockedCapsules
<1> QED
  BY <1>3, <1>5 DEF process_capsule

LEMMA CapsulesPair ==
    ASSUME All, Impl = End, NEW e \in End, ProcessCapsule(e)
    PROVE  PairInv'
<1> DEFINE s == wt[e]
           r == wt[Peer(e)]
           c == Arriving(e)
<1>1. Good(s) /\ Good(r) /\ Pair(e, s, r)
  BY BothEnds
<1>2. r.out # <<>> /\ c = Head(r.out)
  BY DEF ProcessCapsule, HandleWtStream, HandleWtResetStream, HandleWtStopSending,
         HandleWtMaxData, HandleWtMaxStreamData, HandleWtMaxStreams,
         HandleWtCloseSession, IgnoreCapsule, RefuseMalformed, RefuseCapsule,
         Accepts, Arrives, Arriving
<1>3. ASSUME NEW t, Receive(e, t), Pair(e, t, Popped(r)) PROVE PairInv'
  BY <1>3, ReceivePair
<1>4. CASE HandleWtStream(e)
  <2>1. /\ process_capsule(s, e, c) = "accept" /\ c.type \in StreamCapsules
        /\ Receive(e, handle_wt_stream(s, e, c))
    BY <1>4 DEF HandleWtStream, Accepts, Arrives
  <2> HIDE DEF s, r, c
  <2>2. Pair(e, handle_wt_stream(s, e, c), Popped(r))
    BY <1>1, <1>2, <2>1, Accepted, HandleWtStreamPair
  <2> QED
    BY <1>3, <2>1, <2>2
<1>5. CASE HandleWtResetStream(e)
  <2>1. /\ process_capsule(s, e, c) = "accept" /\ c.type = "WT_RESET_STREAM"
        /\ Receive(e, handle_wt_reset_stream(s, e, c))
    BY <1>5 DEF HandleWtResetStream, Accepts, Arrives
  <2> HIDE DEF s, r, c
  <2>2. Pair(e, handle_wt_reset_stream(s, e, c), Popped(r))
    BY <1>1, <1>2, <2>1, Accepted, HandleWtResetStreamPair
  <2> QED
    BY <1>3, <2>1, <2>2
<1>6. CASE HandleWtStopSending(e)
  <2>1. /\ process_capsule(s, e, c) = "accept" /\ c.type = "WT_STOP_SENDING"
        /\ Receive(e, handle_wt_stop_sending(s, e, c))
    BY <1>6 DEF HandleWtStopSending, Accepts, Arrives
  <2> HIDE DEF s, r, c
  <2>2. Pair(e, handle_wt_stop_sending(s, e, c), Popped(r))
    BY <1>1, <1>2, <2>1, Accepted, AcceptedStop, HandleWtStopSendingPair
  <2> QED
    BY <1>3, <2>1, <2>2
<1>7. CASE HandleWtMaxData(e)
  <2>1. c.type = "WT_MAX_DATA" /\ Receive(e, handle_wt_max_data(s, c))
    BY <1>7 DEF HandleWtMaxData, Accepts
  <2> HIDE DEF s, r, c
  <2>2. Pair(e, handle_wt_max_data(s, c), Popped(r))
    BY <1>1, <1>2, <2>1, HandleWtMaxDataPair
  <2> QED
    BY <1>3, <2>1, <2>2
<1>8. CASE HandleWtMaxStreamData(e)
  <2>1. c.type = "WT_MAX_STREAM_DATA" /\ Receive(e, handle_wt_max_stream_data(s, c))
    BY <1>8 DEF HandleWtMaxStreamData, Accepts
  <2> HIDE DEF s, r, c
  <2>2. Pair(e, handle_wt_max_stream_data(s, c), Popped(r))
    BY <1>1, <1>2, <2>1, HandleWtMaxStreamDataPair
  <2> QED
    BY <1>3, <2>1, <2>2
<1>9. CASE HandleWtMaxStreams(e)
  <2>1. c.type \in MaxStreamsCapsules /\ Receive(e, handle_wt_max_streams(s, c))
    BY <1>9 DEF HandleWtMaxStreams, Accepts
  <2> HIDE DEF s, r, c
  <2>2. Pair(e, handle_wt_max_streams(s, c), Popped(r))
    BY <1>1, <1>2, <2>1, HandleWtMaxStreamsPair
  <2> QED
    BY <1>3, <2>1, <2>2
<1>10. CASE HandleWtCloseSession(e)
  <2>1. c.type = "WT_CLOSE_SESSION" /\ Receive(e, handle_wt_close_session(s))
    BY <1>10 DEF HandleWtCloseSession, Accepts
  <2> HIDE DEF s, r, c
  <2>2. Pair(e, handle_wt_close_session(s), Popped(r))
    BY <1>1, <1>2, <2>1, HandleWtCloseSessionPair
  <2> QED
    BY <1>3, <2>1, <2>2
<1>11. CASE IgnoreCapsule(e)
  <2>1. process_capsule(s, e, c) = "ignore" /\ Receive(e, s)
    BY <1>11 DEF IgnoreCapsule, Arrives
  <2> HIDE DEF s, r, c
  <2>2. s.status = "open" => Size(c, Carriers) = 0
    BY <2>1, IgnoredEmpty
  <2>3. Pair(e, s, Popped(r))
    BY <1>1, <1>2, <2>2, IgnoredPair
  <2> QED
    BY <1>3, <2>1, <2>3
<1>12. CASE RefuseMalformed(e)
  <2>1. process_capsule(s, e, c) = "malformed"
    BY <1>12 DEF RefuseMalformed, Arrives
  <2> HIDE DEF s, r, c
  <2> QED
    BY <1>1, <1>2, <2>1, NeverMalformed
<1>13. CASE RefuseCapsule(e)
  <2> DEFINE why == process_capsule(s, e, c)
  <2>1. /\ why \in {"stream_state", "flow_control", "wt_error"}
        /\ Receive(e, close_session(s, why))
    BY <1>13 DEF RefuseCapsule, Arrives
  <2> HIDE DEF s, r, c
  <2>2. Pair(e, close_session(s, why), Popped(r))
    BY <1>1, <1>2, <2>1, RefusedPair
  <2> QED
    BY <1>3, <2>1, <2>2
<1> QED
  BY <1>4, <1>5, <1>6, <1>7, <1>8, <1>9, <1>10, <1>11, <1>12, <1>13 DEF ProcessCapsule

LEMMA NextAll == All /\ [Next]_vars => All'
<1> SUFFICES ASSUME All, [Next]_vars PROVE All'
  OBVIOUS
<1>1. Both'
  BY NextBoth DEF All
<1>2. PairInv'
  <2>1. CASE UNCHANGED vars
    BY <2>1 DEF All, PairInv, vars
  <2>2. CASE Next
    <3>1. CASE Impl # End
      BY <3>1 DEF PairInv
    <3>2. CASE Impl = End
      <4>1. PICK e \in End : \/ ProcessCapsule(e)
                             \/ Flush(e)
                             \/ ApplicationCall(e)
                             \/ \E c \in PeerCapsules : PeerSends(e, c)
        BY <2>2 DEF Next
      <4>2. ~\E c \in PeerCapsules : PeerSends(e, c)
        BY <3>2 DEF PeerSends
      <4> QED
        BY <3>2, <4>1, <4>2, CapsulesPair, FlushPair, CallsPair
    <3> QED
      BY <3>1, <3>2
  <2> QED
    BY <2>1, <2>2
<1> QED
  BY <1>1, <1>2 DEF All

LEMMA AllHolds == Spec => []All
<1>1. Init => All
  BY InitInv, InitLocal, InitPair DEF All, Both
<1> QED
  BY <1>1, NextAll, PTL DEF Spec

-----------------------------------------------------------------------------
(* Between two ends of this code, for every configuration and any number   *)
(* of streams and writes: the bytes of a stream are processed in the order *)
(* they were written, none missing and none twice, whether they went out   *)
(* from send_stream_data or from flush_pending_sends.                      *)
THEOREM AlwaysInOrder == Spec => []InOrder
<1>1. All => InOrder
  <2> SUFFICES ASSUME All, NEW e \in Impl, Peer(e) \in Impl, wt[Peer(e)].out # <<>>,
                      wt[e].status = "open", Arriving(e).type \in StreamCapsules
               PROVE  Arriving(e).off = wt[e].streams[Arriving(e).id].bytes_received
    BY DEF InOrder
  <2> DEFINE s == wt[e]
             p == Peer(e)
             r == wt[p]
             c == Arriving(e)
  <2>1. Impl = End /\ e \in End /\ p \in End
    BY ImplEnd, ImplAssumption DEF End, Peer
  <2>2. /\ Good(s) /\ Good(r) /\ Pair(e, s, r) /\ s.status = "open" /\ r.out # <<>>
        /\ c = Head(r.out) /\ c.type \in StreamCapsules
    BY <2>1, BothEnds DEF Arriving
  <2> HIDE DEF s, r, c
  <2>3. r.out \in Seq(Capsule) /\ c \in Capsule /\ c.id \in StreamId
    <3>1. r.out \in Seq(Capsule)
      BY <2>2, GoodFields
    <3>2. c \in Capsule
      BY <2>2, <3>1, TailFacts
    <3> QED
      BY <3>1, <3>2, Naturals
  <2>4. c \in CarriersOf(c.id) /\ c \in DataOf(c.id) /\ c \in AboutOf(c.id)
    BY <2>2, <2>3, KindsOf
  <2>5. is_receivable_data_capsule(e, c.id)
    <3>1. One(p, r, s) /\ Peer(p) = e
      BY <2>1, <2>2, PeerPeer DEF Pair
    <3>2. Directed(p, r, c.id)
      BY <2>3, <3>1, OneParts
    <3>3. is_sendable_stream(p, c.id)
      BY <2>2, <2>3, <2>4, <3>2, HeadIs DEF Directed
    <3> QED
      BY <2>1, <2>3, <3>1, <3>3, Directions
  <2>6. Place(c) = s.streams[c.id].bytes_received
    BY <2>1, <2>2, <2>3, <2>4, <2>5, Expected
  <2>7. c.off = s.streams[c.id].bytes_received
    BY <2>2, <2>6 DEF Place, StreamCapsules
  <2> QED
    BY <2>7 DEF s, c
<1> QED
  BY <1>1, AllHolds, PTL

(* Between two ends of this code the application is told once that a       *)
(* stream has ended, by a FIN or by a reset, and nothing after it, however *)
(* many streams have come and gone (handle_wt_stream,                      *)
(* handle_wt_reset_stream, maybe_release_stream).                          *)
THEOREM AlwaysEndsOnce == Spec => [](Impl = End => EndsOnce)
<1>1. All => (Impl = End => EndsOnce)
  <2> SUFFICES ASSUME All, Impl = End, NEW e \in Impl, NEW id \in StreamId
               PROVE  wt[e].seen[id] \in {"live", "ended"}
    BY DEF EndsOnce
  <2>1. One(e, wt[e], wt[Peer(e)])
    BY BothEnds DEF Pair
  <2> QED
    BY <2>1, OneParts DEF Entry
<1> QED
  BY <1>1, AllHolds, PTL

(* Two ends of this code whose applications respect the directions of      *)
(* streams never close the session on each other: whatever is written,     *)
(* reset, stopped, released or raised while capsules are in flight, no     *)
(* capsule is refused (process_capsule and the handlers it calls).         *)
THEOREM AlwaysNoPeerError == Spec => [](Disciplined => NoPeerError)
<1>1. All => (Disciplined => NoPeerError)
  <2> SUFFICES ASSUME All, Disciplined, Impl = End, NEW e \in End
               PROVE  wt[e].reason \in {"none", "app"}
    BY DEF NoPeerError
  <2>1. Whole(wt[e], wt[Peer(e)])
    BY BothEnds DEF Pair, One
  <2> QED
    BY <2>1 DEF Whole
<1> QED
  BY <1>1, AllHolds, PTL

=============================================================================
