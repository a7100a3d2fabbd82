------------------------ MODULE H2Lifecycle_proofs ------------------------
(***************************************************************************)
(* Proofs about H2Lifecycle, for every limit, any number of capsules and   *)
(* any peer: what the application is told of a session, and what an end    *)
(* sends when it closes one; and that two ends of this code end a session  *)
(* only because an application does.                                       *)
(*                                                                         *)
(* The functions of the source are transformers of a session record.  Most *)
(* of them only take away (Drops): they end the session, its capsules and  *)
(* its buffer, and the invariant follows for all of them at once.          *)
(***************************************************************************)
EXTENDS H2Lifecycle, TLAPS

(* HEADERS: each end sends one.                                            *)
Header(f) == f.t \in {"request", "ok", "refused"}
HasHeader(w) == \E i \in DOMAIN w : Header(w[i])
OneHeader(w) == \A i, j \in DOMAIN w : Header(w[i]) /\ Header(w[j]) => i = j

(* Has e written its HEADERS, and has e, our end, taken those of its peer? *)
Began(e) == IF e = "client" /\ e \notin foreign THEN h[e].opened
                                                ELSE h[e].response # "none"
Met(e) == IF e = "server" THEN h[e].opened ELSE h[e].ready # 0

HeadersOnce(e) ==
    /\ OneHeader(wire[e])
    /\ HasHeader(wire[e]) => Began(e)
    /\ Peer(e) \notin foreign /\ (HasHeader(wire[e]) \/ ~Began(e)) => ~Met(Peer(e))

(* No event after the last one: a session is over when its entry is gone.  *)
Once(s) == /\ s.ready <= 1 /\ s.over <= 1 /\ ~s.late
           /\ s.entry => s.over = 0

(* Before the HTTP/2 stream is open there is no session.                   *)
Fresh(s) == ~s.opened => /\ ~s.entry /\ s.over = 0 /\ s.ready = 0
                         /\ s.out = <<>> /\ s.response = "none"

(* A server's session that is answered is established or terminated, and   *)
(* only that of an answered one processes capsules.                        *)
Answered(s) ==
    /\ s.entry /\ s.response # "none" => s.is_established \/ s.is_terminated
    /\ s.is_established \/ s.running # "no" => s.response # "none"

(* An application that waits for SessionReady does not terminate earlier.  *)
Waits(s) == s.ready = 0 => s.running = "no" /\ ~s.is_established /\ ~s.is_terminated

(* WT_CLOSE_SESSION is the last capsule on the wire w and in the buffer o. *)
IsClose(c) == c # <<>> /\ c[1].k = "CLOSE"
NoClose(w, o) == /\ \A i \in DOMAIN w : ~IsClose(w[i].c)
                 /\ \A i \in DOMAIN o : o[i].k # "CLOSE"
CloseLast(w, o) ==
    /\ \A i \in DOMAIN w : IsClose(w[i].c) =>
          o = <<>> /\ \A j \in DOMAIN w : j > i => w[j].c = <<>>
    /\ \A i \in DOMAIN o : o[i].k = "CLOSE" => i = Len(o)

Told(e, s) == /\ Once(s) /\ Fresh(s)
              /\ e = "server" => Answered(s)
              /\ e = "client" /\ ~early => Waits(s)
              /\ s.running = "accept" => e = "server"

(* No capsule of a session that is not terminated, or not begun, is        *)
(* WT_CLOSE_SESSION.                                                       *)
Closes(w, s) == /\ CloseLast(w, s.out)
                /\ (s.entry /\ ~s.is_terminated) \/ ~s.opened => NoClose(w, s.out)

Inv == /\ \A e \in End : HeadersOnce(e)
       /\ \A e \in End \ foreign : Told(e, h[e])
       /\ \A e \in End \ foreign : ~early => Closes(wire[e], h[e])
       /\ \A e \in End \cap foreign : h[e].running = "no"

-----------------------------------------------------------------------------
(* What the functions of the source do to a session record.                *)

(* The types of updated records.  The provers handle them well when the    *)
(* set of the Boolean fields is a parameter.                               *)
RecordOf(B) ==
    [entry : B, is_established : B, is_terminated : B, pre_accept_end_stream : B,
     capsule_buffer : Seq(Capsule), running : Running, out : Seq(Capsule),
     end_stream_pending : B, rst_pending : B, response : {"none", "ok", "refused"},
     reader : B, opened : B, sent_end : B, got_end : B, closed : B,
     advertised : Nat, received_max : Nat, reason : Reason,
     settings : B, goaway_received : B, ready : Nat, over : Nat, late : B]

LEMMA RecordIs ==
    /\ Record = RecordOf(BOOLEAN)
    /\ TRUE \in BOOLEAN /\ FALSE \in BOOLEAN
    /\ <<>> \in Seq(Capsule)
  BY DEF Record, RecordOf

LEMMA OverType ==
    ASSUME NEW B, NEW r \in RecordOf(B), NEW n \in Nat
    PROVE  [r EXCEPT !.over = n] \in RecordOf(B)
  BY Zenon DEF RecordOf

LEMMA SessionOverType ==
    ASSUME NEW B, NEW r \in RecordOf(B), NEW f \in B, NEW g \in B, NEW nil \in Seq(Capsule)
    PROVE  [r EXCEPT !.entry = f, !.is_established = f, !.is_terminated = f,
                     !.pre_accept_end_stream = f, !.capsule_buffer = nil, !.out = nil,
                     !.end_stream_pending = g] \in RecordOf(B)
  BY ZenonT(30) DEF RecordOf

LEMMA StreamCloseType ==
    ASSUME NEW B, NEW r \in RecordOf(B), NEW f \in B, NEW g \in B, NEW nil \in Seq(Capsule)
    PROVE  [r EXCEPT !.entry = f, !.is_established = f, !.is_terminated = f,
                     !.pre_accept_end_stream = f, !.capsule_buffer = nil, !.out = nil,
                     !.end_stream_pending = f, !.rst_pending = f,
                     !.closed = g] \in RecordOf(B)
  BY ZenonT(30) DEF RecordOf

LEMMA GotEndType ==
    ASSUME NEW B, NEW r \in RecordOf(B), NEW g \in B
    PROVE  [r EXCEPT !.got_end = g] \in RecordOf(B)
  BY Zenon DEF RecordOf

LEMMA RecordFields ==
    ASSUME NEW s \in Record
    PROVE  /\ s.entry \in BOOLEAN /\ s.is_established \in BOOLEAN
           /\ s.is_terminated \in BOOLEAN /\ s.late \in BOOLEAN
           /\ s.capsule_buffer \in Seq(Capsule) /\ s.out \in Seq(Capsule)
           /\ s.advertised \in Nat /\ s.received_max \in Nat
           /\ s.ready \in Nat /\ s.over \in Nat /\ s.reason \in Reason
           /\ s.running \in Running /\ s.response \in {"none", "ok", "refused"}
  BY DEF Record

(* A function that adds no capsule: it leaves the session as it is, or     *)
(* takes away from it.                                                     *)
Drops(s, t) ==
    /\ t \in Record /\ Once(t)
    /\ t.opened = s.opened /\ t.ready = s.ready /\ t.response = s.response
    /\ t.running = s.running
    /\ t.advertised = s.advertised /\ t.received_max = s.received_max
    /\ t.entry => s.entry
    /\ ~s.entry => t.over = s.over
    /\ t.out = s.out \/ t.out = <<>>
    /\ t.capsule_buffer = s.capsule_buffer \/ t.capsule_buffer = <<>>
    /\ ~t.entry => t.capsule_buffer = <<>> \/ ~s.entry
    /\ t.is_established => s.is_established
    /\ t.is_terminated => s.is_terminated \/ s.is_established
    /\ t.entry /\ s.is_terminated => t.is_terminated
    /\ t.entry /\ s.is_established => t.is_established \/ t.is_terminated
    /\ \/ s.capsule_buffer = <<>> \/ ~s.entry \/ ~s.is_established \/ s.is_terminated
       => t.reason = s.reason

LEMMA DropsRefl ==
    ASSUME NEW s \in Record, Once(s)
    PROVE  Drops(s, s)
  BY DEF Drops

LEMMA DropsTrans ==
    ASSUME NEW s, NEW t, NEW u, Drops(s, t), Drops(t, u)
    PROVE  Drops(s, u)
  BY DEF Drops

(* An event of a session that is not over.                                 *)
LEMMA PushEventSame ==
    ASSUME NEW s \in Record, s.over = 0, ~s.late
    PROVE  push_event(s) = s
<1>1. (s.late \/ s.over > 0) = FALSE /\ s.late = FALSE
  BY RecordFields
<1>2. push_event(s) = [s EXCEPT !.late = FALSE]
  BY <1>1 DEF push_event
<1> QED
  BY <1>1, <1>2 DEF Record

LEMMA PushOver ==
    ASSUME NEW s \in Record, s.over = 0, ~s.late
    PROVE  push_over(s) = [s EXCEPT !.over = 1]
<1>1. push_event(s) = s /\ s.over + 1 = 1
  BY PushEventSame
<1>2. push_over(s) = [s EXCEPT !.over = s.over + 1]
  BY <1>1, Zenon DEF push_over
<1> QED
  BY <1>1, <1>2, Zenon

LEMMA PushReady ==
    ASSUME NEW s \in Record, s.over = 0, ~s.late
    PROVE  push_ready(s) = [s EXCEPT !.ready = @ + 1]
  BY PushEventSame DEF push_ready

LEMMA SessionOverDrops ==
    ASSUME NEW s \in Record, Once(s), s.entry
    PROVE  Drops(s, session_over(s))
<1> DEFINE t == session_over(s)
<1>1. push_over(s) = [s EXCEPT !.over = 1] /\ <<>> \in Seq(Capsule)
  BY PushOver DEF Once
<1>2. t = [[s EXCEPT !.over = 1] EXCEPT !.entry = FALSE, !.is_established = FALSE,
                         !.is_terminated = FALSE, !.pre_accept_end_stream = FALSE,
                         !.capsule_buffer = <<>>, !.out = <<>>,
                         !.end_stream_pending = TRUE]
  BY <1>1 DEF session_over
<1> HIDE DEF t
<1>3. t \in Record
  <2> DEFINE r == [s EXCEPT !.over = 1]
  <2>1. r \in RecordOf(BOOLEAN)
    BY RecordIs, OverType, 1 \in Nat, Zenon
  <2> QED
    BY <1>2, <2>1, RecordIs, SessionOverType, Zenon
<1>4. /\ t.over = 1 /\ ~t.entry /\ ~t.is_established /\ ~t.is_terminated
      /\ t.capsule_buffer = <<>> /\ t.out = <<>>
      /\ t.opened = s.opened /\ t.ready = s.ready /\ t.response = s.response
      /\ t.running = s.running /\ t.late = s.late /\ t.reason = s.reason
      /\ t.advertised = s.advertised /\ t.received_max = s.received_max
  BY <1>2 DEF Record
<1>5. Once(t)
  BY <1>4 DEF Once
<1>6. Drops(s, t)
  BY <1>3, <1>4, <1>5 DEF Drops
<1> QED
  BY <1>6 DEF t

LEMMA StreamCloseDrops ==
    ASSUME NEW s \in Record, Once(s)
    PROVE  /\ Drops(s, stream_close(s)) /\ ~stream_close(s).entry
           /\ stream_close(s).reason = s.reason
<1> DEFINE t == stream_close(s)
           n == IF s.entry THEN 1 ELSE s.over
           r == IF s.entry THEN push_over(s) ELSE s
<1>1. n \in Nat /\ n <= 1 /\ (~s.entry => n = s.over) /\ <<>> \in Seq(Capsule)
  BY RecordFields DEF Once
<1>2. r \in Record /\ r = [s EXCEPT !.over = n]
  <2>1. CASE s.entry
    <3>1. s.over = 0 /\ ~s.late /\ n = 1 /\ r = push_over(s)
      BY <2>1 DEF Once
    <3>2. r = [s EXCEPT !.over = n]
      BY <3>1, PushOver, Zenon
    <3> HIDE DEF r, n
    <3> QED
      BY <1>1, <3>2, RecordIs, OverType, Zenon
  <2>2. CASE ~s.entry
    BY <2>2 DEF Record
  <2> QED
    BY <2>1, <2>2
<1>3. t = [r EXCEPT !.entry = FALSE, !.is_established = FALSE,
               !.is_terminated = FALSE, !.pre_accept_end_stream = FALSE,
               !.capsule_buffer = <<>>, !.out = <<>>,
               !.end_stream_pending = FALSE, !.rst_pending = FALSE,
               !.closed = TRUE]
  BY DEF stream_close
<1> HIDE DEF t, n, r
<1>4. /\ r.over = n /\ r.opened = s.opened /\ r.ready = s.ready /\ r.response = s.response
      /\ r.running = s.running /\ r.late = s.late /\ r.reason = s.reason
      /\ r.advertised = s.advertised /\ r.received_max = s.received_max
  BY <1>2 DEF Record
<1>5. t \in Record
  BY <1>2, <1>3, RecordIs, StreamCloseType, Zenon
<1>6. /\ t.over = r.over /\ ~t.entry /\ ~t.is_established /\ ~t.is_terminated
      /\ t.capsule_buffer = <<>> /\ t.out = <<>>
      /\ t.opened = r.opened /\ t.ready = r.ready /\ t.response = r.response
      /\ t.running = r.running /\ t.late = r.late /\ t.reason = r.reason
      /\ t.advertised = r.advertised /\ t.received_max = r.received_max
  BY <1>2, <1>3 DEF Record
<1>7. Once(t)
  BY <1>1, <1>4, <1>6 DEF Once
<1>8. Drops(s, t)
  BY <1>1, <1>4, <1>5, <1>6, <1>7 DEF Drops
<1> QED
  BY <1>4, <1>6, <1>8 DEF t

LEMMA BothEndedDrops ==
    ASSUME NEW s \in Record, Once(s)
    PROVE  Drops(s, close_if_both_ended(s))
  BY StreamCloseDrops, DropsRefl DEF close_if_both_ended

(* Flags nobody but HTTP/2 looks at.                                       *)
LEMMA GotEndDrops ==
    ASSUME NEW s \in Record, Once(s)
    PROVE  Drops(s, [s EXCEPT !.got_end = TRUE])
<1> DEFINE t == [s EXCEPT !.got_end = TRUE]
<1>0. t \in Record
  BY RecordIs, GotEndType, Zenon
<1>1. /\ t.over = s.over /\ t.entry = s.entry /\ t.is_established = s.is_established
      /\ t.is_terminated = s.is_terminated /\ t.capsule_buffer = s.capsule_buffer
      /\ t.out = s.out /\ t.opened = s.opened /\ t.ready = s.ready /\ t.response = s.response
      /\ t.running = s.running /\ t.late = s.late /\ t.reason = s.reason
      /\ t.advertised = s.advertised /\ t.received_max = s.received_max
  BY DEF Record
<1> HIDE DEF t
<1>2. Once(t)
  BY <1>1 DEF Once
<1>3. Drops(s, t)
  BY <1>0, <1>1, <1>2 DEF Drops
<1> QED
  BY <1>3 DEF t

LEMMA MalformedType ==
    ASSUME NEW B, NEW r \in RecordOf(B), NEW f \in B, NEW g \in B, NEW why \in Reason
    PROVE  [r EXCEPT !.is_terminated = g, !.is_established = f,
                     !.pre_accept_end_stream = f, !.rst_pending = g,
                     !.reason = why] \in RecordOf(B)
  BY ZenonT(30) DEF RecordOf

LEMMA PreAcceptType ==
    ASSUME NEW B, NEW r \in RecordOf(B), NEW g \in B
    PROVE  [r EXCEPT !.pre_accept_end_stream = g] \in RecordOf(B)
  BY Zenon DEF RecordOf

LEMMA MalformedDrops ==
    ASSUME NEW s \in Record, Once(s), s.entry, s.is_established, ~s.is_terminated,
           s.capsule_buffer # <<>>
    PROVE  Drops(s, reset_stream_for_malformed_capsule(s))
<1> DEFINE t == reset_stream_for_malformed_capsule(s)
<1>1. t = [s EXCEPT !.is_terminated = TRUE, !.is_established = FALSE,
                    !.pre_accept_end_stream = FALSE, !.rst_pending = TRUE,
                    !.reason = "malformed"]
  BY DEF reset_stream_for_malformed_capsule
<1> HIDE DEF t
<1>2. "malformed" \in Reason
  BY DEF Reason
<1>3. t \in Record
  BY <1>1, <1>2, RecordIs, MalformedType, Zenon
<1>4. /\ t.over = s.over /\ t.entry = s.entry /\ ~t.is_established /\ t.is_terminated
      /\ t.capsule_buffer = s.capsule_buffer /\ t.out = s.out
      /\ t.opened = s.opened /\ t.ready = s.ready /\ t.response = s.response
      /\ t.running = s.running /\ t.late = s.late
      /\ t.advertised = s.advertised /\ t.received_max = s.received_max
  BY <1>1 DEF Record
<1>5. Once(t)
  BY <1>4 DEF Once
<1>6. Drops(s, t)
  BY <1>3, <1>4, <1>5 DEF Drops
<1> QED
  BY <1>6 DEF t

LEMMA PreAcceptDrops ==
    ASSUME NEW s \in Record, Once(s), NEW g \in BOOLEAN
    PROVE  Drops(s, [s EXCEPT !.pre_accept_end_stream = g])
<1> DEFINE t == [s EXCEPT !.pre_accept_end_stream = g]
<1>0. t \in Record
  BY RecordIs, PreAcceptType, Zenon
<1>1. /\ t.over = s.over /\ t.entry = s.entry /\ t.is_established = s.is_established
      /\ t.is_terminated = s.is_terminated /\ t.capsule_buffer = s.capsule_buffer
      /\ t.out = s.out /\ t.opened = s.opened /\ t.ready = s.ready /\ t.response = s.response
      /\ t.running = s.running /\ t.late = s.late /\ t.reason = s.reason
      /\ t.advertised = s.advertised /\ t.received_max = s.received_max
  BY DEF Record
<1> HIDE DEF t
<1>2. Once(t)
  BY <1>1 DEF Once
<1>3. Drops(s, t)
  BY <1>0, <1>1, <1>2 DEF Drops
<1> QED
  BY <1>3 DEF t

LEMMA HandleEndDrops ==
    ASSUME NEW s \in Record, Once(s), NEW e
    PROVE  Drops(s, handle_end_stream(e, s))
<1>1. CASE ~s.entry \/ s.is_terminated
  BY <1>1, DropsRefl DEF handle_end_stream
<1>2. CASE ~(~s.entry \/ s.is_terminated) /\ ~s.is_established
  <2>1. handle_end_stream(e, s) = [s EXCEPT !.pre_accept_end_stream = (e = "server")]
    BY <1>2 DEF handle_end_stream
  <2>2. (e = "server") \in BOOLEAN
    OBVIOUS
  <2> QED
    BY <2>1, <2>2, PreAcceptDrops, Zenon
<1>3. CASE s.entry /\ ~s.is_terminated /\ s.is_established /\ s.capsule_buffer # <<>>
  BY <1>3, MalformedDrops DEF handle_end_stream
<1>4. CASE s.entry /\ ~s.is_terminated /\ s.is_established /\ s.capsule_buffer = <<>>
  BY <1>4, SessionOverDrops DEF handle_end_stream
<1> QED
  BY <1>1, <1>2, <1>3, <1>4

LEMMA RemoteEndDrops ==
    ASSUME NEW s \in Record, Once(s), NEW e
    PROVE  Drops(s, remote_end_stream(e, s))
<1> DEFINE t == handle_end_stream(e, s)
           u == [t EXCEPT !.got_end = TRUE]
<1>1. Drops(s, t)
  BY HandleEndDrops
<1>2. t \in Record /\ Once(t)
  BY <1>1 DEF Drops
<1> HIDE DEF t
<1>3. Drops(t, u)
  BY <1>2, GotEndDrops
<1>4. u \in Record /\ Once(u)
  BY <1>3 DEF Drops
<1>5. remote_end_stream(e, s) = close_if_both_ended(u)
  BY DEF remote_end_stream, t
<1> HIDE DEF u
<1>6. Drops(u, close_if_both_ended(u))
  BY <1>4, BothEndedDrops
<1>7. Drops(s, u)
  BY <1>1, <1>3, DropsTrans
<1> QED
  BY <1>5, <1>6, <1>7, DropsTrans

LEMMA EndedDrops ==
    ASSUME NEW s \in Record, Once(s), NEW e
    PROVE  Drops(s, ended(e, s))
  BY RemoteEndDrops, DropsRefl DEF ended

(* A function that adds no event: it may add capsules, and run the loop    *)
(* over them when the session is established.                              *)
Moves(s, t) ==
    /\ t \in Record /\ Once(t)
    /\ t.opened = s.opened /\ t.ready = s.ready /\ t.response = s.response
    /\ t.running # "no" => s.running # "no" \/ s.is_established
    /\ t.running = "accept" => s.running = "accept"
    /\ t.entry => s.entry
    /\ ~s.entry => t.over = s.over /\ t.out \in {s.out, <<>>}
    /\ t.is_established => s.is_established
    /\ t.is_terminated => \/ s.is_terminated \/ s.is_established
                          \/ early \/ s.running # "no"
    /\ t.entry /\ s.is_terminated => t.is_terminated
    /\ t.entry /\ s.is_established => t.is_established \/ t.is_terminated

LEMMA DropsMoves ==
    ASSUME NEW s, NEW t, Drops(s, t)
    PROVE  Moves(s, t)
  BY DEF Drops, Moves

LEMMA MovesTrans ==
    ASSUME NEW s, NEW t, NEW u, Moves(s, t), Drops(t, u)
    PROVE  Moves(s, u)
  BY DEF Drops, Moves

LEMMA ToldMoves ==
    ASSUME NEW s \in Record, NEW t, NEW e \in End, Told(e, s), Moves(s, t)
    PROVE  Told(e, t)
<1>1. Once(t)
  BY DEF Moves
<1>2. Fresh(t)
  BY DEF Moves, Told, Fresh
<1>3. e = "server" => Answered(t)
  BY DEF Moves, Told, Answered
<1>4. e = "client" /\ ~early => Waits(t)
  BY DEF Moves, Told, Waits
<1>5. t.running = "accept" => e = "server"
  BY DEF Moves, Told
<1> QED
  BY <1>1, <1>2, <1>3, <1>4, <1>5 DEF Told

(* Where WT_CLOSE_SESSION can be.                                          *)
LEMMA NoCloseLast ==
    ASSUME NEW w, NEW o, NoClose(w, o)
    PROVE  CloseLast(w, o)
  BY DEF NoClose, CloseLast

LEMMA NoCloseAdd ==
    ASSUME NEW w, NEW o \in Seq(Capsule), NEW c \in Capsule, NoClose(w, o)
    PROVE  /\ c.k # "CLOSE" => NoClose(w, Append(o, c))
           /\ CloseLast(w, Append(o, c))
  BY DEF NoClose, CloseLast

LEMMA CloseEmpty ==
    ASSUME NEW w, NEW o, CloseLast(w, o)
    PROVE  CloseLast(w, <<>>) /\ (NoClose(w, o) => NoClose(w, <<>>))
  BY DEF NoClose, CloseLast

LEMMA CloseFrame ==
    ASSUME NEW w \in Seq(Frame), NEW o, NEW f \in Frame, f.c = <<>>
    PROVE  /\ CloseLast(w, o) => CloseLast(Append(w, f), o)
           /\ NoClose(w, o) => NoClose(Append(w, f), o)
  BY DEF NoClose, CloseLast, IsClose

LEMMA CloseTail ==
    ASSUME NEW w \in Seq(Frame), w # <<>>, NEW o
    PROVE  /\ CloseLast(w, o) => CloseLast(Tail(w), o)
           /\ NoClose(w, o) => NoClose(Tail(w), o)
<1>1. /\ DOMAIN w = 1 .. Len(w) /\ DOMAIN Tail(w) = 1 .. (Len(w) - 1) /\ Len(w) \in Nat
      /\ \A i \in 1 .. (Len(w) - 1) : Tail(w)[i] = w[i + 1]
  OBVIOUS
<1> QED
  BY <1>1 DEF NoClose, CloseLast

LEMMA ClosesDrops ==
    ASSUME NEW w, NEW s, NEW t, Closes(w, s), Drops(s, t)
    PROVE  Closes(w, t)
<1>1. t.out = s.out \/ t.out = <<>>
  BY DEF Drops
<1>2. (t.entry /\ ~t.is_terminated) \/ ~t.opened => (s.entry /\ ~s.is_terminated) \/ ~s.opened
  BY DEF Drops
<1> QED
  BY <1>1, <1>2, CloseEmpty DEF Closes

LEMMA ClosesFrame ==
    ASSUME NEW w \in Seq(Frame), NEW s, NEW f \in Frame, f.c = <<>>, Closes(w, s)
    PROVE  Closes(Append(w, f), s)
  BY CloseFrame DEF Closes

LEMMA ClosesTail ==
    ASSUME NEW w \in Seq(Frame), w # <<>>, NEW s, Closes(w, s)
    PROVE  Closes(Tail(w), s)
  BY CloseTail DEF Closes

(* What the invariant says of an end that runs this code, with wire w.     *)
Sound(e, w, s) == Told(e, s) /\ (~early => Closes(w, s))

LEMMA SoundDrops ==
    ASSUME NEW e \in End, NEW w, NEW s \in Record, NEW t, Sound(e, w, s), Drops(s, t)
    PROVE  Sound(e, w, t) /\ t \in Record
<1>1. Told(e, t)
  BY DropsMoves, ToldMoves DEF Sound
<1>2. ~early => Closes(w, t)
  BY ClosesDrops DEF Sound
<1> QED
  BY <1>1, <1>2 DEF Sound, Drops

LEMMA SoundFrame ==
    ASSUME NEW e \in End, NEW w \in Seq(Frame), NEW s, NEW f \in Frame, f.c = <<>>,
           Sound(e, w, s)
    PROVE  Sound(e, Append(w, f), s)
  BY ClosesFrame DEF Sound

LEMMA SoundTail ==
    ASSUME NEW e \in End, NEW w \in Seq(Frame), w # <<>>, NEW s, Sound(e, w, s)
    PROVE  Sound(e, Tail(w), s)
  BY ClosesTail DEF Sound

(* The fields the invariant does not speak of may change.                  *)
Same(s, t) ==
    /\ t \in Record
    /\ t.over = s.over /\ t.late = s.late /\ t.ready = s.ready
    /\ t.entry = s.entry /\ t.is_established = s.is_established
    /\ t.is_terminated = s.is_terminated /\ t.out = s.out
    /\ t.opened = s.opened /\ t.response = s.response
    /\ t.running # "no" => s.running # "no" \/ s.is_established
    /\ t.running = "accept" => s.running = "accept"

LEMMA SoundSame ==
    ASSUME NEW e \in End, NEW w, NEW s \in Record, NEW t, Sound(e, w, s), Same(s, t)
    PROVE  Sound(e, w, t)
<1>1. Once(t)
  BY DEF Sound, Told, Once, Same
<1>2. Moves(s, t)
  BY <1>1 DEF Moves, Same
<1>3. Closes(w, s) => Closes(w, t)
  BY DEF Closes, Same
<1> QED
  BY <1>2, <1>3, ToldMoves DEF Sound

LEMMA BufferType ==
    ASSUME NEW B, NEW r \in RecordOf(B), NEW b \in Seq(Capsule), NEW x \in Running
    PROVE  [r EXCEPT !.capsule_buffer = b, !.running = x] \in RecordOf(B)
  BY Zenon DEF RecordOf

LEMMA KeptType ==
    ASSUME NEW B, NEW r \in RecordOf(B), NEW b \in Seq(Capsule)
    PROVE  [r EXCEPT !.capsule_buffer = b] \in RecordOf(B)
  BY Zenon DEF RecordOf

LEMMA ReceivedMaxType ==
    ASSUME NEW B, NEW r \in RecordOf(B), NEW n \in Nat
    PROVE  [r EXCEPT !.received_max = n] \in RecordOf(B)
  BY Zenon DEF RecordOf

LEMMA RunningType ==
    ASSUME NEW B, NEW r \in RecordOf(B), NEW x \in Running
    PROVE  [r EXCEPT !.running = x] \in RecordOf(B)
  BY Zenon DEF RecordOf

LEMMA AdvertisedType ==
    ASSUME NEW B, NEW r \in RecordOf(B), NEW n \in Nat
    PROVE  [r EXCEPT !.advertised = n] \in RecordOf(B)
  BY Zenon DEF RecordOf

LEMMA OutType ==
    ASSUME NEW B, NEW r \in RecordOf(B), NEW o \in Seq(Capsule)
    PROVE  [r EXCEPT !.out = o] \in RecordOf(B)
  BY Zenon DEF RecordOf

LEMMA CloseType ==
    ASSUME NEW B, NEW r \in RecordOf(B), NEW f \in B, NEW g \in B, NEW why \in Reason
    PROVE  [r EXCEPT !.is_terminated = g, !.is_established = f,
                     !.pre_accept_end_stream = f, !.end_stream_pending = g,
                     !.reason = why] \in RecordOf(B)
  BY ZenonT(30) DEF RecordOf

LEMMA KeptSame ==
    ASSUME NEW s \in Record, NEW b \in Seq(Capsule)
    PROVE  Same(s, [s EXCEPT !.capsule_buffer = b])
<1> DEFINE t == [s EXCEPT !.capsule_buffer = b]
<1>0. t \in Record
  BY RecordIs, KeptType, Zenon
<1>1. /\ t.over = s.over /\ t.late = s.late /\ t.ready = s.ready
      /\ t.entry = s.entry /\ t.is_established = s.is_established
      /\ t.is_terminated = s.is_terminated /\ t.out = s.out
      /\ t.opened = s.opened /\ t.response = s.response /\ t.running = s.running
  BY DEF Record
<1> HIDE DEF t
<1>2. Same(s, t)
  BY <1>0, <1>1 DEF Same
<1> QED
  BY <1>2 DEF t

LEMMA BufferSame ==
    ASSUME NEW s \in Record, NEW b \in Seq(Capsule), NEW x \in Running,
           x # "no" => s.running # "no" \/ s.is_established, x # "accept"
    PROVE  Same(s, [s EXCEPT !.capsule_buffer = b, !.running = x])
<1> DEFINE t == [s EXCEPT !.capsule_buffer = b, !.running = x]
<1>0. t \in Record
  BY RecordIs, BufferType, Zenon
<1>1. /\ t.over = s.over /\ t.late = s.late /\ t.ready = s.ready
      /\ t.entry = s.entry /\ t.is_established = s.is_established
      /\ t.is_terminated = s.is_terminated /\ t.out = s.out
      /\ t.opened = s.opened /\ t.response = s.response /\ t.running = x
  BY DEF Record
<1> HIDE DEF t
<1>2. Same(s, t)
  BY <1>0, <1>1 DEF Same
<1> QED
  BY <1>2 DEF t

LEMMA RunningSame ==
    ASSUME NEW s \in Record, NEW x \in Running,
           x # "no" => s.running # "no" \/ s.is_established, x # "accept"
    PROVE  Same(s, [s EXCEPT !.running = x])
<1> DEFINE t == [s EXCEPT !.running = x]
<1>0. t \in Record
  BY RecordIs, RunningType, Zenon
<1>1. /\ t.over = s.over /\ t.late = s.late /\ t.ready = s.ready
      /\ t.entry = s.entry /\ t.is_established = s.is_established
      /\ t.is_terminated = s.is_terminated /\ t.out = s.out
      /\ t.opened = s.opened /\ t.response = s.response /\ t.running = x
  BY DEF Record
<1> HIDE DEF t
<1>2. Same(s, t)
  BY <1>0, <1>1 DEF Same
<1> QED
  BY <1>2 DEF t

LEMMA ReceivedMaxSame ==
    ASSUME NEW s \in Record, NEW n \in Nat
    PROVE  Same(s, [s EXCEPT !.received_max = n])
<1> DEFINE t == [s EXCEPT !.received_max = n]
<1>0. t \in Record
  BY RecordIs, ReceivedMaxType, Zenon
<1>1. /\ t.over = s.over /\ t.late = s.late /\ t.ready = s.ready
      /\ t.entry = s.entry /\ t.is_established = s.is_established
      /\ t.is_terminated = s.is_terminated /\ t.out = s.out
      /\ t.opened = s.opened /\ t.response = s.response /\ t.running = s.running
  BY DEF Record
<1> HIDE DEF t
<1>2. Same(s, t)
  BY <1>0, <1>1 DEF Same
<1> QED
  BY <1>2 DEF t

LEMMA AdvertisedSame ==
    ASSUME NEW s \in Record, NEW n \in Nat
    PROVE  Same(s, [s EXCEPT !.advertised = n])
<1> DEFINE t == [s EXCEPT !.advertised = n]
<1>0. t \in Record
  BY RecordIs, AdvertisedType, Zenon
<1>1. /\ t.over = s.over /\ t.late = s.late /\ t.ready = s.ready
      /\ t.entry = s.entry /\ t.is_established = s.is_established
      /\ t.is_terminated = s.is_terminated /\ t.out = s.out
      /\ t.opened = s.opened /\ t.response = s.response /\ t.running = s.running
  BY DEF Record
<1> HIDE DEF t
<1>2. Same(s, t)
  BY <1>0, <1>1 DEF Same
<1> QED
  BY <1>2 DEF t

(* A capsule is queued.                                                    *)
LEMMA SendFields ==
    ASSUME NEW s \in Record, NEW c \in Capsule
    PROVE  LET t == send_capsule(s, c)
           IN  /\ t \in Record
               /\ t.out = Append(s.out, c)
               /\ t.over = s.over /\ t.late = s.late /\ t.ready = s.ready
               /\ t.entry = s.entry /\ t.is_established = s.is_established
               /\ t.is_terminated = s.is_terminated
               /\ t.opened = s.opened /\ t.response = s.response /\ t.running = s.running
<1> DEFINE o == Append(s.out, c)
           t == send_capsule(s, c)
<1>1. o \in Seq(Capsule)
  BY RecordFields
<1>2. t = [s EXCEPT !.out = o]
  BY DEF send_capsule
<1> HIDE DEF o, t
<1>3. t \in Record
  BY <1>1, <1>2, RecordIs, OutType, Zenon
<1>4. /\ t.out = o
      /\ t.over = s.over /\ t.late = s.late /\ t.ready = s.ready
      /\ t.entry = s.entry /\ t.is_established = s.is_established
      /\ t.is_terminated = s.is_terminated
      /\ t.opened = s.opened /\ t.response = s.response /\ t.running = s.running
  BY <1>2 DEF Record
<1> QED
  BY <1>3, <1>4 DEF o, t

LEMMA SoundSend ==
    ASSUME NEW e \in End, NEW w, NEW s \in Record, NEW c \in Capsule, Sound(e, w, s),
           s.entry, ~s.is_terminated, c.k # "CLOSE"
    PROVE  LET t == send_capsule(s, c) IN Sound(e, w, t) /\ t \in Record
<1> DEFINE t == send_capsule(s, c)
<1>1. /\ t \in Record /\ t.out = Append(s.out, c)
      /\ t.over = s.over /\ t.late = s.late /\ t.ready = s.ready
      /\ t.entry = s.entry /\ t.is_established = s.is_established
      /\ t.is_terminated = s.is_terminated
      /\ t.opened = s.opened /\ t.response = s.response /\ t.running = s.running
  BY SendFields
<1> HIDE DEF t
<1>2. Once(t)
  BY <1>1 DEF Once, Sound, Told
<1>3. Moves(s, t)
  BY <1>1, <1>2 DEF Moves
<1>4. Told(e, t)
  BY <1>3, ToldMoves DEF Sound
<1>5. ASSUME ~early PROVE Closes(w, t)
  <2>1. NoClose(w, s.out) /\ s.out \in Seq(Capsule)
    BY <1>5, RecordFields DEF Sound, Closes
  <2>2. NoClose(w, t.out) /\ CloseLast(w, t.out)
    BY <1>1, <2>1, NoCloseAdd
  <2> QED
    BY <2>2 DEF Closes
<1> QED
  BY <1>1, <1>4, <1>5 DEF Sound, t

LEMMA SoundClose ==
    ASSUME NEW e \in End, NEW w, NEW s \in Record, NEW why \in Reason, Sound(e, w, s),
           s.entry, ~s.is_terminated, early \/ s.is_established \/ s.running # "no"
    PROVE  LET t == close_session(s, why)
           IN  /\ Sound(e, w, t) /\ t \in Record
               /\ t.opened = s.opened /\ t.ready = s.ready /\ t.response = s.response
<1> DEFINE c == Plain("CLOSE")
           r == send_capsule(s, c)
           t == close_session(s, why)
<1>0. c \in Capsule
  BY DEF Plain, Capsule, Kind
<1>1. /\ r \in Record /\ r.out = Append(s.out, c)
      /\ r.over = s.over /\ r.late = s.late /\ r.ready = s.ready
      /\ r.entry = s.entry /\ r.opened = s.opened /\ r.response = s.response
      /\ r.running = s.running
  BY <1>0, SendFields
<1>2. t = [r EXCEPT !.is_terminated = TRUE, !.is_established = FALSE,
               !.pre_accept_end_stream = FALSE, !.end_stream_pending = TRUE,
               !.reason = why]
  BY DEF close_session
<1> HIDE DEF t, r, c
<1>3. t \in Record
  BY <1>1, <1>2, RecordIs, CloseType, Zenon
<1>4. /\ t.out = r.out /\ t.over = r.over /\ t.late = r.late /\ t.ready = r.ready
      /\ t.entry = r.entry /\ ~t.is_established /\ t.is_terminated
      /\ t.opened = r.opened /\ t.response = r.response /\ t.running = r.running
  BY <1>1, <1>2 DEF Record
<1>5. Once(t)
  BY <1>1, <1>4 DEF Once, Sound, Told
<1>6. Moves(s, t)
  BY <1>1, <1>3, <1>4, <1>5 DEF Moves
<1>7. Told(e, t)
  BY <1>6, ToldMoves DEF Sound
<1>8. ASSUME ~early PROVE Closes(w, t)
  <2>1. NoClose(w, s.out) /\ s.out \in Seq(Capsule)
    BY <1>8, RecordFields DEF Sound, Closes
  <2>2. CloseLast(w, t.out)
    BY <1>0, <1>1, <1>4, <2>1, NoCloseAdd
  <2>3. s.opened
    BY DEF Sound, Told, Fresh
  <2> QED
    BY <1>1, <1>4, <2>2, <2>3 DEF Closes
<1>9. Sound(e, w, t)
  BY <1>7, <1>8 DEF Sound
<1> QED
  BY <1>1, <1>3, <1>4, <1>9 DEF t

(* A function that keeps the invariant and sends or takes no HEADERS.      *)
Keeps(e, w, s, t) ==
    /\ t \in Record /\ Sound(e, w, t)
    /\ t.opened = s.opened /\ t.ready = s.ready /\ t.response = s.response

LEMMA KeepsTrans ==
    ASSUME NEW e, NEW w, NEW s, NEW t, NEW u, Keeps(e, w, s, t), Keeps(e, w, t, u)
    PROVE  Keeps(e, w, s, u)
  BY DEF Keeps

LEMMA KeepsDrops ==
    ASSUME NEW e \in End, NEW w, NEW s \in Record, NEW t, Sound(e, w, s), Drops(s, t)
    PROVE  Keeps(e, w, s, t)
<1>1. t.opened = s.opened /\ t.ready = s.ready /\ t.response = s.response
  BY DEF Drops
<1>2. Sound(e, w, t) /\ t \in Record
  BY SoundDrops
<1> QED
  BY <1>1, <1>2 DEF Keeps

LEMMA KeepsSame ==
    ASSUME NEW e \in End, NEW w, NEW s \in Record, NEW t, Sound(e, w, s), Same(s, t)
    PROVE  Keeps(e, w, s, t)
<1>1. t \in Record /\ t.opened = s.opened /\ t.ready = s.ready /\ t.response = s.response
  BY DEF Same
<1>2. Sound(e, w, t)
  BY SoundSame
<1> QED
  BY <1>1, <1>2 DEF Keeps

LEMMA KeepsSend ==
    ASSUME NEW e \in End, NEW w, NEW s \in Record, NEW c \in Capsule, Sound(e, w, s),
           s.entry, ~s.is_terminated, c.k # "CLOSE"
    PROVE  Keeps(e, w, s, send_capsule(s, c))
<1> DEFINE t == send_capsule(s, c)
<1>1. t \in Record /\ t.opened = s.opened /\ t.ready = s.ready /\ t.response = s.response
  BY SendFields
<1>2. Sound(e, w, t)
  BY SoundSend
<1> HIDE DEF t
<1>3. Keeps(e, w, s, t)
  BY <1>1, <1>2 DEF Keeps
<1> QED
  BY <1>3 DEF t

LEMMA KeepsClose ==
    ASSUME NEW e \in End, NEW w, NEW s \in Record, NEW why \in Reason, Sound(e, w, s),
           s.entry, ~s.is_terminated, early \/ s.is_established \/ s.running # "no"
    PROVE  Keeps(e, w, s, close_session(s, why))
  BY SoundClose DEF Keeps

LEMMA SoundOnce ==
    ASSUME NEW e, NEW w, NEW s, Sound(e, w, s)
    PROVE  Once(s)
  BY DEF Sound, Told

LEMMA SoundEvent ==
    ASSUME NEW e, NEW w, NEW s \in Record, Sound(e, w, s), s.entry
    PROVE  push_event(s) = s
<1>1. s.over = 0 /\ ~s.late
  BY SoundOnce DEF Once
<1> QED
  BY <1>1, PushEventSame

LEMMA KeepsRaise ==
    ASSUME NEW e \in End, NEW w, NEW s \in Record, Sound(e, w, s), s.entry, ~s.is_terminated
    PROVE  Keeps(e, w, s, raise_limit(s))
<1> DEFINE n == s.advertised + 1
           t == [s EXCEPT !.advertised = n]
<1>0. n \in Nat
  BY RecordFields
<1>1. Limit(n) \in Capsule /\ Limit(n).k # "CLOSE"
  BY <1>0 DEF Limit, Capsule, Kind
<1>2. raise_limit(s) = send_capsule(t, Limit(n))
  BY DEF raise_limit
<1>3. Same(s, t)
  BY <1>0, AdvertisedSame
<1> HIDE DEF t, n
<1>4. Keeps(e, w, s, t)
  BY <1>3, KeepsSame
<1>5. t \in Record /\ Sound(e, w, t) /\ t.entry /\ ~t.is_terminated
  BY <1>3, <1>4 DEF Keeps, Same
<1>6. Keeps(e, w, t, send_capsule(t, Limit(n)))
  BY <1>1, <1>5, KeepsSend
<1> QED
  BY <1>2, <1>4, <1>6, KeepsTrans

LEMMA KeepsMalformed ==
    ASSUME NEW e \in End, NEW w, NEW s \in Record, Sound(e, w, s), s.entry, ~s.is_terminated,
           s.running # "no"
    PROVE  Keeps(e, w, s, reset_stream_for_malformed_capsule(s))
<1> DEFINE t == reset_stream_for_malformed_capsule(s)
<1>1. t = [s EXCEPT !.is_terminated = TRUE, !.is_established = FALSE,
                    !.pre_accept_end_stream = FALSE, !.rst_pending = TRUE,
                    !.reason = "malformed"]
  BY DEF reset_stream_for_malformed_capsule
<1> HIDE DEF t
<1>2. "malformed" \in Reason
  BY DEF Reason
<1>3. t \in Record
  BY <1>1, <1>2, RecordIs, MalformedType, Zenon
<1>4. /\ t.over = s.over /\ t.entry = s.entry /\ ~t.is_established /\ t.is_terminated
      /\ t.out = s.out /\ t.opened = s.opened /\ t.ready = s.ready /\ t.response = s.response
      /\ t.running = s.running /\ t.late = s.late
  BY <1>1 DEF Record
<1>5. Once(t)
  BY <1>4, SoundOnce DEF Once
<1>6. Moves(s, t)
  BY <1>3, <1>4, <1>5 DEF Moves
<1>7. Told(e, t)
  BY <1>6, ToldMoves DEF Sound
<1>8. Closes(w, s) => Closes(w, t)
  BY <1>4 DEF Closes
<1>9. Keeps(e, w, s, t)
  BY <1>3, <1>4, <1>7, <1>8 DEF Keeps, Sound
<1> QED
  BY <1>9 DEF t

(* One capsule of process_capsules.                                        *)
LEMMA KeepsCapsule ==
    ASSUME NEW e \in End, NEW w, NEW s \in Record, NEW c \in Capsule, Sound(e, w, s),
           s.entry, ~s.is_terminated, s.running # "no"
    PROVE  Keeps(e, w, s, process_capsule(s, c))
<1>0. push_event(s) = s /\ Keeps(e, w, s, s)
  BY SoundEvent DEF Keeps
<1>1. CASE c.k \in {"DATAGRAM", "DRAIN", "PART"}
  <2>1. process_capsule(s, c) = s
    BY <1>0, <1>1 DEF process_capsule
  <2> QED
    BY <2>1, <1>0
<1>2. CASE c.k = "STREAM"
  <2>1. process_capsule(s, c) = raise_limit(s)
    BY <1>0, <1>2 DEF process_capsule
  <2> QED
    BY <2>1, KeepsRaise
<1>3. CASE c.k = "MAX" /\ c.v < s.received_max
  <2>1. process_capsule(s, c) = close_session(s, "flow_control") /\ "flow_control" \in Reason
    BY <1>3 DEF process_capsule, Reason
  <2> QED
    BY <2>1, KeepsClose
<1>4. CASE c.k = "MAX" /\ ~(c.v < s.received_max)
  <2>1. process_capsule(s, c) = [s EXCEPT !.received_max = c.v] /\ c.v \in Nat
    BY <1>4 DEF process_capsule, Capsule
  <2> QED
    BY <2>1, ReceivedMaxSame, KeepsSame
<1>5. CASE c.k = "CLOSE"
  <2>1. process_capsule(s, c) = session_over(s)
    BY <1>5 DEF process_capsule
  <2> QED
    BY <2>1, SoundOnce, SessionOverDrops, KeepsDrops
<1>6. CASE c.k = "BAD"
  <2>1. process_capsule(s, c) = reset_stream_for_malformed_capsule(s)
    BY <1>6 DEF process_capsule
  <2> QED
    BY <2>1, KeepsMalformed
<1>7. c.k \in Kind
  BY DEF Capsule
<1> QED
  BY <1>1, <1>2, <1>3, <1>4, <1>5, <1>6, <1>7 DEF Kind

LEMMA LimitPlain ==
    /\ Limit(InitialLimit) \in Capsule /\ Limit(InitialLimit).k # "CLOSE"
    /\ \A k \in Kind : Plain(k) \in Capsule /\ Plain(k).k = k
  BY LifecycleAssumption DEF Limit, Plain, Capsule, Kind

LEMMA KeepsInitial ==
    ASSUME NEW e \in End, NEW w, NEW s \in Record, Sound(e, w, s), s.entry, ~s.is_terminated
    PROVE  Keeps(e, w, s, send_initial_limits(s))
  BY LimitPlain, KeepsSend DEF send_initial_limits

LEMMA KeepsEnded ==
    ASSUME NEW e \in End, NEW w, NEW s \in Record, Sound(e, w, s)
    PROVE  Keeps(e, w, s, ended(e, s))
  BY SoundOnce, EndedDrops, KeepsDrops

LEMMA KeepsTerminate ==
    ASSUME NEW e \in End, NEW w, NEW s \in Record, Sound(e, w, s), s.entry, ~s.is_terminated,
           s.is_established
    PROVE  Keeps(e, w, s, terminate_pre_accept_end_stream_session(s))
<1>1. CASE s.capsule_buffer # <<>>
  <2>1. Drops(s, reset_stream_for_malformed_capsule(s))
    BY <1>1, SoundOnce, MalformedDrops
  <2> QED
    BY <1>1, <2>1, KeepsDrops DEF terminate_pre_accept_end_stream_session
<1>2. CASE s.capsule_buffer = <<>>
  <2>1. Drops(s, session_over(s))
    BY SoundOnce, SessionOverDrops
  <2> QED
    BY <1>2, <2>1, KeepsDrops DEF terminate_pre_accept_end_stream_session
<1> QED
  BY <1>1, <1>2

(* What follows the loop over the capsules.                                *)
LEMMA KeepsLoopEnds ==
    ASSUME NEW e \in End, NEW w, NEW s \in Record, NEW t, Sound(e, w, s), s.running # "no",
           t = [s EXCEPT !.running = "no",
                         !.capsule_buffer = IF s.is_terminated THEN <<>> ELSE @]
    PROVE  /\ Keeps(e, w, s, t)
           /\ Keeps(e, w, s, remote_end_stream(e, t))
           /\ s.running = "accept" /\ s.entry /\ ~s.is_terminated =>
                 /\ Keeps(e, w, s, terminate_pre_accept_end_stream_session(t))
                 /\ Keeps(e, w, s, send_initial_limits(t))
<1> DEFINE b == IF s.is_terminated THEN <<>> ELSE s.capsule_buffer
<1>1. b \in Seq(Capsule) /\ "no" \in Running
  BY RecordFields DEF Running
<1>2. t = [s EXCEPT !.capsule_buffer = b, !.running = "no"]
  OBVIOUS
<1> HIDE DEF b
<1>3. Same(s, t)
  <2>1. ASSUME NEW x \in Running, x = "no" PROVE Same(s, [s EXCEPT !.capsule_buffer = b, !.running = x])
    <3>1. x # "accept" /\ (x # "no" => s.running # "no" \/ s.is_established)
      BY <2>1
    <3> QED
      BY <1>1, <3>1, BufferSame
  <2> QED
    BY <1>1, <1>2, <2>1, Zenon
<1>4. Keeps(e, w, s, t)
  BY <1>3, KeepsSame
<1>5. t \in Record /\ Sound(e, w, t)
  BY <1>4 DEF Keeps
<1>6. Drops(t, remote_end_stream(e, t))
  BY <1>5, SoundOnce, RemoteEndDrops
<1>7. Keeps(e, w, t, remote_end_stream(e, t))
  BY <1>5, <1>6, KeepsDrops
<1>8. ASSUME s.running = "accept", s.entry, ~s.is_terminated
      PROVE  /\ Keeps(e, w, t, terminate_pre_accept_end_stream_session(t))
             /\ Keeps(e, w, t, send_initial_limits(t))
  <2>1. s.is_established
    BY <1>8 DEF Sound, Told, Answered
  <2>2. t.entry /\ ~t.is_terminated /\ t.is_established
    BY <1>3, <1>8, <2>1 DEF Same
  <2> QED
    BY <1>5, <2>2, KeepsTerminate, KeepsInitial
<1> QED
  BY <1>4, <1>7, <1>8, KeepsTrans

LEMMA ReadyType ==
    ASSUME NEW B, NEW r \in RecordOf(B), NEW n \in Nat, NEW g \in B
    PROVE  [[r EXCEPT !.ready = n] EXCEPT !.is_established = g] \in RecordOf(B)
  BY Zenon DEF RecordOf

(* The 2xx reaches the client.                                             *)
LEMMA EstablishedSound ==
    ASSUME NEW w, NEW s \in Record, Sound("client", w, s), s.ready = 0
    PROVE  LET t == established(s)
           IN  /\ t \in Record /\ Sound("client", w, t)
               /\ t.opened = s.opened /\ t.response = s.response
<1>1. CASE ~s.entry
  BY <1>1 DEF established
<1>2. CASE s.entry
  <2> DEFINE c == Limit(InitialLimit)
             r == [[s EXCEPT !.ready = 1] EXCEPT !.is_established = TRUE]
             t == send_capsule(r, c)
  <2>1. s.over = 0 /\ ~s.late /\ s.opened
    BY <1>2 DEF Sound, Told, Once, Fresh
  <2>2. push_ready(s) = [s EXCEPT !.ready = 1]
    BY <2>1, PushReady
  <2>3. established(s) = t
    BY <1>2, <2>2 DEF established, send_initial_limits
  <2>4. r \in Record
    BY RecordIs, ReadyType, 1 \in Nat, Zenon
  <2>5. /\ r.over = s.over /\ r.late = s.late /\ r.ready = 1 /\ r.entry = s.entry
        /\ r.out = s.out /\ r.is_terminated = s.is_terminated /\ r.opened = s.opened
        /\ r.response = s.response /\ r.running = s.running
    BY DEF Record
  <2> HIDE DEF r
  <2>6. /\ t \in Record /\ t.out = Append(r.out, c)
        /\ t.over = r.over /\ t.late = r.late /\ t.ready = r.ready
        /\ t.entry = r.entry /\ t.is_terminated = r.is_terminated
        /\ t.opened = r.opened /\ t.response = r.response /\ t.running = r.running
    BY <2>4, LimitPlain, SendFields
  <2> HIDE DEF t
  <2>7. Once(t) /\ Fresh(t) /\ Waits(t)
    BY <1>2, <2>1, <2>5, <2>6 DEF Once, Fresh, Waits
  <2>8. Told("client", t)
    BY <2>5, <2>6, <2>7 DEF Told, Sound
  <2>9. ASSUME ~early PROVE Closes(w, t)
    <3>1. ~s.is_terminated
      BY <2>9 DEF Sound, Told, Waits
    <3>2. NoClose(w, s.out) /\ s.out \in Seq(Capsule)
      BY <1>2, <2>9, <3>1, RecordFields DEF Sound, Closes
    <3>3. NoClose(w, t.out) /\ CloseLast(w, t.out)
      BY <2>5, <2>6, <3>2, LimitPlain, NoCloseAdd
    <3> QED
      BY <3>3 DEF Closes
  <2> QED
    BY <2>3, <2>5, <2>6, <2>8, <2>9 DEF Sound
<1> QED
  BY <1>1, <1>2

LEMMA RefusedType ==
    ASSUME NEW B, NEW r \in RecordOf(B), NEW f \in B
    PROVE  [r EXCEPT !.entry = f, !.is_established = f, !.is_terminated = f] \in RecordOf(B)
  BY Zenon DEF RecordOf

(* A response outside 2xx reaches it.                                      *)
LEMMA RefusedKeeps ==
    ASSUME NEW e \in End, NEW w, NEW s \in Record, Sound(e, w, s), s.entry
    PROVE  Keeps(e, w, s, [push_over(s) EXCEPT !.entry = FALSE, !.is_established = FALSE,
                                               !.is_terminated = FALSE])
<1> DEFINE r == [s EXCEPT !.over = 1]
           t == [r EXCEPT !.entry = FALSE, !.is_established = FALSE, !.is_terminated = FALSE]
<1>1. s.over = 0 /\ ~s.late /\ s.opened
  BY DEF Sound, Told, Once, Fresh
<1>2. push_over(s) = r
  BY <1>1, PushOver
<1>3. r \in Record
  BY RecordIs, OverType, 1 \in Nat, Zenon
<1>4. /\ r.over = 1 /\ r.late = s.late /\ r.ready = s.ready /\ r.out = s.out
      /\ r.opened = s.opened /\ r.response = s.response /\ r.running = s.running
  BY DEF Record
<1> HIDE DEF r
<1>5. t \in Record
  BY <1>3, RecordIs, RefusedType, Zenon
<1>6. /\ t.over = r.over /\ t.late = r.late /\ t.ready = r.ready /\ t.out = r.out
      /\ t.opened = r.opened /\ t.response = r.response /\ t.running = r.running
      /\ ~t.entry /\ ~t.is_established /\ ~t.is_terminated
  BY <1>3 DEF Record
<1> HIDE DEF t
<1>7. Once(t)
  BY <1>1, <1>4, <1>6, SoundOnce DEF Once
<1>8. Moves(s, t)
  BY <1>4, <1>5, <1>6, <1>7 DEF Moves
<1>9. Told(e, t) /\ (Closes(w, s) => Closes(w, t))
  BY <1>1, <1>4, <1>6, <1>8, ToldMoves DEF Sound, Closes
<1>10. Keeps(e, w, s, t)
  BY <1>4, <1>5, <1>6, <1>9 DEF Keeps, Sound
<1> QED
  BY <1>2, <1>10 DEF t

LEMMA OpenedType ==
    ASSUME NEW B, NEW r \in RecordOf(B), NEW g \in B
    PROVE  [r EXCEPT !.opened = g] \in RecordOf(B)
  BY Zenon DEF RecordOf

LEMMA OpenedSound ==
    ASSUME NEW w, NEW s \in Record, Sound("server", w, s), ~s.opened
    PROVE  LET t == [s EXCEPT !.opened = TRUE]
           IN  t \in Record /\ Sound("server", w, t) /\ t.opened /\ t.response = "none"
<1> DEFINE t == [s EXCEPT !.opened = TRUE]
<1>1. t \in Record
  BY RecordIs, OpenedType, Zenon
<1>2. /\ t.over = s.over /\ t.late = s.late /\ t.ready = s.ready /\ t.out = s.out
      /\ t.opened /\ t.response = s.response /\ t.running = s.running
      /\ t.entry = s.entry /\ t.is_established = s.is_established
      /\ t.is_terminated = s.is_terminated
  BY DEF Record
<1> HIDE DEF t
<1>3. ~s.entry /\ s.response = "none"
  BY DEF Sound, Told, Fresh
<1>4. Told("server", t)
  BY <1>2, <1>3 DEF Sound, Told, Once, Fresh, Answered
<1>5. Closes(w, s) => Closes(w, t)
  BY <1>2, <1>3 DEF Closes
<1> QED
  BY <1>1, <1>2, <1>3, <1>4, <1>5 DEF Sound, t

LEMMA RefuseType ==
    ASSUME NEW B, NEW r \in RecordOf(B), NEW nil \in Seq(Capsule), NEW a \in B, NEW b \in B,
           NEW f \in B, NEW g \in B, NEW x \in {"none", "ok", "refused"}
    PROVE  [r EXCEPT !.response = x, !.sent_end = g, !.capsule_buffer = nil,
                     !.pre_accept_end_stream = f, !.entry = a,
                     !.is_terminated = b] \in RecordOf(B)
  BY ZenonT(30) DEF RecordOf

LEMMA RefuseSound ==
    ASSUME NEW w, NEW s \in Record, Sound("server", w, s), s.opened, NEW erase \in BOOLEAN
    PROVE  LET t == refuse(s, erase)
           IN  /\ t \in Record /\ Sound("server", w, t)
               /\ t.opened /\ t.ready = s.ready /\ t.response = "refused"
<1> DEFINE a == s.entry /\ ~erase
           t == [s EXCEPT !.response = "refused", !.sent_end = TRUE,
                          !.capsule_buffer = <<>>, !.pre_accept_end_stream = FALSE,
                          !.entry = a, !.is_terminated = a]
<1>0. a \in BOOLEAN /\ "refused" \in {"none", "ok", "refused"}
  OBVIOUS
<1>1. refuse(s, erase) = close_if_both_ended(t)
  BY DEF refuse
<1>a. a => s.entry
  OBVIOUS
<1> HIDE DEF a
<1>2. t \in Record
  BY <1>0, RecordIs, RefuseType, Zenon
<1>3. /\ t.over = s.over /\ t.late = s.late /\ t.ready = s.ready /\ t.out = s.out
      /\ t.opened = s.opened /\ t.response = "refused" /\ t.running = s.running
      /\ t.entry = a /\ t.is_terminated = a
  BY DEF Record
<1> HIDE DEF t
<1>4. Told("server", t)
  BY <1>a, <1>3 DEF Sound, Told, Once, Fresh, Answered
<1>5. Closes(w, s) => Closes(w, t)
  BY <1>3 DEF Closes
<1>6. Sound("server", w, t) /\ Once(t)
  BY <1>4, <1>5 DEF Sound, Told
<1>7. Drops(t, close_if_both_ended(t))
  BY <1>2, <1>6, BothEndedDrops
<1>8. Keeps("server", w, t, close_if_both_ended(t))
  BY <1>2, <1>6, <1>7, KeepsDrops DEF End
<1> QED
  BY <1>1, <1>3, <1>8 DEF Keeps

LEMMA RequestType ==
    ASSUME NEW B, NEW r \in RecordOf(B), NEW n \in Nat, NEW m \in Nat, NEW g \in B
    PROVE  [[r EXCEPT !.ready = n] EXCEPT !.entry = g, !.opened = g,
                                          !.received_max = m] \in RecordOf(B)
  BY ZenonT(30) DEF RecordOf

(* The request reaches a server that accepts it.                           *)
LEMMA RequestSound ==
    ASSUME NEW w, NEW s \in Record, Sound("server", w, s), ~s.opened
    PROVE  LET t == [push_ready(s) EXCEPT !.entry = TRUE, !.opened = TRUE,
                                          !.received_max = InitialLimit]
           IN  t \in Record /\ Sound("server", w, t) /\ t.opened /\ t.response = s.response
<1> DEFINE t == [[s EXCEPT !.ready = 1] EXCEPT !.entry = TRUE, !.opened = TRUE,
                                               !.received_max = InitialLimit]
<1>1. s.ready = 0 /\ s.over = 0 /\ ~s.late /\ s.response = "none" /\ s.out = <<>>
  BY DEF Sound, Told, Fresh, Once
<1>2. push_ready(s) = [s EXCEPT !.ready = 1]
  BY <1>1, PushReady
<1>3. t \in Record
  BY RecordIs, RequestType, 1 \in Nat, LifecycleAssumption, Zenon
<1>4. /\ t.over = s.over /\ t.late = s.late /\ t.ready = 1 /\ t.out = s.out
      /\ t.opened /\ t.response = s.response /\ t.running = s.running
      /\ t.entry /\ t.is_established = s.is_established
  BY DEF Record
<1> HIDE DEF t
<1>5. Told("server", t)
  BY <1>1, <1>4 DEF Sound, Told, Once, Fresh, Answered
<1>6. Closes(w, s) => Closes(w, t)
  BY <1>4 DEF Closes
<1>7. Sound("server", w, t)
  BY <1>5, <1>6 DEF Sound
<1> QED
  BY <1>2, <1>3, <1>4, <1>7 DEF t

LEMMA ConnectType ==
    ASSUME NEW B, NEW r \in RecordOf(B), NEW m \in Nat, NEW g \in B
    PROVE  [r EXCEPT !.entry = g, !.opened = g, !.reader = g,
                     !.received_max = m] \in RecordOf(B)
  BY ZenonT(30) DEF RecordOf

LEMMA ConnectSound ==
    ASSUME NEW w, NEW s \in Record, Sound("client", w, s), ~s.opened
    PROVE  LET t == [s EXCEPT !.entry = TRUE, !.opened = TRUE, !.reader = TRUE,
                              !.received_max = InitialLimit]
           IN  t \in Record /\ Sound("client", w, t) /\ t.opened /\ t.ready = s.ready
<1> DEFINE t == [s EXCEPT !.entry = TRUE, !.opened = TRUE, !.reader = TRUE,
                          !.received_max = InitialLimit]
<1>1. s.ready = 0 /\ s.over = 0 /\ ~s.late
  BY DEF Sound, Told, Fresh, Once
<1>3. t \in Record
  BY RecordIs, ConnectType, LifecycleAssumption, Zenon
<1>4. /\ t.over = s.over /\ t.late = s.late /\ t.ready = s.ready /\ t.out = s.out
      /\ t.opened /\ t.running = s.running
      /\ t.entry /\ t.is_established = s.is_established /\ t.is_terminated = s.is_terminated
  BY DEF Record
<1> HIDE DEF t
<1>5. Told("client", t)
  BY <1>1, <1>4 DEF Sound, Told, Once, Fresh, Waits
<1>6. Closes(w, s) => Closes(w, t)
  BY <1>4 DEF Closes
<1>7. Sound("client", w, t)
  BY <1>5, <1>6 DEF Sound
<1> QED
  BY <1>3, <1>4, <1>7 DEF t

(* Frames.                                                                 *)
LEMMA FrameTypeOf ==
    ASSUME NEW B, NEW t \in FrameKind, NEW c \in Seq(Capsule), NEW fin \in B
    PROVE  [t |-> t, c |-> c, fin |-> fin] \in [t : FrameKind, c : Seq(Capsule), fin : B]
  BY Zenon

LEMMA DataType ==
    ASSUME NEW c \in Seq(Capsule), NEW fin \in BOOLEAN
    PROVE  Data(c, fin) \in Frame /\ Data(c, fin).t = "data" /\ Data(c, fin).c = c
<1>1. "data" \in FrameKind
  BY DEF FrameKind
<1>2. Data(c, fin) \in Frame
  BY <1>1, FrameTypeOf, Zenon DEF Data, Frame
<1> QED
  BY <1>2 DEF Data

LEMMA HeadersType ==
    ASSUME NEW t \in {"request", "ok", "refused"}, NEW fin \in BOOLEAN
    PROVE  /\ Headers(t, fin) \in Frame /\ Headers(t, fin).t = t /\ Headers(t, fin).c = <<>>
           /\ Header(Headers(t, fin))
<1>1. t \in FrameKind /\ <<>> \in Seq(Capsule)
  BY DEF FrameKind
<1>2. Headers(t, fin) \in Frame
  BY <1>1, FrameTypeOf, Zenon DEF Headers, Frame
<1> QED
  BY <1>2 DEF Headers, Header

LEMMA RstType ==
    Rst \in Frame /\ Rst.t = "rst" /\ Rst.c = <<>>
<1>1. "rst" \in FrameKind /\ <<>> \in Seq(Capsule) /\ FALSE \in BOOLEAN
  BY DEF FrameKind
<1>2. Rst \in Frame
  BY <1>1, FrameTypeOf, Zenon DEF Rst, Frame
<1> QED
  BY <1>2 DEF Rst

(* What accept_session writes: its HEADERS and the capsules queued so far. *)
LEMMA FlushedType ==
    ASSUME NEW s \in Record
    PROVE  /\ flushed(s) \in Seq(Frame) /\ Len(flushed(s)) = Len(s.out)
           /\ \A i \in 1 .. Len(s.out) : /\ flushed(s)[i].c = <<s.out[i]>>
                                         /\ flushed(s)[i].t = "data"
<1>1. s.out \in Seq(Capsule) /\ Len(s.out) \in Nat /\ s.end_stream_pending \in BOOLEAN
  BY DEF Record
<1>2. \A i \in 1 .. Len(s.out) :
         Data(<<s.out[i]>>, s.end_stream_pending /\ i = Len(s.out)) \in Frame
  <2> SUFFICES ASSUME NEW i \in 1 .. Len(s.out)
               PROVE  Data(<<s.out[i]>>, s.end_stream_pending /\ i = Len(s.out)) \in Frame
    OBVIOUS
  <2>1. <<s.out[i]>> \in Seq(Capsule) /\ (s.end_stream_pending /\ i = Len(s.out)) \in BOOLEAN
    BY <1>1
  <2> QED
    BY <2>1, DataType
<1>3. flushed(s) \in [1 .. Len(s.out) -> Frame]
  BY <1>2 DEF flushed
<1> QED
  BY <1>1, <1>3, SMTT(40) DEF flushed, Data

LEMMA Concat ==
    ASSUME NEW S, NEW a \in Seq(S), NEW b \in Seq(S)
    PROVE  /\ (a \o b) \in Seq(S)
           /\ Len(a \o b) = Len(a) + Len(b) /\ DOMAIN (a \o b) = 1 .. (Len(a) + Len(b))
           /\ \A i \in 1 .. Len(a) : (a \o b)[i] = a[i]
           /\ \A i \in 1 .. Len(b) : (a \o b)[Len(a) + i] = b[i]
<1>1. (a \o b) \in Seq(S)
  OBVIOUS
<1>2. Len(a \o b) = Len(a) + Len(b) /\ DOMAIN (a \o b) = 1 .. (Len(a) + Len(b))
  OBVIOUS
<1>3. \A i \in 1 .. Len(a) : (a \o b)[i] = a[i]
  OBVIOUS
<1>4. ASSUME NEW i \in 1 .. Len(b) PROVE (a \o b)[Len(a) + i] = b[i]
  OBVIOUS
<1> QED
  BY <1>1, <1>2, <1>3, <1>4

LEMMA Tails ==
    ASSUME NEW S, NEW a \in Seq(S), a # <<>>
    PROVE  /\ Tail(a) \in Seq(S) /\ Len(Tail(a)) = Len(a) - 1
           /\ \A i \in 1 .. (Len(a) - 1) : Tail(a)[i] = a[i + 1]
  OBVIOUS

Joined(w, f, x) == w \o (<<f>> \o x)

LEMMA Between ==
    ASSUME NEW S, NEW w \in Seq(S), NEW f \in S, NEW x \in Seq(S)
    PROVE  /\ Joined(w, f, x) \in Seq(S)
           /\ DOMAIN Joined(w, f, x) = 1 .. (Len(w) + 1 + Len(x))
           /\ \A i \in 1 .. Len(w) : Joined(w, f, x)[i] = w[i]
           /\ Joined(w, f, x)[Len(w) + 1] = f
           /\ \A i \in 1 .. Len(x) : Joined(w, f, x)[Len(w) + 1 + i] = x[i]
<1> DEFINE y == <<f>> \o x
           q == w \o y
<1>1. <<f>> \in Seq(S) /\ Len(<<f>>) = 1 /\ <<f>>[1] = f /\ Len(w) \in Nat /\ Len(x) \in Nat
  OBVIOUS
<1>2. /\ y \in Seq(S) /\ Len(y) = Len(<<f>>) + Len(x)
      /\ \A i \in 1 .. Len(<<f>>) : y[i] = <<f>>[i]
      /\ \A i \in 1 .. Len(x) : y[Len(<<f>>) + i] = x[i]
  BY <1>1, Concat
<1> HIDE DEF y
<1>3. /\ q \in Seq(S) /\ DOMAIN q = 1 .. (Len(w) + Len(y))
      /\ \A i \in 1 .. Len(w) : q[i] = w[i]
      /\ \A i \in 1 .. Len(y) : q[Len(w) + i] = y[i]
  <2>1. y \in Seq(S)
    BY <1>2
  <2> QED
    BY <2>1, Concat
<1> HIDE DEF q
<1>4. y[1] = f /\ \A i \in 1 .. Len(x) : y[1 + i] = x[i]
  BY <1>1, <1>2
<1>5. q[Len(w) + 1] = f /\ \A i \in 1 .. Len(x) : q[Len(w) + (1 + i)] = x[i]
  BY <1>1, <1>2, <1>3, <1>4
<1>6. /\ DOMAIN q = 1 .. (Len(w) + 1 + Len(x))
      /\ \A i \in 1 .. Len(x) : Len(w) + 1 + i = Len(w) + (1 + i)
  BY <1>1, <1>2, <1>3
<1>7. \A i \in 1 .. Len(x) : q[Len(w) + 1 + i] = x[i]
  BY <1>5, <1>6
<1>8. q = Joined(w, f, x)
  BY DEF q, y, Joined
<1> QED
  BY <1>3, <1>5, <1>6, <1>7, <1>8

(* q is the frames of w, one without capsules, and the capsules of o.      *)
Flushes(q, w, o, n, m) ==
    /\ n \in Nat /\ m \in Nat
    /\ DOMAIN q = 1 .. (n + 1 + m) /\ DOMAIN w = 1 .. n /\ DOMAIN o = 1 .. m
    /\ \A i \in 1 .. n : q[i].c = w[i].c
    /\ q[n + 1].c = <<>>
    /\ \A i \in 1 .. m : q[n + 1 + i].c = <<o[i]>>

LEMMA CloseFlush ==
    ASSUME NEW q, NEW w, NEW o \in Seq(Capsule), NEW n, NEW m, Flushes(q, w, o, n, m)
    PROVE  /\ CloseLast(w, o) => CloseLast(q, <<>>)
           /\ NoClose(w, o) => NoClose(q, <<>>)
<1>1. /\ n \in Nat /\ m \in Nat
      /\ DOMAIN q = 1 .. (n + 1 + m) /\ DOMAIN w = 1 .. n /\ DOMAIN o = 1 .. m
  BY DEF Flushes
<1>2. \A i \in 1 .. (n + 1 + m) :
         i \in 1 .. n \/ i = n + 1 \/ \E j \in 1 .. m : i = n + 1 + j
  <2> SUFFICES ASSUME NEW i \in 1 .. (n + 1 + m), i \notin 1 .. n, i # n + 1
               PROVE  \E j \in 1 .. m : i = n + 1 + j
    OBVIOUS
  <2>1. i - (n + 1) \in 1 .. m /\ i = n + 1 + (i - (n + 1))
    BY <1>1
  <2> QED
    BY <2>1
<1>3. \A i \in 1 .. (n + 1 + m) : IsClose(q[i].c) =>
         \/ i \in 1 .. n /\ IsClose(w[i].c)
         \/ \E j \in 1 .. m : i = n + 1 + j /\ o[j].k = "CLOSE"
  BY <1>2, SMTT(40) DEF IsClose, Flushes
<1>4. NoClose(w, o) => NoClose(q, <<>>)
  BY <1>1, <1>3, SMTT(40) DEF NoClose
<1>5. ASSUME CloseLast(w, o), NEW i \in 1 .. (n + 1 + m), IsClose(q[i].c),
             NEW j \in 1 .. (n + 1 + m), j > i
      PROVE  q[j].c = <<>>
  <2>1. CASE i \in 1 .. n /\ IsClose(w[i].c)
    <3>1. o = <<>> /\ \A k \in 1 .. n : k > i => w[k].c = <<>>
      BY <1>1, <1>5, <2>1 DEF CloseLast
    <3>2. m = 0
      BY <1>1, <3>1
    <3>3. j \in 1 .. n \/ j = n + 1
      BY <1>1, <3>2
    <3> QED
      BY <1>5, <3>1, <3>3 DEF Flushes
  <2>2. ASSUME NEW k \in 1 .. m, i = n + 1 + k, o[k].k = "CLOSE" PROVE FALSE
    <3>1. k = m
      BY <1>1, <1>5, <2>2 DEF CloseLast
    <3> QED
      BY <1>1, <1>5, <2>2, <3>1
  <2> QED
    BY <1>3, <1>5, <2>1, <2>2
<1>6. CloseLast(w, o) => CloseLast(q, <<>>)
  BY <1>1, <1>5 DEF CloseLast
<1> QED
  BY <1>4, <1>6

(* One chunk of the buffer goes out.                                       *)
Chunked(o, c, p) ==
    /\ p \in Seq(Capsule)
    /\ IF o = <<>> THEN c = <<>> /\ p = <<>>
       ELSE /\ c # <<>> /\ c[1] = o[1] /\ c \in Seq(Capsule)
            /\ Len(p) = Len(o) - 1 /\ \A i \in 1 .. (Len(o) - 1) : p[i] = o[i + 1]

LEMMA ChunkedIs ==
    ASSUME NEW o \in Seq(Capsule)
    PROVE  LET n == IF o = <<>> THEN 0 ELSE 1
           IN  Chunked(o, SubSeq(o, 1, n), SubSeq(o, n + 1, Len(o)))
<1> DEFINE n == IF o = <<>> THEN 0 ELSE 1
           c == SubSeq(o, 1, n)
           p == SubSeq(o, n + 1, Len(o))
<1>1. CASE o = <<>>
  <2>1. c = <<>> /\ p = <<>>
    BY <1>1
  <2> HIDE DEF c, p
  <2> QED
    BY <1>1, <2>1 DEF Chunked, c, p
<1>2. CASE o # <<>>
  <2>1. c # <<>> /\ c[1] = o[1] /\ c \in Seq(Capsule)
    BY <1>2
  <2>2. p = Tail(o)
    BY <1>2
  <2> HIDE DEF c, p
  <2>3. /\ p \in Seq(Capsule) /\ Len(p) = Len(o) - 1
        /\ \A i \in 1 .. (Len(o) - 1) : p[i] = o[i + 1]
    BY <1>2, <2>2, Tails, Zenon
  <2>4. Chunked(o, c, p)
    BY <1>2, <2>1, <2>3 DEF Chunked
  <2> QED
    BY <2>4 DEF c, p
<1> QED
  BY <1>1, <1>2

LEMMA CloseWrite ==
    ASSUME NEW w \in Seq(Frame), NEW o \in Seq(Capsule), NEW f \in Frame, NEW p,
           Chunked(o, f.c, p)
    PROVE  /\ CloseLast(w, o) => CloseLast(Append(w, f), p)
           /\ NoClose(w, o) => NoClose(Append(w, f), p)
<1>1. CASE o = <<>>
  <2>1. p = <<>> /\ f.c = <<>>
    BY <1>1 DEF Chunked
  <2> QED
    BY <1>1, <2>1, CloseFrame
<1>2. CASE o # <<>>
  <2>1. Len(o) \in Nat \ {0}
    BY <1>2
  <2>2. /\ f.c # <<>> /\ f.c[1] = o[1] /\ p \in Seq(Capsule)
        /\ Len(p) = Len(o) - 1 /\ \A i \in 1 .. (Len(o) - 1) : p[i] = o[i + 1]
    BY <1>2 DEF Chunked
  <2>3. /\ DOMAIN w = 1 .. Len(w) /\ DOMAIN o = 1 .. Len(o) /\ Len(w) \in Nat
        /\ DOMAIN p = 1 .. (Len(o) - 1)
        /\ DOMAIN Append(w, f) = 1 .. (Len(w) + 1)
        /\ \A i \in 1 .. Len(w) : Append(w, f)[i] = w[i]
        /\ Append(w, f)[Len(w) + 1] = f
    BY <2>2
  <2>4. \A i \in DOMAIN Append(w, f) : IsClose(Append(w, f)[i].c) =>
           \/ i \in 1 .. Len(w) /\ IsClose(w[i].c)
           \/ i = Len(w) + 1 /\ o[1].k = "CLOSE"
    BY <2>2, <2>3 DEF IsClose
  <2>5. NoClose(w, o) => NoClose(Append(w, f), p)
    <3>1. ASSUME NoClose(w, o), NEW i \in DOMAIN p PROVE p[i].k # "CLOSE"
      <4>1. p[i] = o[i + 1] /\ i + 1 \in DOMAIN o
        BY <2>1, <2>2, <2>3
      <4> QED
        BY <3>1, <4>1 DEF NoClose
    <3>2. ASSUME NoClose(w, o), NEW i \in DOMAIN Append(w, f) PROVE ~IsClose(Append(w, f)[i].c)
      <4>1. 1 \in DOMAIN o
        BY <2>1, <2>3
      <4> QED
        BY <2>3, <2>4, <3>2, <4>1 DEF NoClose
    <3> QED
      BY <3>1, <3>2 DEF NoClose
  <2>6. ASSUME CloseLast(w, o) PROVE CloseLast(Append(w, f), p)
    <3>1. \A i \in 1 .. Len(w) : ~IsClose(w[i].c)
      BY <1>2, <2>3, <2>6 DEF CloseLast
    <3>2. o[1].k = "CLOSE" => 1 = Len(o)
      BY <2>1, <2>3, <2>6 DEF CloseLast
    <3>3. o[1].k = "CLOSE" => p = <<>>
      BY <2>2, <3>2
    <3>4. \A i \in DOMAIN Append(w, f) : IsClose(Append(w, f)[i].c) =>
             p = <<>> /\ \A j \in DOMAIN Append(w, f) : j > i => Append(w, f)[j].c = <<>>
      BY <2>3, <2>4, <3>1, <3>3
    <3>5. \A i \in DOMAIN p : p[i].k = "CLOSE" => i = Len(p)
      BY <2>1, <2>2, <2>3, <2>6, SMTT(40) DEF CloseLast
    <3> QED
      BY <3>4, <3>5 DEF CloseLast
  <2> QED
    BY <2>5, <2>6
<1> QED
  BY <1>1, <1>2

LEMMA FlushJoins ==
    ASSUME NEW w \in Seq(Frame), NEW s \in Record, NEW f \in Frame, f.c = <<>>
    PROVE  Flushes(Joined(w, f, flushed(s)), w, s.out, Len(w), Len(s.out))
<1> DEFINE x == flushed(s)
           q == Joined(w, f, x)
<1>1. x \in Seq(Frame) /\ Len(x) = Len(s.out) /\ s.out \in Seq(Capsule)
      /\ \A i \in 1 .. Len(s.out) : x[i].c = <<s.out[i]>>
  BY FlushedType, RecordFields
<1> HIDE DEF x
<1>2. /\ DOMAIN q = 1 .. (Len(w) + 1 + Len(x))
      /\ \A i \in 1 .. Len(w) : q[i] = w[i]
      /\ q[Len(w) + 1] = f
      /\ \A i \in 1 .. Len(x) : q[Len(w) + 1 + i] = x[i]
  <2>1. x \in Seq(Frame)
    BY <1>1
  <2>2. /\ DOMAIN Joined(w, f, x) = 1 .. (Len(w) + 1 + Len(x))
        /\ Joined(w, f, x)[Len(w) + 1] = f
    BY <2>1, Between
  <2>3. \A i \in 1 .. Len(w) : Joined(w, f, x)[i] = w[i]
    BY <2>1, Between
  <2>4. \A i \in 1 .. Len(x) : Joined(w, f, x)[Len(w) + 1 + i] = x[i]
    BY <2>1, Between
  <2> QED
    BY <2>2, <2>3, <2>4
<1>3. DOMAIN w = 1 .. Len(w) /\ DOMAIN s.out = 1 .. Len(s.out) /\ Len(w) \in Nat /\ Len(s.out) \in Nat
  BY <1>1
<1> HIDE DEF q
<1>4. Flushes(q, w, s.out, Len(w), Len(s.out))
  BY <1>1, <1>2, <1>3 DEF Flushes
<1> QED
  BY <1>4 DEF q, x

LEMMA AcceptType ==
    ASSUME NEW B, NEW r \in RecordOf(B), NEW nil \in Seq(Capsule), NEW a \in B, NEW b \in B,
           NEW f \in B, NEW g \in B, NEW x \in {"none", "ok", "refused"}
    PROVE  [r EXCEPT !.response = x, !.reader = g, !.is_established = a, !.out = nil,
                     !.sent_end = b, !.end_stream_pending = f] \in RecordOf(B)
  BY ZenonT(30) DEF RecordOf

answered(s) == [s EXCEPT !.response = "ok", !.reader = TRUE, !.is_established = s.entry,
                         !.out = <<>>, !.sent_end = s.end_stream_pending,
                         !.end_stream_pending = FALSE]
looping(u) == [u EXCEPT !.running = IF u.entry THEN "accept" ELSE "no"]
accepted(s) == looping(close_if_both_ended(answered(s)))

LEMMA AnsweredType ==
    ASSUME NEW s \in Record
    PROVE  answered(s) \in Record
<1>1. s.entry \in BOOLEAN /\ s.end_stream_pending \in BOOLEAN /\ <<>> \in Seq(Capsule)
      /\ "ok" \in {"none", "ok", "refused"}
  BY DEF Record
<1> QED
  BY <1>1, RecordIs, AcceptType, ZenonT(60) DEF answered

LEMMA AcceptSound ==
    ASSUME NEW w \in Seq(Frame), NEW s \in Record, Sound("server", w, s), s.opened,
           NEW f \in Frame, f.c = <<>>
    PROVE  /\ accepted(s) \in Record /\ Sound("server", Joined(w, f, flushed(s)), accepted(s))
           /\ accepted(s).opened /\ accepted(s).ready = s.ready /\ accepted(s).response = "ok"
<1> DEFINE q == Joined(w, f, flushed(s))
           t == answered(s)
           u == close_if_both_ended(t)
           v == looping(u)
<1>1. t \in Record
  BY AnsweredType
<1>2. /\ t.over = s.over /\ t.late = s.late /\ t.ready = s.ready /\ t.out = <<>>
      /\ t.opened = s.opened /\ t.response = "ok" /\ t.running = s.running
      /\ t.entry = s.entry /\ t.is_terminated = s.is_terminated
      /\ t.is_established = s.entry
  BY DEF Record, answered
<1> HIDE DEF t
<1>3. Flushes(q, w, s.out, Len(w), Len(s.out)) /\ s.out \in Seq(Capsule)
  BY FlushJoins, RecordFields
<1> HIDE DEF q
<1>4. Told("server", t)
  BY <1>2 DEF Sound, Told, Once, Fresh, Answered
<1>5. Closes(w, s) => Closes(q, t)
  BY <1>2, <1>3, CloseFlush DEF Closes
<1>6. Sound("server", q, t) /\ Once(t)
  BY <1>4, <1>5 DEF Sound, Told
<1>7. Drops(t, u)
  BY <1>1, <1>6, BothEndedDrops
<1> HIDE DEF u
<1>8. Keeps("server", q, t, u)
  BY <1>1, <1>6, <1>7, KeepsDrops DEF End
<1>9. u \in Record /\ Sound("server", q, u) /\ u.opened /\ u.ready = s.ready /\ u.response = "ok"
  BY <1>2, <1>8 DEF Keeps
<1>10. v \in Record
  <2>1. (IF u.entry THEN "accept" ELSE "no") \in Running
    BY DEF Running
  <2> QED
    BY <1>9, <2>1, RecordIs, RunningType, Zenon DEF looping
<1>11. /\ v.over = u.over /\ v.late = u.late /\ v.ready = u.ready /\ v.out = u.out
       /\ v.opened = u.opened /\ v.response = u.response
       /\ v.entry = u.entry /\ v.is_terminated = u.is_terminated
       /\ v.is_established = u.is_established
  BY <1>9 DEF Record, looping
<1> HIDE DEF v
<1>12. Told("server", v)
  BY <1>9, <1>11 DEF Sound, Told, Once, Fresh, Answered
<1>13. Closes(q, u) => Closes(q, v)
  BY <1>11 DEF Closes
<1>14. Sound("server", q, v)
  BY <1>9, <1>12, <1>13 DEF Sound
<1> QED
  BY <1>9, <1>10, <1>11, <1>14 DEF q, t, u, v, accepted

LEMMA WrittenType ==
    ASSUME NEW B, NEW r \in RecordOf(B), NEW o \in Seq(Capsule), NEW a \in B, NEW b \in B
    PROVE  [r EXCEPT !.out = o, !.sent_end = a, !.end_stream_pending = b] \in RecordOf(B)
  BY Zenon DEF RecordOf

LEMMA WriteSound ==
    ASSUME NEW e \in End, NEW w \in Seq(Frame), NEW s \in Record, Sound(e, w, s),
           NEW f \in Frame, NEW p, Chunked(s.out, f.c, p), NEW fin \in BOOLEAN, NEW b \in BOOLEAN
    PROVE  Keeps(e, Append(w, f), s, close_if_both_ended(
                     [s EXCEPT !.out = p, !.sent_end = fin, !.end_stream_pending = b]))
<1> DEFINE t == [s EXCEPT !.out = p, !.sent_end = fin, !.end_stream_pending = b]
<1>1. s.out \in Seq(Capsule)
  BY RecordFields
<1>2. /\ p \in Seq(Capsule)
      /\ CloseLast(w, s.out) => CloseLast(Append(w, f), p)
      /\ NoClose(w, s.out) => NoClose(Append(w, f), p)
      /\ s.out = <<>> => p = <<>>
  <2>1. p \in Seq(Capsule) /\ (s.out = <<>> => p = <<>>)
    BY DEF Chunked
  <2> QED
    BY <1>1, <2>1, CloseWrite
<1>4. t \in Record
  BY <1>2, RecordIs, WrittenType, Zenon
<1>5. /\ t.over = s.over /\ t.late = s.late /\ t.ready = s.ready /\ t.out = p
      /\ t.opened = s.opened /\ t.response = s.response /\ t.running = s.running
      /\ t.entry = s.entry /\ t.is_terminated = s.is_terminated
      /\ t.is_established = s.is_established
  BY DEF Record
<1> HIDE DEF t
<1>6. Told(e, t)
  BY <1>2, <1>5 DEF Sound, Told, Once, Fresh, Answered, Waits
<1>7. Closes(w, s) => Closes(Append(w, f), t)
  BY <1>2, <1>5 DEF Closes
<1>8. Keeps(e, Append(w, f), s, t) /\ Once(t) /\ Sound(e, Append(w, f), t)
  BY <1>4, <1>5, <1>6, <1>7 DEF Keeps, Sound, Told
<1>9. Drops(t, close_if_both_ended(t))
  BY <1>4, <1>8, BothEndedDrops
<1>10. Keeps(e, Append(w, f), t, close_if_both_ended(t))
  BY <1>4, <1>8, <1>9, KeepsDrops
<1> QED
  BY <1>8, <1>10, KeepsTrans DEF t

-----------------------------------------------------------------------------
(* HEADERS on the wire.                                                    *)
LEMMA HeaderAppend ==
    ASSUME NEW w \in Seq(Frame), NEW f \in Frame
    PROVE  /\ ~Header(f) => /\ HasHeader(Append(w, f)) => HasHeader(w)
                            /\ OneHeader(w) => OneHeader(Append(w, f))
           /\ ~HasHeader(w) => OneHeader(Append(w, f))
<1>1. /\ DOMAIN w = 1 .. Len(w) /\ Len(w) \in Nat /\ DOMAIN Append(w, f) = 1 .. (Len(w) + 1)
      /\ \A i \in 1 .. Len(w) : Append(w, f)[i] = w[i]
      /\ Append(w, f)[Len(w) + 1] = f
  OBVIOUS
<1>2. \A i \in DOMAIN Append(w, f) : Header(Append(w, f)[i]) =>
         \/ i \in DOMAIN w /\ Header(w[i])
         \/ i = Len(w) + 1 /\ Header(f)
  BY <1>1
<1> QED
  BY <1>1, <1>2 DEF HasHeader, OneHeader

LEMMA HeaderTail ==
    ASSUME NEW w \in Seq(Frame), w # <<>>
    PROVE  /\ HasHeader(Tail(w)) => HasHeader(w)
           /\ OneHeader(w) => OneHeader(Tail(w))
           /\ Header(Head(w)) => HasHeader(w)
           /\ OneHeader(w) /\ Header(Head(w)) => ~HasHeader(Tail(w))
<1>1. /\ DOMAIN w = 1 .. Len(w) /\ Len(w) \in Nat \ {0} /\ Tail(w) \in Seq(Frame)
      /\ DOMAIN Tail(w) = 1 .. (Len(w) - 1) /\ Head(w) = w[1]
  OBVIOUS
<1>2. \A i \in 1 .. (Len(w) - 1) : Tail(w)[i] = w[i + 1] /\ i + 1 \in 1 .. Len(w) /\ i + 1 # 1
  BY <1>1, Tails
<1>3. 1 \in 1 .. Len(w)
  BY <1>1
<1>4. OneHeader(w) => OneHeader(Tail(w))
  <2> SUFFICES ASSUME OneHeader(w), NEW i \in 1 .. (Len(w) - 1), NEW j \in 1 .. (Len(w) - 1),
                      Header(Tail(w)[i]), Header(Tail(w)[j])
               PROVE  i = j
    BY <1>1 DEF OneHeader
  <2>1. Header(w[i + 1]) /\ Header(w[j + 1])
    BY <1>2
  <2>2. i + 1 = j + 1
    BY <1>1, <1>2, <2>1 DEF OneHeader
  <2> QED
    BY <2>2
<1>5. HasHeader(Tail(w)) => HasHeader(w)
  BY <1>1, <1>2 DEF HasHeader
<1>6. Header(Head(w)) => HasHeader(w)
  BY <1>1, <1>3 DEF HasHeader
<1>7. OneHeader(w) /\ Header(Head(w)) => ~HasHeader(Tail(w))
  <2> SUFFICES ASSUME OneHeader(w), Header(w[1]), NEW i \in 1 .. (Len(w) - 1), Header(Tail(w)[i])
               PROVE  FALSE
    BY <1>1 DEF HasHeader
  <2>1. Header(w[i + 1])
    BY <1>2
  <2> QED
    BY <1>1, <1>2, <1>3, <2>1 DEF OneHeader
<1> QED
  BY <1>4, <1>5, <1>6, <1>7

LEMMA JoinedFrames ==
    ASSUME NEW w \in Seq(Frame), NEW f \in Frame, NEW x \in Seq(Frame)
    PROVE  /\ DOMAIN Joined(w, f, x) = 1 .. (Len(w) + 1 + Len(x))
           /\ \A i \in 1 .. Len(w) : Joined(w, f, x)[i] = w[i]
           /\ \A i \in 1 .. Len(x) : Joined(w, f, x)[Len(w) + 1 + i] = x[i]
<1>0. DOMAIN Joined(w, f, x) = 1 .. (Len(w) + 1 + Len(x))
  BY Between
<1>1. \A i \in 1 .. Len(w) : Joined(w, f, x)[i] = w[i]
  BY Between
<1>2. \A i \in 1 .. Len(x) : Joined(w, f, x)[Len(w) + 1 + i] = x[i]
  BY Between
<1> QED
  BY <1>0, <1>1, <1>2

LEMMA HeaderJoined ==
    ASSUME NEW w \in Seq(Frame), NEW f \in Frame, NEW x \in Seq(Frame), ~HasHeader(w),
           \A i \in 1 .. Len(x) : ~Header(x[i])
    PROVE  OneHeader(Joined(w, f, x))
<1> DEFINE q == Joined(w, f, x)
<1>0. DOMAIN q = 1 .. (Len(w) + 1 + Len(x))
  BY JoinedFrames, Zenon
<1>1. /\ DOMAIN q = 1 .. (Len(w) + 1 + Len(x)) /\ Len(w) \in Nat /\ Len(x) \in Nat
      /\ DOMAIN w = 1 .. Len(w)
  BY <1>0
<1>2. \A i \in 1 .. Len(w) : Joined(w, f, x)[i] = w[i]
  BY JoinedFrames, Zenon
<1>3. \A i \in 1 .. Len(x) : Joined(w, f, x)[Len(w) + 1 + i] = x[i]
  BY JoinedFrames, Zenon
<1>a. Joined(w, f, x) = q
  OBVIOUS
<1> HIDE DEF q
<1>4. ASSUME NEW i \in DOMAIN q, Header(q[i]) PROVE i = Len(w) + 1
  <2>1. i \notin 1 .. Len(w)
    BY <1>1, <1>2, <1>a, <1>4 DEF HasHeader
  <2>2. i \in (Len(w) + 2) .. (Len(w) + 1 + Len(x)) => FALSE
    <3> SUFFICES ASSUME i \in (Len(w) + 2) .. (Len(w) + 1 + Len(x)) PROVE FALSE
      OBVIOUS
    <3> DEFINE j == i - (Len(w) + 1)
    <3>1. j \in 1 .. Len(x) /\ i = Len(w) + 1 + j
      BY <1>1
    <3> HIDE DEF j
    <3> QED
      BY <1>3, <1>a, <1>4, <3>1
  <2> QED
    BY <1>1, <2>1, <2>2
<1> QED
  BY <1>4 DEF OneHeader, q

-----------------------------------------------------------------------------
(* A step of an end e that runs this code, from its record s to t.         *)
Begun(e, s) == IF e = "client" THEN s.opened ELSE s.response # "none"
Meets(e, s) == IF e = "server" THEN s.opened ELSE s.ready # 0

LEMMA PeerIs ==
    ASSUME NEW e \in End
    PROVE  /\ Peer(e) \in End /\ Peer(e) # e /\ Peer(Peer(e)) = e
           /\ \A d \in End : d = e \/ d = Peer(e)
  BY DEF End, Peer

Wired(e, v) == \/ v = wire[e]
               \/ wire[e] # <<>> /\ v = Tail(wire[e])

LEMMA OwnHeaders ==
    ASSUME TypeOK, NEW e \in End \ foreign, NEW t, HeadersOnce(e),
           h' = [h EXCEPT ![e] = t], foreign' = foreign,
           OneHeader(wire'[e]),
           \/ Begun(e, t) = Begun(e, h[e]) /\ (HasHeader(wire'[e]) => HasHeader(wire[e]))
           \/ ~Begun(e, h[e]) /\ Begun(e, t)
    PROVE  HeadersOnce(e)'
<1>1. h'[e] = t /\ h'[Peer(e)] = h[Peer(e)]
  BY PeerIs DEF TypeOK
<1>2. Began(e) = Begun(e, h[e]) /\ Began(e)' = Begun(e, t)
  BY <1>1 DEF Began, Begun, End
<1>3. Met(Peer(e))' = Met(Peer(e))
  BY <1>1 DEF Met
<1> QED
  BY <1>2, <1>3 DEF HeadersOnce

LEMMA PeerHeaders ==
    ASSUME TypeOK, NEW e \in End \ foreign, NEW t, HeadersOnce(Peer(e)),
           h' = [h EXCEPT ![e] = t], foreign' = foreign,
           Wired(Peer(e), wire'[Peer(e)]),
           \/ Meets(e, t) = Meets(e, h[e])
           \/ /\ wire[Peer(e)] # <<>> /\ Header(Head(wire[Peer(e)]))
              /\ wire'[Peer(e)] = Tail(wire[Peer(e)])
    PROVE  HeadersOnce(Peer(e))'
<1> DEFINE p == Peer(e)
<1>0. p \in End /\ p # e /\ Peer(p) = e /\ wire[p] \in Seq(Frame)
  BY PeerIs DEF TypeOK
<1>1. h'[e] = t /\ h'[p] = h[p]
  BY <1>0 DEF TypeOK
<1>2. Began(p)' = Began(p)
  BY <1>1 DEF Began
<1>3. Met(e) = Meets(e, h[e]) /\ Met(e)' = Meets(e, t)
  BY <1>1 DEF Met, Meets
<1> HIDE DEF p
<1>4. /\ HasHeader(wire'[p]) => HasHeader(wire[p])
      /\ OneHeader(wire[p]) => OneHeader(wire'[p])
  BY <1>0, HeaderTail DEF Wired, p
<1>5. CASE Meets(e, t) = Meets(e, h[e])
  <2>1. HeadersOnce(p)'
    BY <1>0, <1>2, <1>3, <1>4, <1>5 DEF HeadersOnce, p
  <2> QED
    BY <2>1 DEF p
<1>6. CASE wire[p] # <<>> /\ Header(Head(wire[p])) /\ wire'[p] = Tail(wire[p])
  <2>1. HasHeader(wire[p]) /\ ~HasHeader(wire'[p])
    BY <1>0, <1>6, HeaderTail DEF HeadersOnce, p
  <2>2. HeadersOnce(p)'
    BY <1>0, <1>2, <1>4, <2>1 DEF HeadersOnce, p
  <2> QED
    BY <2>2 DEF p
<1> QED
  BY <1>5, <1>6 DEF p

(* The parts of the invariant that a step of e can disturb.                *)
LEMMA Step ==
    ASSUME TypeOK, Inv, NEW e \in End \ foreign, NEW t \in Record,
           h' = [h EXCEPT ![e] = t], wire' \in [End -> Seq(Frame)],
           sends' \in [End -> Nat], foreign' = foreign, early' = early,
           Sound(e, wire'[e], t), Wired(Peer(e), wire'[Peer(e)]),
           HeadersOnce(e)', HeadersOnce(Peer(e))'
    PROVE  TypeOK' /\ Inv'
<1> DEFINE p == Peer(e)
<1>0. p \in End /\ p # e /\ Peer(p) = e /\ \A d \in End : d = e \/ d = p
  BY PeerIs
<1>1. h'[e] = t /\ h'[p] = h[p]
  BY <1>0 DEF TypeOK
<1>2. TypeOK'
  BY DEF TypeOK
<1>3. \A d \in End : HeadersOnce(d)'
  <2>1. HeadersOnce(p)'
    OBVIOUS
  <2> QED
    BY <1>0, <2>1
<1>4. p \notin foreign => Sound(p, wire'[p], h[p])
  <2>1. p \notin foreign => Sound(p, wire[p], h[p])
    BY <1>0 DEF Inv, Sound
  <2>2. wire[p] \in Seq(Frame)
    BY <1>0 DEF TypeOK
  <2> HIDE DEF p
  <2> QED
    BY <1>0, <2>1, <2>2, SoundTail DEF Wired, p
<1> HIDE DEF p
<1>5. ASSUME NEW d \in End \ foreign PROVE Sound(d, wire'[d], h'[d])
  BY <1>0, <1>1, <1>4
<1>6. ASSUME NEW d \in End \ foreign
      PROVE  Told(d, h[d])' /\ (~early => Closes(wire[d], h[d]))'
  <2>1. Told(d, h'[d]) /\ (~early => Closes(wire'[d], h'[d]))
    BY <1>5 DEF Sound
  <2>2. Told(d, h[d])'
    BY <2>1 DEF Told, Once, Fresh, Answered, Waits
  <2>3. (~early => Closes(wire[d], h[d]))'
    BY <2>1 DEF Closes, CloseLast, NoClose, IsClose
  <2> QED
    BY <2>2, <2>3
<1>7. \A d \in End \cap foreign : h'[d].running = "no"
  BY <1>0, <1>1 DEF Inv
<1>8. Inv'
  BY <1>3, <1>6, <1>7 DEF Inv
<1> QED
  BY <1>2, <1>8

LEMMA SoundNow ==
    ASSUME TypeOK, Inv, NEW e \in End \ foreign
    PROVE  /\ Sound(e, wire[e], h[e]) /\ h[e] \in Record /\ wire[e] \in Seq(Frame)
           /\ wire[Peer(e)] \in Seq(Frame) /\ HeadersOnce(e) /\ HeadersOnce(Peer(e))
<1>1. Peer(e) \in End
  BY PeerIs
<1> QED
  BY <1>1 DEF TypeOK, Inv, Sound

LEMMA StepKeeps ==
    ASSUME TypeOK, Inv, NEW e \in End \ foreign, NEW t, h' = [h EXCEPT ![e] = t],
           wire' \in [End -> Seq(Frame)], sends' \in [End -> Nat],
           foreign' = foreign, early' = early,
           Keeps(e, wire'[e], h[e], t), Wired(Peer(e), wire'[Peer(e)]),
           OneHeader(wire[e]) => OneHeader(wire'[e]),
           HasHeader(wire'[e]) => HasHeader(wire[e])
    PROVE  TypeOK' /\ Inv'
<1>1. HeadersOnce(e) /\ HeadersOnce(Peer(e))
  BY SoundNow
<1>2. t \in Record /\ Sound(e, wire'[e], t)
  BY DEF Keeps
<1>3. Begun(e, t) = Begun(e, h[e]) /\ Meets(e, t) = Meets(e, h[e])
  BY DEF Keeps, Begun, Meets
<1>4. HeadersOnce(e)'
  <2>1. OneHeader(wire'[e])
    BY <1>1 DEF HeadersOnce
  <2> QED
    BY <1>1, <1>3, <2>1, OwnHeaders
<1>5. HeadersOnce(Peer(e))'
  BY <1>1, <1>3, PeerHeaders
<1> QED
  BY <1>2, <1>4, <1>5, Step

(* ... which leaves the frames where they are,                             *)
LEMMA StepStill ==
    ASSUME TypeOK, Inv, NEW e \in End \ foreign, NEW t, Set(e, t), wire' = wire,
           sends' \in [End -> Nat], Fixed, Keeps(e, wire[e], h[e], t)
    PROVE  TypeOK' /\ Inv'
<1>1. wire' \in [End -> Seq(Frame)] /\ wire'[e] = wire[e] /\ Wired(Peer(e), wire'[Peer(e)])
  BY DEF TypeOK, Wired
<1>2. h' = [h EXCEPT ![e] = t] /\ foreign' = foreign /\ early' = early
  BY DEF Set, Fixed
<1>3. Keeps(e, wire'[e], h[e], t)
  BY <1>1
<1>4. /\ OneHeader(wire[e]) => OneHeader(wire'[e])
      /\ HasHeader(wire'[e]) => HasHeader(wire[e])
  BY <1>1
<1> QED
  BY <1>1, <1>2, <1>3, <1>4, StepKeeps

(* ... takes one from the peer,                                            *)
LEMMA TookIs ==
    ASSUME TypeOK, NEW e \in End, wire[Peer(e)] # <<>>, Took(e)
    PROVE  /\ wire' \in [End -> Seq(Frame)] /\ wire'[e] = wire[e]
           /\ wire'[Peer(e)] = Tail(wire[Peer(e)]) /\ Wired(Peer(e), wire'[Peer(e)])
<1>1. Peer(e) \in End /\ Peer(e) # e
  BY PeerIs
<1>2. wire[Peer(e)] \in Seq(Frame)
  BY <1>1 DEF TypeOK
<1>3. Tail(wire[Peer(e)]) \in Seq(Frame)
  BY <1>2
<1>4. /\ wire' \in [End -> Seq(Frame)] /\ wire'[e] = wire[e]
      /\ wire'[Peer(e)] = Tail(wire[Peer(e)])
  BY <1>1, <1>3 DEF TypeOK, Took
<1> QED
  BY <1>4 DEF Wired

LEMMA StepTook ==
    ASSUME TypeOK, Inv, NEW e \in End \ foreign, NEW t, Set(e, t), wire[Peer(e)] # <<>>, Took(e),
           sends' = sends, Fixed, Keeps(e, wire[e], h[e], t)
    PROVE  TypeOK' /\ Inv'
<1>1. wire' \in [End -> Seq(Frame)] /\ wire'[e] = wire[e] /\ Wired(Peer(e), wire'[Peer(e)])
  BY TookIs
<1>2. /\ h' = [h EXCEPT ![e] = t] /\ foreign' = foreign /\ early' = early
      /\ sends' \in [End -> Nat]
  BY DEF Set, Fixed, TypeOK
<1>3. Keeps(e, wire'[e], h[e], t)
  BY <1>1
<1>4. /\ OneHeader(wire[e]) => OneHeader(wire'[e])
      /\ HasHeader(wire'[e]) => HasHeader(wire[e])
  BY <1>1
<1> QED
  BY <1>1, <1>2, <1>3, <1>4, StepKeeps

(* ... or writes one.                                                      *)
LEMMA QueueIs ==
    ASSUME TypeOK, NEW e \in End, NEW f \in Frame, Queue(e, <<f>>)
    PROVE  /\ wire' \in [End -> Seq(Frame)] /\ wire'[e] = Append(wire[e], f)
           /\ wire'[Peer(e)] = wire[Peer(e)] /\ Wired(Peer(e), wire'[Peer(e)])
<1>1. Peer(e) \in End /\ Peer(e) # e
  BY PeerIs
<1>2. wire[e] \in Seq(Frame)
  BY DEF TypeOK
<1>3. wire[e] \o <<f>> = Append(wire[e], f) /\ Append(wire[e], f) \in Seq(Frame)
  BY <1>2
<1>4. /\ wire' \in [End -> Seq(Frame)] /\ wire'[e] = Append(wire[e], f)
      /\ wire'[Peer(e)] = wire[Peer(e)]
  BY <1>1, <1>3 DEF TypeOK, Queue
<1> QED
  BY <1>4 DEF Wired

LEMMA StepQueue ==
    ASSUME TypeOK, Inv, NEW e \in End \ foreign, NEW t, Set(e, t), NEW f \in Frame,
           ~Header(f), Queue(e, <<f>>), sends' = sends, Fixed,
           Keeps(e, Append(wire[e], f), h[e], t)
    PROVE  TypeOK' /\ Inv'
<1>1. /\ wire' \in [End -> Seq(Frame)] /\ wire'[e] = Append(wire[e], f)
      /\ Wired(Peer(e), wire'[Peer(e)]) /\ wire[e] \in Seq(Frame)
  BY QueueIs DEF TypeOK
<1>2. /\ h' = [h EXCEPT ![e] = t] /\ foreign' = foreign /\ early' = early
      /\ sends' \in [End -> Nat]
  BY DEF Set, Fixed, TypeOK
<1>3. Keeps(e, wire'[e], h[e], t)
  BY <1>1
<1>4. /\ OneHeader(wire[e]) => OneHeader(wire'[e])
      /\ HasHeader(wire'[e]) => HasHeader(wire[e])
  BY <1>1, HeaderAppend
<1> QED
  BY <1>1, <1>2, <1>3, <1>4, StepKeeps

-----------------------------------------------------------------------------
(* The actions of an application.                                          *)
LEMMA SettingsType ==
    ASSUME NEW B, NEW r \in RecordOf(B), NEW g \in B
    PROVE  /\ [r EXCEPT !.settings = g] \in RecordOf(B)
           /\ [r EXCEPT !.goaway_received = g] \in RecordOf(B)
<1>1. [r EXCEPT !.settings = g] \in RecordOf(B)
  BY Zenon DEF RecordOf
<1>2. [r EXCEPT !.goaway_received = g] \in RecordOf(B)
  BY Zenon DEF RecordOf
<1> QED
  BY <1>1, <1>2

LEMMA SettingsSame ==
    ASSUME NEW s \in Record
    PROVE  Same(s, [s EXCEPT !.settings = TRUE]) /\ Same(s, [s EXCEPT !.goaway_received = TRUE])
<1> DEFINE t == [s EXCEPT !.settings = TRUE]
           u == [s EXCEPT !.goaway_received = TRUE]
<1>0. t \in Record /\ u \in Record
  BY RecordIs, SettingsType, Zenon
<1>1. /\ t.over = s.over /\ t.late = s.late /\ t.ready = s.ready
      /\ t.entry = s.entry /\ t.is_established = s.is_established
      /\ t.is_terminated = s.is_terminated /\ t.out = s.out
      /\ t.opened = s.opened /\ t.response = s.response /\ t.running = s.running
  BY DEF Record
<1>2. /\ u.over = s.over /\ u.late = s.late /\ u.ready = s.ready
      /\ u.entry = s.entry /\ u.is_established = s.is_established
      /\ u.is_terminated = s.is_terminated /\ u.out = s.out
      /\ u.opened = s.opened /\ u.response = s.response /\ u.running = s.running
  BY DEF Record
<1> HIDE DEF t, u
<1>3. Same(s, t) /\ Same(s, u)
  BY <1>0, <1>1, <1>2 DEF Same
<1> QED
  BY <1>3 DEF t, u

LEMMA SettingsInv ==
    ASSUME TypeOK, Inv, RecvSettings \/ RecvGoaway
    PROVE  TypeOK' /\ Inv'
<1> DEFINE s == h["client"]
<1>1. "client" \in End \ foreign /\ wire' = wire /\ sends' \in [End -> Nat] /\ Fixed
  BY DEF RecvSettings, RecvGoaway, Ours, End, TypeOK
<1>2. s \in Record /\ Sound("client", wire["client"], s)
  BY <1>1, SoundNow
<1>3. PICK t : Set("client", t) /\ Same(s, t)
  BY <1>2, SettingsSame DEF RecvSettings, RecvGoaway
<1>4. Keeps("client", wire["client"], s, t)
  BY <1>1, <1>2, <1>3, KeepsSame
<1> QED
  BY <1>1, <1>3, <1>4, StepStill

LEMMA SendsInv ==
    ASSUME TypeOK, Inv, NEW e \in End, SendDatagram(e) \/ DrainSession(e) \/ SendStreamData(e)
    PROVE  TypeOK' /\ Inv'
<1> DEFINE s == h[e]
<1>1. PICK k \in {"DATAGRAM", "DRAIN", "STREAM"} :
         /\ e \notin foreign /\ s.entry /\ ~s.is_terminated
         /\ Sends(e, send_capsule(s, Plain(k)))
  BY DEF SendDatagram, DrainSession, SendStreamData, Ours
<1>2. /\ sends' \in [End -> Nat] /\ wire' = wire /\ Fixed
      /\ Set(e, send_capsule(s, Plain(k)))
  BY <1>1 DEF Sends, TypeOK
<1>3. s \in Record /\ Sound(e, wire[e], s)
  BY <1>1, SoundNow
<1>4. Plain(k) \in Capsule /\ Plain(k).k # "CLOSE"
  BY LimitPlain DEF Kind
<1>5. Keeps(e, wire[e], s, send_capsule(s, Plain(k)))
  BY <1>1, <1>3, <1>4, KeepsSend
<1> QED
  BY <1>1, <1>2, <1>5, StepStill

LEMMA CloseSessionInv ==
    ASSUME TypeOK, Inv, NEW e \in End, CloseSession(e)
    PROVE  TypeOK' /\ Inv'
<1> DEFINE s == h[e]
<1>1. /\ e \notin foreign /\ s.entry /\ ~s.is_terminated /\ (early \/ s.is_established)
      /\ Set(e, close_session(s, "app")) /\ wire' = wire /\ sends' \in [End -> Nat] /\ Fixed
  BY DEF CloseSession, Ours, TypeOK
<1>2. s \in Record /\ Sound(e, wire[e], s)
  BY <1>1, SoundNow
<1>3. "app" \in Reason
  BY DEF Reason
<1>4. Keeps(e, wire[e], s, close_session(s, "app"))
  BY <1>1, <1>2, <1>3, KeepsClose
<1> QED
  BY <1>1, <1>4, StepStill

LEMMA WriteInv ==
    ASSUME TypeOK, Inv, NEW e \in End, Write(e)
    PROVE  TypeOK' /\ Inv'
<1> DEFINE s == h[e]
           fin == s.end_stream_pending /\ Len(s.out) <= 1
           n == IF s.out = <<>> THEN 0 ELSE 1
           c == SubSeq(s.out, 1, n)
           p == SubSeq(s.out, n + 1, Len(s.out))
           b == s.end_stream_pending /\ ~fin
           t == [s EXCEPT !.out = p, !.sent_end = fin, !.end_stream_pending = b]
<1>1. e \notin foreign /\ Queue(e, <<Data(c, fin)>>) /\ sends' = sends /\ Fixed
  BY DEF Write, Ours
<1>2. Set(e, close_if_both_ended(t))
  BY DEF Write
<1>3. s \in Record /\ Sound(e, wire[e], s) /\ wire[e] \in Seq(Frame)
  BY <1>1, SoundNow
<1>4. s.out \in Seq(Capsule) /\ fin \in BOOLEAN /\ b \in BOOLEAN
  BY <1>3, RecordFields
<1>5. Chunked(s.out, c, p)
  BY <1>4, ChunkedIs
<1> HIDE DEF s, n, c, p, fin, b
<1>6. c \in Seq(Capsule)
  BY <1>5 DEF Chunked
<1>7. Data(c, fin) \in Frame /\ Data(c, fin).t = "data" /\ Data(c, fin).c = c
  BY <1>4, <1>6, DataType
<1>8. ~Header(Data(c, fin))
  BY <1>7 DEF Header
<1>9. Keeps(e, Append(wire[e], Data(c, fin)), s, close_if_both_ended(t))
  BY <1>3, <1>4, <1>5, <1>7, WriteSound
<1> HIDE DEF t
<1>10. Keeps(e, Append(wire[e], Data(c, fin)), h[e], close_if_both_ended(t))
  BY <1>9 DEF s
<1> QED
  BY <1>1, <1>2, <1>7, <1>8, <1>10, StepQueue

LEMMA WriteRstInv ==
    ASSUME TypeOK, Inv, NEW e \in End, WriteRst(e)
    PROVE  TypeOK' /\ Inv'
<1> DEFINE s == h[e]
<1>1. /\ e \notin foreign /\ Queue(e, <<Rst>>) /\ sends' = sends /\ Fixed
      /\ Set(e, stream_close(s))
  BY DEF WriteRst, Ours
<1>2. s \in Record /\ Sound(e, wire[e], s) /\ wire[e] \in Seq(Frame)
  BY <1>1, SoundNow
<1>3. Rst \in Frame /\ ~Header(Rst) /\ Rst.c = <<>>
  BY RstType DEF Header
<1>4. Sound(e, Append(wire[e], Rst), s)
  BY <1>2, <1>3, SoundFrame
<1>5. Drops(s, stream_close(s))
  BY <1>2, SoundOnce, StreamCloseDrops
<1>6. Keeps(e, Append(wire[e], Rst), s, stream_close(s))
  BY <1>2, <1>4, <1>5, KeepsDrops
<1> QED
  BY <1>1, <1>3, <1>6, StepQueue

(* An end that writes its HEADERS has written none before.                 *)
LEMMA StepHeaders ==
    ASSUME TypeOK, Inv, NEW e \in End \ foreign, NEW t \in Record, Set(e, t),
           wire' \in [End -> Seq(Frame)], sends' = sends, Fixed,
           Sound(e, wire'[e], t), Wired(Peer(e), wire'[Peer(e)]),
           ~Begun(e, h[e]), Begun(e, t),
           ~HasHeader(wire[e]) => OneHeader(wire'[e]),
           \/ Meets(e, t) = Meets(e, h[e])
           \/ /\ wire[Peer(e)] # <<>> /\ Header(Head(wire[Peer(e)]))
              /\ wire'[Peer(e)] = Tail(wire[Peer(e)])
    PROVE  TypeOK' /\ Inv'
<1>1. HeadersOnce(e) /\ HeadersOnce(Peer(e))
  BY SoundNow
<1>2. /\ h' = [h EXCEPT ![e] = t] /\ foreign' = foreign /\ early' = early
      /\ sends' \in [End -> Nat]
  BY DEF Set, Fixed, TypeOK
<1>3. ~HasHeader(wire[e])
  BY <1>1 DEF HeadersOnce, Began, Begun
<1>4. HeadersOnce(e)'
  BY <1>1, <1>2, <1>3, OwnHeaders
<1>5. HeadersOnce(Peer(e))'
  BY <1>1, <1>2, PeerHeaders
<1> QED
  BY <1>2, <1>4, <1>5, Step

LEMMA ConnectInv ==
    ASSUME TypeOK, Inv, Connect
    PROVE  TypeOK' /\ Inv'
<1> DEFINE s == h["client"]
           f == Headers("request", FALSE)
           t == [s EXCEPT !.entry = TRUE, !.opened = TRUE, !.reader = TRUE,
                          !.received_max = InitialLimit]
<1>1. /\ "client" \in End \ foreign /\ ~s.opened /\ Queue("client", <<f>>)
      /\ Set("client", t) /\ sends' = sends /\ Fixed
  BY DEF Connect, Ours, End
<1>2. s \in Record /\ Sound("client", wire["client"], s) /\ wire["client"] \in Seq(Frame)
  BY <1>1, SoundNow
<1>3. t \in Record /\ Sound("client", wire["client"], t) /\ t.opened /\ t.ready = s.ready
  BY <1>1, <1>2, ConnectSound
<1>4. f \in Frame /\ f.c = <<>>
  BY HeadersType
<1> HIDE DEF f, t
<1>5. /\ wire' \in [End -> Seq(Frame)] /\ wire'["client"] = Append(wire["client"], f)
      /\ Wired(Peer("client"), wire'[Peer("client")])
  BY <1>1, <1>4, QueueIs
<1>6. Sound("client", wire'["client"], t)
  BY <1>1, <1>2, <1>3, <1>4, <1>5, SoundFrame
<1>7. ~HasHeader(wire["client"]) => OneHeader(wire'["client"])
  BY <1>2, <1>4, <1>5, HeaderAppend
<1>8. ~Begun("client", s) /\ Begun("client", t) /\ Meets("client", t) = Meets("client", s)
  BY <1>1, <1>3 DEF Begun, Meets
<1> QED
  BY <1>1, <1>3, <1>5, <1>6, <1>7, <1>8, StepHeaders

LEMMA AcceptInv ==
    ASSUME TypeOK, Inv, AcceptSession
    PROVE  TypeOK' /\ Inv'
<1> DEFINE s == h["server"]
           f == Headers("ok", FALSE)
           v == accepted(s)
           q == Joined(wire["server"], f, flushed(s))
<1>1. /\ "server" \in End \ foreign /\ s.opened /\ s.response = "none"
      /\ sends' = sends /\ Fixed
  BY DEF AcceptSession, Ours, End
<1>2. Queue("server", <<f>> \o flushed(s)) /\ Set("server", v)
  BY DEF AcceptSession, accepted, looping, answered
<1>3. s \in Record /\ Sound("server", wire["server"], s) /\ wire["server"] \in Seq(Frame)
  BY <1>1, SoundNow
<1>4. f \in Frame /\ f.c = <<>>
  BY HeadersType
<1>5. /\ v \in Record /\ Sound("server", q, v)
      /\ v.opened /\ v.ready = s.ready /\ v.response = "ok"
  BY <1>1, <1>3, <1>4, AcceptSound
<1> HIDE DEF v, f
<1>6. /\ wire' \in [End -> Seq(Frame)] /\ wire'["server"] = q
      /\ Wired(Peer("server"), wire'[Peer("server")])
  <2>1. Peer("server") \in End /\ Peer("server") # "server" /\ "server" \in End
    BY DEF Peer, End
  <2>2. flushed(s) \in Seq(Frame)
    BY <1>3, FlushedType
  <2>3. q \in Seq(Frame)
    BY <1>3, <1>4, <2>2, Between
  <2>4. wire' = [wire EXCEPT !["server"] = q]
    BY <1>2 DEF Queue, Joined
  <2> HIDE DEF q, s
  <2> QED
    BY <2>1, <2>3, <2>4 DEF TypeOK, Wired
<1>7. ~HasHeader(wire["server"]) => OneHeader(q)
  <2>1. /\ flushed(s) \in Seq(Frame) /\ Len(flushed(s)) = Len(s.out)
        /\ \A i \in 1 .. Len(s.out) : flushed(s)[i].t = "data"
    BY <1>3, FlushedType
  <2>2. \A i \in 1 .. Len(flushed(s)) : ~Header(flushed(s)[i])
    BY <2>1 DEF Header
  <2> QED
    BY <1>3, <1>4, <2>1, <2>2, HeaderJoined
<1>8. ~Begun("server", s) /\ Begun("server", v) /\ Meets("server", v) = Meets("server", s)
  BY <1>1, <1>5 DEF Begun, Meets
<1> HIDE DEF q
<1>9. Sound("server", wire'["server"], v) /\ (~HasHeader(wire["server"]) => OneHeader(wire'["server"]))
  BY <1>5, <1>6, <1>7
<1> QED
  BY <1>1, <1>2, <1>5, <1>6, <1>8, <1>9, StepHeaders

LEMMA RejectInv ==
    ASSUME TypeOK, Inv, NEW erase \in BOOLEAN, RejectSession(erase)
    PROVE  TypeOK' /\ Inv'
<1> DEFINE s == h["server"]
           f == Headers(IF erase THEN "refused" ELSE "ok", TRUE)
           t == refuse(s, erase)
<1>1. /\ "server" \in End \ foreign /\ s.opened /\ s.response = "none"
      /\ Queue("server", <<f>>) /\ Set("server", t) /\ sends' = sends /\ Fixed
  BY DEF RejectSession, Ours, End
<1>2. s \in Record /\ Sound("server", wire["server"], s) /\ wire["server"] \in Seq(Frame)
  BY <1>1, SoundNow
<1>3. /\ t \in Record /\ Sound("server", wire["server"], t)
      /\ t.opened /\ t.response = "refused"
  BY <1>1, <1>2, RefuseSound
<1>4. f \in Frame /\ f.c = <<>>
  <2>1. (IF erase THEN "refused" ELSE "ok") \in {"request", "ok", "refused"}
    OBVIOUS
  <2> QED
    BY <2>1, HeadersType
<1> HIDE DEF f, t
<1>5. /\ wire' \in [End -> Seq(Frame)] /\ wire'["server"] = Append(wire["server"], f)
      /\ Wired(Peer("server"), wire'[Peer("server")])
  BY <1>1, <1>4, QueueIs
<1>6. Sound("server", wire'["server"], t)
  BY <1>1, <1>2, <1>3, <1>4, <1>5, SoundFrame
<1>7. ~HasHeader(wire["server"]) => OneHeader(wire'["server"])
  BY <1>2, <1>4, <1>5, HeaderAppend
<1>8. ~Begun("server", s) /\ Begun("server", t) /\ Meets("server", t) = Meets("server", s)
  BY <1>1, <1>3 DEF Begun, Meets
<1> QED
  BY <1>1, <1>3, <1>5, <1>6, <1>7, <1>8, StepHeaders

-----------------------------------------------------------------------------
(* The callbacks of nghttp2.                                               *)
LEMMA ReadsIs ==
    ASSUME TypeOK, Inv, NEW e \in End, NEW types, Reads(e, types)
    PROVE  /\ e \in End \ foreign /\ wire[Peer(e)] # <<>> /\ Next1(e).t \in types
           /\ Next1(e) \in Frame /\ sends' = sends /\ Fixed
           /\ h[e] \in Record /\ Sound(e, wire[e], h[e]) /\ wire[e] \in Seq(Frame)
<1>1. /\ e \in End \ foreign /\ wire[Peer(e)] # <<>> /\ Next1(e).t \in types
      /\ sends' = sends /\ Fixed
  BY DEF Reads, Ours
<1>2. wire[Peer(e)] \in Seq(Frame)
  BY <1>1, SoundNow
<1>3. Next1(e) \in Frame
  BY <1>1, <1>2 DEF Next1
<1> QED
  BY <1>1, <1>3, SoundNow

(* HEADERS are read once, so the server is not open before the request ... *)
LEMMA HeadersRead ==
    ASSUME TypeOK, Inv, NEW e \in End \ foreign, wire[Peer(e)] # <<>>, Header(Next1(e))
    PROVE  ~Meets(e, h[e]) /\ Header(Head(wire[Peer(e)]))
<1>1. Peer(e) \in End /\ Peer(Peer(e)) = e /\ wire[Peer(e)] \in Seq(Frame)
  BY PeerIs, SoundNow
<1>2. HasHeader(wire[Peer(e)])
  BY <1>1, HeaderTail DEF Next1
<1>3. ~Met(e)
  BY <1>1, <1>2 DEF Inv, HeadersOnce
<1> QED
  BY <1>3 DEF Met, Meets, Next1

LEMMA RecvRequestInv ==
    ASSUME TypeOK, Inv, RecvRequest
    PROVE  TypeOK' /\ Inv'
<1> DEFINE s == h["server"]
           r == [push_ready(s) EXCEPT !.entry = TRUE, !.opened = TRUE,
                                      !.received_max = InitialLimit]
           t == ended("server", r)
<1>0. "server" \in End
  BY DEF End
<1>1. Reads("server", {"request"}) /\ Took("server") /\ Set("server", t)
  BY DEF RecvRequest
<1>2. /\ "server" \in End \ foreign /\ wire[Peer("server")] # <<>>
      /\ Next1("server").t \in {"request"} /\ sends' = sends /\ Fixed
      /\ s \in Record /\ Sound("server", wire["server"], s)
  BY <1>0, <1>1, ReadsIs
<1>3. Header(Next1("server"))
  BY <1>2 DEF Header
<1>4. ~s.opened /\ Header(Head(wire[Peer("server")]))
  BY <1>2, <1>3, HeadersRead DEF Meets
<1>5. r \in Record /\ Sound("server", wire["server"], r) /\ r.response = s.response
  BY <1>2, <1>4, RequestSound
<1> HIDE DEF r
<1>6. Keeps("server", wire["server"], r, t)
  BY <1>0, <1>5, KeepsEnded
<1> HIDE DEF t
<1>7. t \in Record /\ Sound("server", wire["server"], t) /\ t.response = s.response
  BY <1>5, <1>6 DEF Keeps
<1>8. /\ wire' \in [End -> Seq(Frame)] /\ wire'["server"] = wire["server"]
      /\ wire'[Peer("server")] = Tail(wire[Peer("server")])
      /\ Wired(Peer("server"), wire'[Peer("server")])
  BY <1>0, <1>1, <1>2, TookIs
<1>9. /\ h' = [h EXCEPT !["server"] = t] /\ foreign' = foreign /\ early' = early
      /\ sends' \in [End -> Nat]
  BY <1>1, <1>2 DEF Set, Fixed, TypeOK
<1>10. HeadersOnce("server") /\ HeadersOnce(Peer("server"))
  BY <1>2, SoundNow
<1>11. HeadersOnce("server")'
  <2>1. Begun("server", t) = Begun("server", s)
    BY <1>7 DEF Begun
  <2>2. OneHeader(wire'["server"]) /\ (HasHeader(wire'["server"]) => HasHeader(wire["server"]))
    BY <1>8, <1>10 DEF HeadersOnce
  <2> QED
    BY <1>2, <1>9, <1>10, <2>1, <2>2, OwnHeaders
<1>12. HeadersOnce(Peer("server"))'
  BY <1>2, <1>4, <1>8, <1>9, <1>10, PeerHeaders
<1>13. Sound("server", wire'["server"], t)
  BY <1>7, <1>8
<1> QED
  BY <1>2, <1>7, <1>8, <1>9, <1>11, <1>12, <1>13, Step

(* ... nor the client ready before the 2xx.                                *)
LEMMA RecvOkInv ==
    ASSUME TypeOK, Inv, RecvOk
    PROVE  TypeOK' /\ Inv'
<1> DEFINE s == h["client"]
           r == established(s)
           t == ended("client", r)
<1>0. "client" \in End
  BY DEF End
<1>1. Reads("client", {"ok"}) /\ Took("client") /\ Set("client", t)
  BY DEF RecvOk
<1>2. /\ "client" \in End \ foreign /\ wire[Peer("client")] # <<>>
      /\ Next1("client").t \in {"ok"} /\ sends' = sends /\ Fixed
      /\ s \in Record /\ Sound("client", wire["client"], s)
  BY <1>0, <1>1, ReadsIs
<1>3. Header(Next1("client"))
  BY <1>2 DEF Header
<1>4. s.ready = 0 /\ Header(Head(wire[Peer("client")]))
  BY <1>2, <1>3, HeadersRead DEF Meets
<1>5. r \in Record /\ Sound("client", wire["client"], r) /\ r.opened = s.opened
  BY <1>2, <1>4, EstablishedSound
<1> HIDE DEF r
<1>6. Keeps("client", wire["client"], r, t)
  BY <1>0, <1>5, KeepsEnded
<1> HIDE DEF t
<1>7. t \in Record /\ Sound("client", wire["client"], t) /\ t.opened = s.opened
  BY <1>5, <1>6 DEF Keeps
<1>8. /\ wire' \in [End -> Seq(Frame)] /\ wire'["client"] = wire["client"]
      /\ wire'[Peer("client")] = Tail(wire[Peer("client")])
      /\ Wired(Peer("client"), wire'[Peer("client")])
  BY <1>0, <1>1, <1>2, TookIs
<1>9. /\ h' = [h EXCEPT !["client"] = t] /\ foreign' = foreign /\ early' = early
      /\ sends' \in [End -> Nat]
  BY <1>1, <1>2 DEF Set, Fixed, TypeOK
<1>10. HeadersOnce("client") /\ HeadersOnce(Peer("client"))
  BY <1>2, SoundNow
<1>11. HeadersOnce("client")'
  <2>1. Begun("client", t) = Begun("client", s)
    BY <1>7 DEF Begun
  <2>2. OneHeader(wire'["client"]) /\ (HasHeader(wire'["client"]) => HasHeader(wire["client"]))
    BY <1>8, <1>10 DEF HeadersOnce
  <2> QED
    BY <1>2, <1>9, <1>10, <2>1, <2>2, OwnHeaders
<1>12. HeadersOnce(Peer("client"))'
  BY <1>2, <1>4, <1>8, <1>9, <1>10, PeerHeaders
<1>13. Sound("client", wire'["client"], t)
  BY <1>7, <1>8
<1> QED
  BY <1>2, <1>7, <1>8, <1>9, <1>11, <1>12, <1>13, Step

(* A server that refuses takes a frame and answers in one step.            *)
LEMMA AnswerIs ==
    ASSUME TypeOK, wire["client"] # <<>>, NEW f \in Frame,
           wire' = [wire EXCEPT !["client"] = Tail(@), !["server"] = Append(@, f)]
    PROVE  /\ wire' \in [End -> Seq(Frame)] /\ wire'["server"] = Append(wire["server"], f)
           /\ wire'[Peer("server")] = Tail(wire[Peer("server")])
           /\ Wired(Peer("server"), wire'[Peer("server")])
<1>1. /\ Tail(wire["client"]) \in Seq(Frame) /\ Append(wire["server"], f) \in Seq(Frame)
      /\ "client" \in End /\ "server" \in End
  BY DEF TypeOK, End
<1>2. Peer("server") = "client"
  BY DEF Peer
<1>3. /\ wire' \in [End -> Seq(Frame)] /\ wire'["server"] = Append(wire["server"], f)
      /\ wire'["client"] = Tail(wire["client"])
  BY <1>1 DEF TypeOK
<1> QED
  BY <1>2, <1>3 DEF Wired

LEMMA RefuseInv ==
    ASSUME TypeOK, Inv, RefuseRequest \/ RecvDataRejected
    PROVE  TypeOK' /\ Inv'
<1> DEFINE s == h["server"]
           f == Headers("refused", TRUE)
           w == wire["server"]
<1>0. "server" \in End /\ Peer("server") = "client"
  BY DEF End, Peer
<1>1. PICK types : Reads("server", types)
  BY DEF RefuseRequest, RecvDataRejected
<1>2. /\ "server" \in End \ foreign /\ wire["client"] # <<>>
      /\ Next1("server").t \in types /\ sends' = sends /\ Fixed
      /\ s \in Record /\ Sound("server", w, s) /\ w \in Seq(Frame)
  BY <1>0, <1>1, ReadsIs
<1>3. f \in Frame /\ f.c = <<>>
  BY HeadersType
<1>4. wire' = [wire EXCEPT !["client"] = Tail(@), !["server"] = Append(@, f)]
  BY DEF RefuseRequest, RecvDataRejected
<1>5. PICK r \in Record :
         /\ Sound("server", w, r) /\ r.opened /\ s.response = "none"
         /\ Set("server", ended("server", refuse(r, TRUE)))
         /\ \/ r.opened = s.opened
            \/ Header(Head(wire[Peer("server")]))
  <2>1. CASE RefuseRequest
    <3> DEFINE r == [s EXCEPT !.opened = TRUE]
    <3>1. Header(Next1("server"))
      BY <1>0, <2>1, ReadsIs DEF RefuseRequest, Header
    <3>2. ~s.opened /\ Header(Head(wire[Peer("server")]))
      BY <1>0, <1>2, <3>1, HeadersRead DEF Meets
    <3>3. r \in Record /\ Sound("server", w, r) /\ r.opened /\ r.response = "none"
      BY <1>2, <3>2, OpenedSound
    <3>4. r.response = s.response
      BY <1>2 DEF Record
    <3>5. Set("server", ended("server", refuse(r, TRUE)))
      BY <2>1 DEF RefuseRequest
    <3> HIDE DEF r
    <3> QED
      BY <3>2, <3>3, <3>4, <3>5
  <2>2. CASE RecvDataRejected
    <3>1. s.entry /\ ~s.is_terminated /\ ~s.is_established
      BY <2>2 DEF RecvDataRejected
    <3>2. s.response = "none" /\ s.opened
      BY <1>2, <3>1 DEF Sound, Told, Answered, Fresh
    <3>3. Set("server", ended("server", refuse(s, TRUE)))
      BY <2>2 DEF RecvDataRejected
    <3> QED
      BY <1>2, <3>2, <3>3
  <2> QED
    BY <2>1, <2>2
<1> DEFINE u == refuse(r, TRUE)
           t == ended("server", u)
<1>6. /\ u \in Record /\ Sound("server", w, u) /\ u.opened /\ u.response = "refused"
  BY <1>5, RefuseSound
<1> HIDE DEF u
<1>7. Keeps("server", w, u, t)
  BY <1>0, <1>6, KeepsEnded
<1>a. Set("server", t)
  BY <1>5 DEF u
<1> HIDE DEF t, f
<1>8. t \in Record /\ Sound("server", w, t) /\ t.opened /\ t.response = "refused"
  BY <1>6, <1>7 DEF Keeps
<1>9. /\ wire' \in [End -> Seq(Frame)] /\ wire'["server"] = Append(w, f)
      /\ wire'[Peer("server")] = Tail(wire[Peer("server")])
      /\ Wired(Peer("server"), wire'[Peer("server")])
  BY <1>2, <1>3, <1>4, AnswerIs
<1>10. Sound("server", wire'["server"], t)
  BY <1>0, <1>2, <1>3, <1>8, <1>9, SoundFrame
<1>11. ~HasHeader(w) => OneHeader(wire'["server"])
  BY <1>2, <1>3, <1>9, HeaderAppend
<1>12. ~Begun("server", s) /\ Begun("server", t)
  BY <1>5, <1>8 DEF Begun
<1>13. \/ Meets("server", t) = Meets("server", s)
       \/ /\ wire[Peer("server")] # <<>> /\ Header(Head(wire[Peer("server")]))
          /\ wire'[Peer("server")] = Tail(wire[Peer("server")])
  <2>1. CASE r.opened = s.opened
    BY <1>5, <1>8, <2>1 DEF Meets
  <2>2. CASE Header(Head(wire[Peer("server")]))
    BY <1>0, <1>2, <1>9, <2>2
  <2> QED
    BY <1>5, <2>1, <2>2
<1> QED
  BY <1>2, <1>a, <1>8, <1>9, <1>10, <1>11, <1>12, <1>13, StepHeaders

LEMMA RecvRefusedInv ==
    ASSUME TypeOK, Inv, RecvRefused
    PROVE  TypeOK' /\ Inv'
<1> DEFINE s == h["client"]
           w == wire["client"]
           r == [push_over(s) EXCEPT !.entry = FALSE, !.is_established = FALSE,
                                     !.is_terminated = FALSE]
           t == IF s.entry THEN r ELSE s
<1>0. "client" \in End
  BY DEF End
<1>1. Reads("client", {"refused"}) /\ Took("client") /\ Set("client", ended("client", t))
  BY DEF RecvRefused
<1>2. /\ "client" \in End \ foreign /\ wire[Peer("client")] # <<>> /\ sends' = sends /\ Fixed
      /\ s \in Record /\ Sound("client", w, s)
  BY <1>0, <1>1, ReadsIs
<1>3. s.entry => Keeps("client", w, s, r)
  BY <1>0, <1>2, RefusedKeeps
<1> HIDE DEF r
<1>4. Keeps("client", w, s, t)
  BY <1>2, <1>3 DEF Keeps
<1> HIDE DEF t
<1>5. Keeps("client", w, t, ended("client", t))
  BY <1>0, <1>4, KeepsEnded DEF Keeps
<1>6. Keeps("client", w, s, ended("client", t))
  BY <1>4, <1>5, KeepsTrans
<1> QED
  BY <1>1, <1>2, <1>6, StepTook

LEMMA RecvDroppedInv ==
    ASSUME TypeOK, Inv, NEW e \in End, RecvDataDropped(e)
    PROVE  TypeOK' /\ Inv'
<1>1. Reads(e, {"data"}) /\ Took(e) /\ Set(e, ended(e, h[e]))
  BY DEF RecvDataDropped
<1>2. /\ e \in End \ foreign /\ wire[Peer(e)] # <<>> /\ sends' = sends /\ Fixed
      /\ h[e] \in Record /\ Sound(e, wire[e], h[e])
  BY <1>1, ReadsIs
<1>3. Keeps(e, wire[e], h[e], ended(e, h[e]))
  BY <1>2, KeepsEnded
<1> QED
  BY <1>1, <1>2, <1>3, StepTook

LEMMA CapsulesRead ==
    ASSUME NEW s \in Record, NEW f \in Frame
    PROVE  s.capsule_buffer \o f.c \in Seq(Capsule)
<1>1. s.capsule_buffer \in Seq(Capsule) /\ f.c \in Seq(Capsule)
  BY RecordFields DEF Frame
<1> QED
  BY <1>1, Concat

LEMMA RecvPendingInv ==
    ASSUME TypeOK, Inv, RecvDataPending
    PROVE  TypeOK' /\ Inv'
<1> DEFINE s == h["server"]
           w == wire["server"]
           b == s.capsule_buffer \o Next1("server").c
           t == [s EXCEPT !.capsule_buffer = b]
<1>0. "server" \in End
  BY DEF End
<1>1. Reads("server", {"data"}) /\ Took("server") /\ Set("server", ended("server", t))
  BY DEF RecvDataPending
<1>2. /\ "server" \in End \ foreign /\ wire[Peer("server")] # <<>> /\ sends' = sends /\ Fixed
      /\ s \in Record /\ Sound("server", w, s) /\ Next1("server") \in Frame
  BY <1>0, <1>1, ReadsIs
<1>3. b \in Seq(Capsule)
  BY <1>2, CapsulesRead
<1> HIDE DEF b
<1>4. Same(s, t)
  BY <1>2, <1>3, KeptSame
<1> HIDE DEF t
<1>5. Keeps("server", w, s, t)
  BY <1>0, <1>2, <1>4, KeepsSame
<1>6. Keeps("server", w, t, ended("server", t))
  BY <1>0, <1>5, KeepsEnded DEF Keeps
<1>7. Keeps("server", w, s, ended("server", t))
  BY <1>5, <1>6, KeepsTrans
<1> QED
  BY <1>1, <1>2, <1>7, StepTook

LEMMA RecvDataInv ==
    ASSUME TypeOK, Inv, NEW e \in End, RecvData(e)
    PROVE  TypeOK' /\ Inv'
<1> DEFINE s == h[e]
           b == s.capsule_buffer \o Next1(e).c
           x == IF Next1(e).fin THEN "data_fin" ELSE "data"
           t == [s EXCEPT !.capsule_buffer = b, !.running = x]
<1>1. Reads(e, {"data"}) /\ Took(e) /\ Set(e, t) /\ s.is_established
  BY DEF RecvData
<1>2. /\ e \in End \ foreign /\ wire[Peer(e)] # <<>> /\ sends' = sends /\ Fixed
      /\ s \in Record /\ Sound(e, wire[e], s) /\ Next1(e) \in Frame
  BY <1>1, ReadsIs
<1>3. b \in Seq(Capsule)
  BY <1>2, CapsulesRead
<1>4. x \in Running /\ x # "accept"
  BY DEF Running
<1> HIDE DEF b, x
<1>5. Same(s, t)
  BY <1>1, <1>2, <1>3, <1>4, BufferSame
<1> HIDE DEF t
<1>6. Keeps(e, wire[e], s, t)
  BY <1>2, <1>5, KeepsSame
<1> QED
  BY <1>1, <1>2, <1>6, StepTook

LEMMA RecvRstInv ==
    ASSUME TypeOK, Inv, NEW e \in End, RecvRst(e)
    PROVE  TypeOK' /\ Inv'
<1>1. Reads(e, {"rst"}) /\ Took(e) /\ Set(e, stream_close(h[e]))
  BY DEF RecvRst
<1>2. /\ e \in End \ foreign /\ wire[Peer(e)] # <<>> /\ sends' = sends /\ Fixed
      /\ h[e] \in Record /\ Sound(e, wire[e], h[e])
  BY <1>1, ReadsIs
<1>3. Drops(h[e], stream_close(h[e]))
  BY <1>2, SoundOnce, StreamCloseDrops
<1>4. Keeps(e, wire[e], h[e], stream_close(h[e]))
  BY <1>2, <1>3, KeepsDrops
<1> QED
  BY <1>1, <1>2, <1>4, StepTook

LEMMA DropFrameInv ==
    ASSUME TypeOK, Inv, NEW e \in End, DropFrame(e)
    PROVE  TypeOK' /\ Inv'
<1>1. /\ e \in End \ foreign /\ wire[Peer(e)] # <<>> /\ Took(e) /\ sends' = sends /\ Fixed
      /\ h' = h
  BY DEF DropFrame, Ours
<1>2. h[e] \in Record /\ Sound(e, wire[e], h[e])
  BY <1>1, SoundNow
<1>3. Set(e, h[e])
  BY <1>1 DEF Set, TypeOK
<1>4. Keeps(e, wire[e], h[e], h[e])
  BY <1>2 DEF Keeps
<1> QED
  BY <1>1, <1>3, <1>4, StepTook

-----------------------------------------------------------------------------
(* process_capsules.                                                       *)
LEMMA LoopIsOurs ==
    ASSUME TypeOK, Inv, NEW e \in End, h[e].running # "no"
    PROVE  /\ e \in End \ foreign /\ h[e] \in Record /\ Sound(e, wire[e], h[e])
<1>1. e \notin foreign
  BY DEF Inv
<1> QED
  BY <1>1, SoundNow

LEMMA ProcessCapsuleInv ==
    ASSUME TypeOK, Inv, NEW e \in End, ProcessCapsule(e)
    PROVE  TypeOK' /\ Inv'
<1> DEFINE s == h[e]
           b == Tail(s.capsule_buffer)
           c == Head(s.capsule_buffer)
           t == [s EXCEPT !.capsule_buffer = b]
<1>1. /\ s.running # "no" /\ s.entry /\ ~s.is_terminated /\ s.capsule_buffer # <<>>
      /\ Set(e, process_capsule(t, c)) /\ wire' = wire /\ sends' \in [End -> Nat] /\ Fixed
  BY DEF ProcessCapsule, LoopGoesOn, TypeOK
<1>2. e \in End \ foreign /\ s \in Record /\ Sound(e, wire[e], s)
  BY <1>1, LoopIsOurs
<1>3. b \in Seq(Capsule) /\ c \in Capsule
  <2>1. s.capsule_buffer \in Seq(Capsule)
    BY <1>2, RecordFields
  <2> QED
    BY <1>1, <2>1
<1> HIDE DEF b, c
<1>4. Same(s, t) /\ t.running = s.running
  BY <1>2, <1>3, KeptSame DEF Record
<1> HIDE DEF t
<1>5. Keeps(e, wire[e], s, t)
  BY <1>2, <1>4, KeepsSame
<1>6. t \in Record /\ Sound(e, wire[e], t) /\ t.entry /\ ~t.is_terminated /\ t.running # "no"
  BY <1>1, <1>4, <1>5 DEF Keeps, Same
<1>7. Keeps(e, wire[e], t, process_capsule(t, c))
  BY <1>2, <1>3, <1>6, KeepsCapsule
<1>8. Keeps(e, wire[e], s, process_capsule(t, c))
  BY <1>5, <1>7, KeepsTrans
<1> QED
  BY <1>1, <1>2, <1>8, StepStill

LEMMA LoopEndsInv ==
    ASSUME TypeOK, Inv, NEW e \in End, LoopEnds(e)
    PROVE  TypeOK' /\ Inv'
<1> DEFINE s == h[e]
           w == wire[e]
           t == [s EXCEPT !.running = "no",
                          !.capsule_buffer = IF s.is_terminated THEN <<>> ELSE @]
           u == CASE s.running = "data" -> t
                  [] s.running = "data_fin" -> remote_end_stream(e, t)
                  [] s.running = "accept" ->
                       IF ~s.entry \/ s.is_terminated THEN t
                       ELSE IF s.pre_accept_end_stream
                            THEN terminate_pre_accept_end_stream_session(t)
                       ELSE send_initial_limits(t)
<1>1. /\ s.running # "no" /\ Set(e, u) /\ wire' = wire /\ sends' \in [End -> Nat] /\ Fixed
  BY DEF LoopEnds, TypeOK
<1>2. e \in End \ foreign /\ s \in Record /\ Sound(e, w, s)
  BY <1>1, LoopIsOurs
<1>3. /\ Keeps(e, w, s, t)
      /\ Keeps(e, w, s, remote_end_stream(e, t))
      /\ s.running = "accept" /\ s.entry /\ ~s.is_terminated =>
            /\ Keeps(e, w, s, terminate_pre_accept_end_stream_session(t))
            /\ Keeps(e, w, s, send_initial_limits(t))
  BY <1>1, <1>2, KeepsLoopEnds
<1> HIDE DEF t
<1>4. s.running \in {"data", "data_fin", "accept"}
  BY <1>1, <1>2, RecordFields DEF Running
<1>5. Keeps(e, w, s, u)
  <2>1. CASE s.running = "data"
    BY <1>3, <2>1
  <2>2. CASE s.running = "data_fin"
    BY <1>3, <2>2
  <2>3. CASE s.running = "accept"
    BY <1>3, <2>3
  <2> QED
    BY <1>4, <2>1, <2>2, <2>3
<1> HIDE DEF u
<1> QED
  BY <1>1, <1>2, <1>5, StepStill

-----------------------------------------------------------------------------
(* A foreign end.                                                          *)
LEMMA StepForeign ==
    ASSUME TypeOK, Inv, NEW e \in End, e \in foreign, NEW t \in Record, Set(e, t),
           t.running = h[e].running,
           wire' \in [End -> Seq(Frame)], sends' \in [End -> Nat], Fixed,
           Wired(Peer(e), wire'[Peer(e)]),
           \/ t.response = h[e].response /\ wire'[e] = wire[e]
           \/ /\ h[e].response # "none" /\ t.response # "none"
              /\ OneHeader(wire[e]) => OneHeader(wire'[e])
              /\ HasHeader(wire'[e]) => HasHeader(wire[e])
           \/ /\ h[e].response = "none" /\ t.response # "none"
              /\ ~HasHeader(wire[e]) => OneHeader(wire'[e])
    PROVE  TypeOK' /\ Inv'
<1> DEFINE p == Peer(e)
<1>0. p \in End /\ p # e /\ Peer(p) = e /\ (\A d \in End : d = e \/ d = p)
      /\ foreign' = foreign /\ early' = early /\ wire[p] \in Seq(Frame)
  BY PeerIs DEF Fixed, TypeOK
<1>1. h'[e] = t /\ h'[p] = h[p]
  BY <1>0 DEF TypeOK, Set
<1>2. TypeOK'
  BY DEF TypeOK, Set, Fixed
<1>3. HeadersOnce(e)'
  <2>1. (Began(e) <=> h[e].response # "none") /\ (Began(e)' <=> t.response # "none")
    BY <1>0, <1>1 DEF Began
  <2>2. Met(p)' = Met(p)
    BY <1>0, <1>1 DEF Met
  <2>3. HeadersOnce(e)
    BY DEF Inv
  <2> QED
    BY <1>0, <2>1, <2>2, <2>3 DEF HeadersOnce
<1> HIDE DEF p
<1>4. HeadersOnce(p)'
  <2>1. Began(p)' = Began(p)
    BY <1>0, <1>1 DEF Began
  <2>2. HeadersOnce(p)
    BY <1>0 DEF Inv
  <2>3. /\ HasHeader(wire'[p]) => HasHeader(wire[p])
        /\ OneHeader(wire[p]) => OneHeader(wire'[p])
    BY <1>0, HeaderTail DEF Wired, p
  <2> QED
    BY <1>0, <2>1, <2>2, <2>3 DEF HeadersOnce
<1>5. p \notin foreign => Sound(p, wire'[p], h'[p])
  <2>1. p \notin foreign => Sound(p, wire[p], h[p])
    BY <1>0 DEF Inv, Sound
  <2> QED
    BY <1>0, <1>1, <2>1, SoundTail DEF Wired, p
<1>6. ASSUME NEW d \in End \ foreign
      PROVE  Told(d, h[d])' /\ (~early => Closes(wire[d], h[d]))'
  <2>0. d = p
    BY <1>0
  <2>1. Told(d, h'[d]) /\ (~early => Closes(wire'[d], h'[d]))
    BY <1>5, <2>0 DEF Sound
  <2>2. Told(d, h[d])'
    BY <1>0, <2>1 DEF Told, Once, Fresh, Answered, Waits
  <2>3. (~early => Closes(wire[d], h[d]))'
    BY <1>0, <2>1 DEF Closes, CloseLast, NoClose, IsClose
  <2> QED
    BY <2>2, <2>3
<1>7. \A d \in End \cap foreign : h'[d].running = "no"
  BY <1>0, <1>1 DEF Inv
<1>8. \A d \in End : HeadersOnce(d)'
  BY <1>0, <1>3, <1>4
<1>9. Inv'
  BY <1>0, <1>6, <1>7, <1>8 DEF Inv
<1> QED
  BY <1>2, <1>9

LEMMA ForeignType ==
    ASSUME NEW B, NEW r \in RecordOf(B), NEW g \in B, NEW b \in B,
           NEW x \in {"none", "ok", "refused"}
    PROVE  [r EXCEPT !.response = x, !.opened = g, !.sent_end = b] \in RecordOf(B)
  BY Zenon DEF RecordOf

LEMMA ForeignCapsuleIs ==
    ASSUME NEW c \in ForeignCapsules
    PROVE  c \in Capsule
<1>1. CASE c \in {Plain(k) : k \in Kind \ {"MAX"}}
  BY <1>1, LimitPlain
<1>2. CASE c \in {Limit(v) : v \in {0, InitialLimit + 1}}
  <2>1. PICK v \in {0, InitialLimit + 1} : c = Limit(v)
    BY <1>2
  <2>2. v \in Nat
    BY LifecycleAssumption
  <2> QED
    BY <2>1, <2>2 DEF Limit, Capsule, Kind
<1> QED
  BY <1>1, <1>2 DEF ForeignCapsules

LEMMA WidenFrame ==
    ASSUME NEW B, NEW T, NEW C, T \subseteq FrameKind, C \subseteq Seq(Capsule),
           NEW f \in [t : T, c : C, fin : B]
    PROVE  f \in [t : FrameKind, c : Seq(Capsule), fin : B] /\ f.t \in T
<1>1. f = [t |-> f.t, c |-> f.c, fin |-> f.fin] /\ f.t \in T /\ f.c \in C /\ f.fin \in B
  OBVIOUS
<1>2. f.t \in FrameKind /\ f.c \in Seq(Capsule)
  BY <1>1
<1>3. [t |-> f.t, c |-> f.c, fin |-> f.fin] \in [t : FrameKind, c : Seq(Capsule), fin : B]
  BY <1>1, <1>2, FrameTypeOf
<1> QED
  BY <1>1, <1>3

LEMMA ForeignFrameIs ==
    ASSUME NEW f \in ForeignFrames
    PROVE  f \in Frame /\ ~Header(f)
<1>1. CASE f \in CapsuleFrames
  <2> DEFINE C == {<<c>> : c \in ForeignCapsules}
  <2>1. C \subseteq Seq(Capsule)
    <3>1. \A c \in ForeignCapsules : c \in Capsule
      BY ForeignCapsuleIs
    <3>2. ASSUME NEW c \in Capsule PROVE <<c>> \in Seq(Capsule)
      OBVIOUS
    <3> QED
      BY <3>1, <3>2
  <2>2. {"data"} \subseteq FrameKind
    BY DEF FrameKind
  <2>3. f \in [t : {"data"}, c : C, fin : BOOLEAN]
    BY <1>1 DEF CapsuleFrames
  <2> HIDE DEF C
  <2>4. f \in [t : FrameKind, c : Seq(Capsule), fin : BOOLEAN] /\ f.t \in {"data"}
    BY <2>1, <2>2, <2>3, WidenFrame, Zenon
  <2>5. f.t = "data"
    BY <2>4
  <2> QED
    BY <2>4, <2>5 DEF Frame, Header
<1>2. CASE f = Data(<<Limit(0), Plain("STREAM")>>, FALSE)
  <2>1. Limit(0) \in Capsule /\ Plain("STREAM") \in Capsule
    BY DEF Limit, Plain, Capsule, Kind
  <2>2. <<Limit(0), Plain("STREAM")>> \in Seq(Capsule)
    BY <2>1
  <2> QED
    BY <1>2, <2>2, DataType DEF Header
<1>3. CASE f = Data(<<>>, TRUE)
  <2>1. <<>> \in Seq(Capsule)
    OBVIOUS
  <2> QED
    BY <1>3, <2>1, DataType DEF Header
<1>4. CASE f = Rst
  BY <1>4, RstType DEF Header
<1> QED
  BY <1>1, <1>2, <1>3, <1>4, Zenon DEF ForeignFrames

LEMMA ForeignWritesInv ==
    ASSUME TypeOK, Inv, NEW e \in End, NEW f \in Frame, ForeignWrites(e, f)
    PROVE  TypeOK' /\ Inv'
<1> DEFINE s == h[e]
           b == f.fin \/ f.t = "rst"
           t == [s EXCEPT !.response = "ok", !.opened = TRUE, !.sent_end = b]
<1>1. e \in foreign /\ Queue(e, <<f>>) /\ Set(e, t) /\ Fixed
  BY DEF ForeignWrites
<1>2. sends' \in [End -> Nat]
  BY DEF ForeignWrites, TypeOK
<1>3. s \in Record /\ wire[e] \in Seq(Frame)
  BY DEF TypeOK
<1>4. t \in Record
  <2>1. b \in BOOLEAN /\ "ok" \in {"none", "ok", "refused"}
    BY DEF Frame
  <2> HIDE DEF b
  <2> QED
    BY <1>3, <2>1, RecordIs, ForeignType, Zenon
<1>5. t.running = s.running /\ t.response = "ok"
  BY <1>3 DEF Record
<1> HIDE DEF t
<1>6. /\ wire' \in [End -> Seq(Frame)] /\ wire'[e] = Append(wire[e], f)
      /\ Wired(Peer(e), wire'[Peer(e)])
  BY <1>1, QueueIs
<1>7. CASE s.response = "none"
  <2>1. ~HasHeader(wire[e]) => OneHeader(wire'[e])
    BY <1>3, <1>6, HeaderAppend
  <2> QED
    BY <1>1, <1>2, <1>4, <1>5, <1>6, <1>7, <2>1, StepForeign
<1>8. CASE s.response # "none"
  <2>1. f \in ForeignFrames
    BY <1>8 DEF ForeignWrites
  <2>2. /\ OneHeader(wire[e]) => OneHeader(wire'[e])
        /\ HasHeader(wire'[e]) => HasHeader(wire[e])
    BY <1>3, <1>6, <2>1, ForeignFrameIs, HeaderAppend
  <2> QED
    BY <1>1, <1>2, <1>4, <1>5, <1>6, <1>8, <2>2, StepForeign
<1> QED
  BY <1>7, <1>8

LEMMA ForeignReadsInv ==
    ASSUME TypeOK, Inv, NEW e \in End, ForeignReads(e)
    PROVE  TypeOK' /\ Inv'
<1> DEFINE s == h[e]
           t == [s EXCEPT !.opened = TRUE]
<1>1. /\ e \in foreign /\ wire[Peer(e)] # <<>> /\ Took(e) /\ Set(e, t) /\ Fixed
      /\ sends' \in [End -> Nat]
  BY DEF ForeignReads, TypeOK
<1>2. s \in Record
  BY DEF TypeOK
<1>3. t \in Record
  BY <1>2, RecordIs, OpenedType, Zenon
<1>4. t.running = s.running /\ t.response = s.response
  BY <1>2 DEF Record
<1> HIDE DEF t
<1>5. /\ wire' \in [End -> Seq(Frame)] /\ wire'[e] = wire[e]
      /\ Wired(Peer(e), wire'[Peer(e)])
  BY <1>1, TookIs
<1> QED
  BY <1>1, <1>3, <1>4, <1>5, StepForeign

LEMMA ForeignStepInv ==
    ASSUME TypeOK, Inv, NEW e \in End, ForeignStep(e)
    PROVE  TypeOK' /\ Inv'
<1>1. CASE \E fin \in BOOLEAN, k \in {"request", "ok", "refused"} :
              ForeignWrites(e, Headers(k, fin))
  BY <1>1, HeadersType, ForeignWritesInv
<1>2. CASE \E f \in ForeignFrames : ForeignWrites(e, f)
  BY <1>2, ForeignFrameIs, ForeignWritesInv
<1> QED
  BY <1>1, <1>2, ForeignReadsInv DEF ForeignStep

-----------------------------------------------------------------------------
(* The invariant holds at the start, and every step keeps it.              *)
LEMMA BlankType ==
    ASSUME NEW B, NEW f \in B, NEW nil \in Seq(Capsule), NEW no \in Running,
           NEW none \in {"none", "ok", "refused"}, NEW why \in Reason,
           NEW n \in Nat, NEW z \in Nat
    PROVE  [entry |-> f, is_established |-> f, is_terminated |-> f,
            pre_accept_end_stream |-> f, capsule_buffer |-> nil, running |-> no,
            out |-> nil, end_stream_pending |-> f, rst_pending |-> f,
            response |-> none, reader |-> f,
            opened |-> f, sent_end |-> f, got_end |-> f, closed |-> f,
            advertised |-> n, received_max |-> z, reason |-> why,
            settings |-> f, goaway_received |-> f,
            ready |-> z, over |-> z, late |-> f] \in RecordOf(B)
  BY ZenonT(30) DEF RecordOf

LEMMA InitInv ==
    ASSUME Init
    PROVE  TypeOK /\ Inv
<1>1. Blank \in Record
  <2>1. /\ "no" \in Running /\ "none" \in {"none", "ok", "refused"} /\ "none" \in Reason
        /\ InitialLimit \in Nat /\ 0 \in Nat
    BY LifecycleAssumption DEF Running, Reason
  <2> QED
    BY <2>1, RecordIs, BlankType, Zenon DEF Blank
<1>2. TypeOK
  BY <1>1 DEF Init, TypeOK
<1>3. /\ ~Blank.entry /\ ~Blank.is_established /\ ~Blank.is_terminated /\ ~Blank.opened
      /\ Blank.out = <<>> /\ Blank.running = "no" /\ Blank.response = "none"
      /\ Blank.ready = 0 /\ Blank.over = 0 /\ ~Blank.late
  BY DEF Blank
<1>4. \A e \in End : h[e] = Blank /\ wire[e] = <<>>
  BY DEF Init
<1>5. \A e \in End : HeadersOnce(e)
  <2> SUFFICES ASSUME NEW e \in End PROVE HeadersOnce(e)
    OBVIOUS
  <2>1. OneHeader(wire[e]) /\ ~HasHeader(wire[e])
    BY <1>4 DEF OneHeader, HasHeader
  <2>2. ~Met(Peer(e))
    BY <1>3, <1>4, PeerIs DEF Met
  <2> QED
    BY <2>1, <2>2 DEF HeadersOnce
<1>6. \A e \in End : Told(e, h[e])
  BY <1>3, <1>4 DEF Told, Once, Fresh, Answered, Waits
<1>7. \A e \in End : Closes(wire[e], h[e])
  BY <1>3, <1>4 DEF Closes, CloseLast, NoClose
<1> QED
  BY <1>2, <1>3, <1>4, <1>5, <1>6, <1>7 DEF Inv

LEMMA StutterInv ==
    ASSUME TypeOK, Inv, UNCHANGED vars
    PROVE  TypeOK' /\ Inv'
<1>1. TypeOK'
  BY DEF TypeOK, vars
<1>2. \A e \in End : HeadersOnce(e)'
  BY DEF Inv, vars, HeadersOnce, Began, Met
<1>3. \A e \in End \ foreign : Told(e, h[e])'
  BY DEF Inv, vars, Told, Once, Fresh, Answered, Waits
<1>4. \A e \in End \ foreign : (~early => Closes(wire[e], h[e]))'
  BY DEF Inv, vars, Closes, CloseLast, NoClose, IsClose
<1>5. \A e \in End \cap foreign : h'[e].running = "no"
  BY DEF Inv, vars
<1> QED
  BY <1>1, <1>2, <1>3, <1>4, <1>5 DEF Inv, vars

LEMMA NextInv ==
    ASSUME TypeOK, Inv, Next
    PROVE  TypeOK' /\ Inv'
<1>1. CASE RecvSettings \/ RecvGoaway
  BY <1>1, SettingsInv
<1>2. CASE Connect
  BY <1>2, ConnectInv
<1>3. CASE AcceptSession
  BY <1>3, AcceptInv
<1>4. CASE \E erase \in BOOLEAN : RejectSession(erase)
  BY <1>4, RejectInv
<1>5. ASSUME NEW e \in End, \/ SendDatagram(e) \/ DrainSession(e) \/ SendStreamData(e)
                            \/ CloseSession(e)
      PROVE  TypeOK' /\ Inv'
  BY <1>5, SendsInv, CloseSessionInv
<1>6. ASSUME NEW e \in End, Writes(e) PROVE TypeOK' /\ Inv'
  BY <1>6, WriteInv, WriteRstInv DEF Writes
<1>7. ASSUME NEW e \in End, Receives(e) PROVE TypeOK' /\ Inv'
  <2>1. CASE RecvRequest
    BY <2>1, RecvRequestInv
  <2>2. CASE RefuseRequest \/ RecvDataRejected
    BY <2>2, RefuseInv
  <2>3. CASE RecvOk
    BY <2>3, RecvOkInv
  <2>4. CASE RecvRefused
    BY <2>4, RecvRefusedInv
  <2>5. CASE RecvDataDropped(e)
    BY <2>5, RecvDroppedInv
  <2>6. CASE RecvData(e)
    BY <2>6, RecvDataInv
  <2>7. CASE RecvDataPending
    BY <2>7, RecvPendingInv
  <2>8. CASE RecvRst(e)
    BY <2>8, RecvRstInv
  <2>9. CASE DropFrame(e)
    BY <2>9, DropFrameInv
  <2> QED
    BY <1>7, <2>1, <2>2, <2>3, <2>4, <2>5, <2>6, <2>7, <2>8, <2>9 DEF Receives
<1>8. ASSUME NEW e \in End, Loops(e) PROVE TypeOK' /\ Inv'
  BY <1>8, ProcessCapsuleInv, LoopEndsInv DEF Loops
<1>9. ASSUME NEW e \in End, ForeignStep(e) PROVE TypeOK' /\ Inv'
  BY <1>9, ForeignStepInv
<1> QED
  BY <1>1, <1>2, <1>3, <1>4, <1>5, <1>6, <1>7, <1>8, <1>9 DEF Next

(* The invariant: what each end has been told of its session, which        *)
(* HEADERS are still to be read, and where WT_CLOSE_SESSION can be.        *)
THEOREM Invariance == Spec => [](TypeOK /\ Inv)
<1>1. Init => TypeOK /\ Inv
  BY InitInv
<1>2. TypeOK /\ Inv /\ [Next]_vars => (TypeOK /\ Inv)'
  BY NextInv, StutterInv
<1> QED
  BY <1>1, <1>2, PTL DEF Spec

(* Every session record, frame and counter keeps its type, whatever frames *)
(* a foreign end sends.                                                    *)
THEOREM TypeCorrect == Spec => []TypeOK
  BY Invariance, PTL

(* For any limits and any number of capsules, whichever end is foreign and *)
(* even if close_session comes early: SessionReady at most once, the end   *)
(* of the session at most once, and no event after it.                     *)
THEOREM AlwaysOverOnce == Spec => []OverOnce
<1>1. Inv => OverOnce
  BY DEF Inv, Told, Once, OverOnce
<1> QED
  BY <1>1, Invariance, PTL

(* WT_CLOSE_SESSION is the last capsule an end sends, if its application   *)
(* waits for SessionReady.                                                 *)
THEOREM AlwaysCloseIsLast == Spec => []CloseIsLast
<1>1. TypeOK /\ Inv => CloseIsLast
  <2> SUFFICES ASSUME TypeOK, Inv, ~early, NEW e \in End \ foreign
               PROVE  LET q == Sent(e)
                      IN  \A i \in 1 .. Len(q) :
                             (q[i] # <<>> /\ q[i][1].k = "CLOSE") =>
                                 \A j \in i + 1 .. Len(q) : q[j] = <<>>
    BY DEF CloseIsLast
  <2> DEFINE n == Len(wire[e])
             m == Len(h[e].out)
             q == Sent(e)
  <2>1. /\ wire[e] \in Seq(Frame) /\ h[e].out \in Seq(Capsule) /\ n \in Nat /\ m \in Nat
        /\ DOMAIN wire[e] = 1 .. n /\ DOMAIN h[e].out = 1 .. m
    BY RecordFields DEF TypeOK
  <2>2. /\ Len(q) = n + m
        /\ \A i \in 1 .. n : q[i] = wire[e][i].c
        /\ \A i \in 1 .. m : q[n + i] = <<h[e].out[i]>>
    <3> DEFINE a == [i \in 1 .. n |-> wire[e][i].c]
               b == [i \in 1 .. m |-> <<h[e].out[i]>>]
    <3>1. a \in Seq(Seq(Capsule)) /\ Len(a) = n /\ \A i \in 1 .. n : a[i] = wire[e][i].c
      <4>1. \A i \in 1 .. n : wire[e][i] \in Frame
        BY <2>1
      <4>2. \A i \in 1 .. n : wire[e][i].c \in Seq(Capsule)
        BY <4>1 DEF Frame
      <4>3. a \in [1 .. n -> Seq(Capsule)] /\ \A i \in 1 .. n : a[i] = wire[e][i].c
        BY <4>2
      <4> HIDE DEF a, n
      <4> QED
        BY <2>1, <4>3
    <3>2. b \in Seq(Seq(Capsule)) /\ Len(b) = m /\ \A i \in 1 .. m : b[i] = <<h[e].out[i]>>
      BY <2>1
    <3>3. q = a \o b
      BY DEF Sent
    <3> HIDE DEF a, b, q
    <3>a. a \in Seq(Seq(Capsule)) /\ b \in Seq(Seq(Capsule))
      BY <3>1, <3>2
    <3>4. /\ Len(a \o b) = Len(a) + Len(b)
          /\ \A i \in 1 .. Len(a) : (a \o b)[i] = a[i]
          /\ \A i \in 1 .. Len(b) : (a \o b)[Len(a) + i] = b[i]
      BY <3>a, Concat
    <3> HIDE DEF n, m
    <3> QED
      BY <3>1, <3>2, <3>3, <3>4
  <2>3. CloseLast(wire[e], h[e].out)
    BY DEF Inv, Closes
  <2> HIDE DEF q, n, m
  <2>4. \A i \in 1 .. (n + m) : i \in 1 .. n \/ \E k \in 1 .. m : i = n + k
    <3> SUFFICES ASSUME NEW i \in 1 .. (n + m), i \notin 1 .. n PROVE \E k \in 1 .. m : i = n + k
      OBVIOUS
    <3>1. i - n \in 1 .. m /\ i = n + (i - n)
      BY <2>1
    <3> QED
      BY <3>1
  <2>5. ASSUME NEW i \in 1 .. (n + m), q[i] # <<>>, q[i][1].k = "CLOSE",
               NEW j \in (i + 1) .. (n + m)
        PROVE  q[j] = <<>>
    <3>0. j \in 1 .. (n + m) /\ j > i
      BY <2>1
    <3>1. CASE i \in 1 .. n
      <4>1. IsClose(wire[e][i].c)
        BY <2>2, <2>5, <3>1 DEF IsClose
      <4>2. h[e].out = <<>> /\ \A k \in 1 .. n : k > i => wire[e][k].c = <<>>
        BY <2>1, <2>3, <3>1, <4>1 DEF CloseLast
      <4>3. m = 0
        BY <4>2 DEF m
      <4> QED
        BY <2>1, <2>2, <3>0, <4>2, <4>3
    <3>2. ASSUME NEW k \in 1 .. m, i = n + k PROVE FALSE
      <4>1. h[e].out[k].k = "CLOSE"
        BY <2>2, <2>5, <3>2
      <4>2. k = m
        BY <2>1, <2>3, <4>1 DEF CloseLast, m
      <4> QED
        BY <2>1, <3>0, <3>2, <4>2
    <3> QED
      BY <2>4, <3>1, <3>2
  <2> QED
    BY <2>2, <2>5 DEF q
<1> QED
  BY <1>1, Invariance, PTL

-----------------------------------------------------------------------------
(* Two ends of this code.                                                  *)
(*                                                                         *)
(* The limits that one end has queued (o), those on the wire (w) and those *)
(* the other end keeps until it accepts (b) rise from what that end knows  *)
(* to what the first has advertised.  Each of the three lies between two   *)
(* bounds, so that a step that moves a capsule from one into the next      *)
(* moves the bound between them and leaves the rest alone.                 *)

Fair(c) == c.k \notin {"BAD", "PART"}

(* The capsules of q are fair, and their limits rise within lo .. hi.      *)
Up(q, lo, hi) ==
    /\ \A i \in DOMAIN q : /\ Fair(q[i])
                           /\ q[i].k = "MAX" => lo <= q[i].v /\ q[i].v <= hi
    /\ \A i, j \in DOMAIN q : i < j /\ q[i].k = "MAX" /\ q[j].k = "MAX"
                              => q[i].v <= q[j].v

(* The same of frames, which carry at most one capsule.                    *)
IsMax(c) == c # <<>> /\ c[1].k = "MAX"
UpFrames(w, lo, hi) ==
    /\ \A i \in DOMAIN w :
          /\ Len(w[i].c) <= 1
          /\ w[i].c # <<>> => Fair(w[i].c[1])
          /\ IsMax(w[i].c) => lo <= w[i].c[1].v /\ w[i].c[1].v <= hi
    /\ \A i, j \in DOMAIN w : i < j /\ IsMax(w[i].c) /\ IsMax(w[j].c)
                              => w[i].c[1].v <= w[j].c[1].v

Taken(b, m, y) ==
    \E x \in Nat : m <= x /\ InitialLimit <= x /\ x <= y /\ Up(b, x, y)
Going(w, o, y, a) ==
    \E z \in Nat : y <= z /\ z <= a /\ UpFrames(w, y, z) /\ Up(o, z, a)

(* What is on its way to an end with the record r from one with s and w.   *)
Flight(r, w, s) ==
    \E y \in Nat : /\ Taken(r.capsule_buffer, r.received_max, y)
                   /\ Going(w, s.out, y, s.advertised)

(* Before the client knows that its session is ready it opens no stream.   *)
NoStreams(q) == \A i \in DOMAIN q : q[i].k # "STREAM"
NoStream(w, o) == /\ \A i \in DOMAIN w : w[i].c # <<>> => w[i].c[1].k # "STREAM"
                  /\ NoStreams(o)

(* Capsules are kept only by a server that has not answered, and while     *)
(* they are processed; before that the first limit is the one advertised.  *)
Orderly(e, s) ==
    /\ s.running = "no" /\ (e = "client" \/ s.response # "none")
       => s.capsule_buffer = <<>>
    /\ ~s.entry => s.capsule_buffer = <<>>
    /\ s.reason \in {"none", "app"}
    /\ e = "client" => /\ s.is_established \/ s.running # "no" => s.ready # 0
                       /\ s.ready = 0 => s.advertised = InitialLimit
    /\ e = "server" /\ (s.response = "none" \/ s.running = "accept")
       => s.advertised = InitialLimit /\ NoStreams(s.capsule_buffer)

Peaceful ==
    foreign = {} =>
       /\ \A e \in End : /\ Flight(h[e], wire[Peer(e)], h[Peer(e)])
                         /\ Orderly(e, h[e])
       /\ h["client"].ready = 0 => NoStream(wire["client"], h["client"].out)

(* One sequence at a time.                                                 *)
LEMMA UpEmpty ==
    ASSUME NEW lo, NEW hi PROVE Up(<<>>, lo, hi)
  BY DEF Up

LEMMA UpAppend ==
    ASSUME NEW q \in Seq(Capsule), NEW c \in Capsule, NEW lo \in Nat, NEW hi \in Nat,
           NEW top \in Nat, Up(q, lo, hi), hi <= top, lo <= hi, Fair(c),
           c.k = "MAX" => hi <= c.v /\ c.v <= top
    PROVE  Up(Append(q, c), lo, top)
<1> DEFINE r == Append(q, c)
<1>1. /\ DOMAIN r = 1 .. (Len(q) + 1) /\ DOMAIN q = 1 .. Len(q) /\ Len(q) \in Nat
      /\ \A i \in 1 .. Len(q) : r[i] = q[i] /\ q[i] \in Capsule
      /\ r[Len(q) + 1] = c
  OBVIOUS
<1> HIDE DEF r
<1>2. \A x \in Capsule : x.v \in Nat
  BY DEF Capsule
<1>3. ASSUME NEW i \in DOMAIN r
      PROVE  Fair(r[i]) /\ (r[i].k = "MAX" => lo <= r[i].v /\ r[i].v <= top)
  <2>1. CASE i = Len(q) + 1
    BY <1>1, <1>2, <2>1
  <2>2. CASE i # Len(q) + 1
    <3>1. i \in DOMAIN q /\ r[i] = q[i] /\ q[i] \in Capsule
      BY <1>1, <2>2
    <3> QED
      BY <1>2, <3>1 DEF Up
  <2> QED
    BY <2>1, <2>2
<1>4. ASSUME NEW i \in DOMAIN r, NEW j \in DOMAIN r, i < j, r[i].k = "MAX", r[j].k = "MAX"
      PROVE  r[i].v <= r[j].v
  <2>1. i \in DOMAIN q /\ r[i] = q[i] /\ q[i] \in Capsule
    BY <1>1, <1>4
  <2>2. CASE j = Len(q) + 1
    <3>1. q[i].v <= hi /\ hi <= c.v /\ r[j] = c
      BY <1>1, <1>4, <2>1, <2>2 DEF Up
    <3> QED
      BY <1>2, <2>1, <3>1
  <2>3. CASE j # Len(q) + 1
    <3>1. j \in DOMAIN q /\ r[j] = q[j]
      BY <1>1, <2>3
    <3> QED
      BY <1>4, <2>1, <3>1 DEF Up
  <2> QED
    BY <2>2, <2>3
<1>5. Up(r, lo, top)
  BY <1>3, <1>4 DEF Up
<1> QED
  BY <1>5 DEF r

LEMMA UpTail ==
    ASSUME NEW q \in Seq(Capsule), q # <<>>, NEW lo \in Nat, NEW hi \in Nat, Up(q, lo, hi)
    PROVE  /\ Fair(Head(q)) /\ Up(Tail(q), lo, hi)
           /\ Head(q).k = "MAX" => /\ lo <= Head(q).v /\ Head(q).v <= hi
                                   /\ Up(Tail(q), Head(q).v, hi)
<1> DEFINE r == Tail(q)
<1>1. /\ DOMAIN r = 1 .. (Len(q) - 1) /\ DOMAIN q = 1 .. Len(q) /\ Len(q) \in Nat
      /\ \A i \in 1 .. (Len(q) - 1) : r[i] = q[i + 1]
      /\ Head(q) = q[1] /\ 1 \in DOMAIN q
  OBVIOUS
<1> HIDE DEF r
<1>2. Fair(Head(q)) /\ (Head(q).k = "MAX" => lo <= Head(q).v /\ Head(q).v <= hi)
  BY <1>1 DEF Up
<1>3. ASSUME NEW i \in DOMAIN r
      PROVE  /\ Fair(r[i])
             /\ r[i].k = "MAX" => lo <= r[i].v /\ r[i].v <= hi
             /\ r[i].k = "MAX" /\ Head(q).k = "MAX" => Head(q).v <= r[i].v
  <2>1. i + 1 \in DOMAIN q /\ 1 < i + 1 /\ r[i] = q[i + 1]
    BY <1>1
  <2> QED
    BY <1>1, <2>1 DEF Up
<1>4. ASSUME NEW i \in DOMAIN r, NEW j \in DOMAIN r, i < j, r[i].k = "MAX", r[j].k = "MAX"
      PROVE  r[i].v <= r[j].v
  <2>1. /\ i + 1 \in DOMAIN q /\ j + 1 \in DOMAIN q /\ i + 1 < j + 1
        /\ r[i] = q[i + 1] /\ r[j] = q[j + 1]
    BY <1>1, <1>4
  <2> QED
    BY <1>4, <2>1 DEF Up
<1>5. Up(r, lo, hi) /\ (Head(q).k = "MAX" => Up(r, Head(q).v, hi))
  BY <1>3, <1>4 DEF Up
<1> QED
  BY <1>2, <1>5 DEF r

(* Frames.                                                                 *)
LEMMA FrameCapsule ==
    ASSUME NEW w \in Seq(Frame), NEW i \in DOMAIN w
    PROVE  /\ w[i].c \in Seq(Capsule) /\ w[i] \in Frame
           /\ w[i].c # <<>> => w[i].c[1] \in Capsule /\ w[i].c[1].v \in Nat
<1>0. w[i] \in Frame
  OBVIOUS
<1>1. w[i] \in Frame /\ w[i].c \in Seq(Capsule)
  BY <1>0 DEF Frame
<1>2. w[i].c # <<>> => w[i].c[1] \in Capsule
  BY <1>1
<1> QED
  BY <1>1, <1>2 DEF Capsule

LEMMA FramesAppend ==
    ASSUME NEW w \in Seq(Frame), NEW f \in Frame, NEW lo \in Nat, NEW hi \in Nat,
           NEW top \in Nat, UpFrames(w, lo, hi), lo <= hi, hi <= top, Len(f.c) <= 1,
           f.c # <<>> => Fair(f.c[1]),
           IsMax(f.c) => hi <= f.c[1].v /\ f.c[1].v <= top
    PROVE  UpFrames(Append(w, f), lo, top)
<1> DEFINE r == Append(w, f)
<1>1. /\ DOMAIN r = 1 .. (Len(w) + 1) /\ DOMAIN w = 1 .. Len(w) /\ Len(w) \in Nat
      /\ \A i \in 1 .. Len(w) : r[i] = w[i]
      /\ r[Len(w) + 1] = f
  OBVIOUS
<1>0. r \in Seq(Frame)
  OBVIOUS
<1> HIDE DEF r
<1>2. \A i \in DOMAIN r : r[i].c # <<>> => r[i].c[1].v \in Nat
  BY <1>0, FrameCapsule
<1>3. ASSUME NEW i \in DOMAIN r
      PROVE  /\ Len(r[i].c) <= 1 /\ (r[i].c # <<>> => Fair(r[i].c[1]))
             /\ IsMax(r[i].c) => lo <= r[i].c[1].v /\ r[i].c[1].v <= top
  <2>0. IsMax(r[i].c) => r[i].c[1].v \in Nat
    BY <1>2 DEF IsMax
  <2>1. CASE i = Len(w) + 1
    BY <1>1, <2>0, <2>1
  <2>2. CASE i # Len(w) + 1
    <3>1. i \in DOMAIN w /\ r[i] = w[i]
      BY <1>1, <2>2
    <3>2. /\ Len(w[i].c) <= 1 /\ (w[i].c # <<>> => Fair(w[i].c[1]))
          /\ IsMax(w[i].c) => lo <= w[i].c[1].v /\ w[i].c[1].v <= hi
      BY <3>1 DEF UpFrames
    <3> QED
      BY <2>0, <3>1, <3>2
  <2> QED
    BY <2>1, <2>2
<1>4. ASSUME NEW i \in DOMAIN r, NEW j \in DOMAIN r, i < j, IsMax(r[i].c), IsMax(r[j].c)
      PROVE  r[i].c[1].v <= r[j].c[1].v
  <2>0. r[i].c[1].v \in Nat /\ r[j].c[1].v \in Nat
    BY <1>2, <1>4 DEF IsMax
  <2>1. i \in DOMAIN w /\ r[i] = w[i]
    BY <1>1, <1>4
  <2>2. CASE j = Len(w) + 1
    <3>1. w[i].c[1].v <= hi
      BY <1>4, <2>1 DEF UpFrames
    <3>2. hi <= r[j].c[1].v
      BY <1>1, <1>4, <2>2
    <3> QED
      BY <2>0, <2>1, <3>1, <3>2
  <2>3. CASE j # Len(w) + 1
    <3>1. j \in DOMAIN w /\ r[j] = w[j]
      BY <1>1, <2>3
    <3> QED
      BY <1>4, <2>1, <3>1 DEF UpFrames
  <2> QED
    BY <2>2, <2>3
<1>5. UpFrames(r, lo, top)
  BY <1>3, <1>4 DEF UpFrames
<1> QED
  BY <1>5 DEF r

LEMMA FramesTail ==
    ASSUME NEW w \in Seq(Frame), w # <<>>, NEW lo \in Nat, NEW hi \in Nat,
           UpFrames(w, lo, hi)
    PROVE  LET c == Head(w).c
           IN  /\ UpFrames(Tail(w), lo, hi) /\ Len(c) <= 1
               /\ c # <<>> => Fair(c[1])
               /\ IsMax(c) => /\ lo <= c[1].v /\ c[1].v <= hi
                              /\ UpFrames(Tail(w), c[1].v, hi)
<1> DEFINE r == Tail(w)
           c == Head(w).c
<1>1. /\ DOMAIN r = 1 .. (Len(w) - 1) /\ DOMAIN w = 1 .. Len(w) /\ Len(w) \in Nat
      /\ \A i \in 1 .. (Len(w) - 1) : r[i] = w[i + 1]
      /\ c = w[1].c /\ 1 \in DOMAIN w
  OBVIOUS
<1> HIDE DEF r, c
<1>2. /\ Len(c) <= 1 /\ (c # <<>> => Fair(c[1]))
      /\ IsMax(c) => lo <= c[1].v /\ c[1].v <= hi
  BY <1>1 DEF UpFrames
<1>3. ASSUME NEW i \in DOMAIN r
      PROVE  /\ Len(r[i].c) <= 1 /\ (r[i].c # <<>> => Fair(r[i].c[1]))
             /\ IsMax(r[i].c) => lo <= r[i].c[1].v /\ r[i].c[1].v <= hi
             /\ IsMax(r[i].c) /\ IsMax(c) => c[1].v <= r[i].c[1].v
  <2>1. i + 1 \in DOMAIN w /\ 1 < i + 1 /\ r[i] = w[i + 1]
    BY <1>1
  <2> QED
    BY <1>1, <2>1 DEF UpFrames
<1>4. ASSUME NEW i \in DOMAIN r, NEW j \in DOMAIN r, i < j, IsMax(r[i].c), IsMax(r[j].c)
      PROVE  r[i].c[1].v <= r[j].c[1].v
  <2>1. /\ i + 1 \in DOMAIN w /\ j + 1 \in DOMAIN w /\ i + 1 < j + 1
        /\ r[i] = w[i + 1] /\ r[j] = w[j + 1]
    BY <1>1, <1>4
  <2> QED
    BY <1>4, <2>1 DEF UpFrames
<1>5. UpFrames(r, lo, hi) /\ (IsMax(c) => UpFrames(r, c[1].v, hi))
  BY <1>3, <1>4 DEF UpFrames
<1> QED
  BY <1>2, <1>5 DEF r, c

(* What one end does to what is on its way from it, ...                    *)
Gives(e, w, s, v, t) ==
    /\ \A y \in Nat : InitialLimit <= y /\ Going(w, s.out, y, s.advertised)
                      => Going(v, t.out, y, t.advertised)
    /\ e = "client" /\ t.ready = 0
       => s.ready = 0 /\ (NoStream(w, s.out) => NoStream(v, t.out))

(* ... and to what has come to it.                                         *)
Accepts(s, t) ==
    \A y \in Nat : Taken(s.capsule_buffer, s.received_max, y)
                   => Taken(t.capsule_buffer, t.received_max, y)

Gentle(e, w, s, v, t) == Orderly(e, t) /\ Gives(e, w, s, v, t) /\ Accepts(s, t)

LEMMA GentleTrans ==
    ASSUME NEW e, NEW w, NEW s, NEW v, NEW t, NEW x, NEW u,
           Gentle(e, w, s, v, t), Gentle(e, v, t, x, u)
    PROVE  Gentle(e, w, s, x, u)
<1>1. Gives(e, w, s, x, u)
  BY DEF Gentle, Gives
<1>2. Accepts(s, u)
  BY DEF Gentle, Accepts
<1> QED
  BY <1>1, <1>2 DEF Gentle

LEMMA GoingTail ==
    ASSUME NEW w \in Seq(Frame), w # <<>>, NEW o, NEW y \in Nat, NEW a \in Nat,
           Going(w, o, y, a)
    PROVE  Going(Tail(w), o, y, a)
<1>1. PICK z \in Nat : y <= z /\ z <= a /\ UpFrames(w, y, z) /\ Up(o, z, a)
  BY DEF Going
<1>2. UpFrames(Tail(w), y, z)
  BY <1>1, FramesTail
<1> QED
  BY <1>1, <1>2 DEF Going

LEMMA NoStreamTail ==
    ASSUME NEW w \in Seq(Frame), w # <<>>, NEW o, NoStream(w, o)
    PROVE  NoStream(Tail(w), o)
<1>1. \A i \in DOMAIN Tail(w) : i + 1 \in DOMAIN w /\ Tail(w)[i] = w[i + 1]
  OBVIOUS
<1> QED
  BY <1>1 DEF NoStream

LEMMA FlightTail ==
    ASSUME NEW r, NEW w \in Seq(Frame), w # <<>>, NEW s \in Record, Flight(r, w, s)
    PROVE  Flight(r, Tail(w), s)
<1>1. PICK y \in Nat : /\ Taken(r.capsule_buffer, r.received_max, y)
                       /\ Going(w, s.out, y, s.advertised)
  BY DEF Flight
<1>2. Going(Tail(w), s.out, y, s.advertised)
  BY <1>1, GoingTail, RecordFields
<1> QED
  BY <1>1, <1>2 DEF Flight

LEMMA FlightGiven ==
    ASSUME NEW e, NEW r \in Record, NEW w, NEW s, NEW v, NEW t, Flight(r, w, s), Gives(e, w, s, v, t)
    PROVE  Flight(r, v, t)
<1>1. PICK y \in Nat : /\ Taken(r.capsule_buffer, r.received_max, y)
                       /\ Going(w, s.out, y, s.advertised)
  BY DEF Flight
<1>2. InitialLimit <= y
  BY <1>1, LifecycleAssumption DEF Taken
<1>3. Going(v, t.out, y, t.advertised)
  BY <1>1, <1>2 DEF Gives
<1> QED
  BY <1>1, <1>3 DEF Flight

LEMMA FlightAccepted ==
    ASSUME NEW s, NEW t, NEW w, NEW r, Flight(s, w, r), Accepts(s, t)
    PROVE  Flight(t, w, r)
  BY DEF Flight, Accepts

(* The parts of Peaceful that a step of e can disturb.                     *)
LEMMA PeaceBase ==
    ASSUME TypeOK, Peaceful, foreign = {}, NEW e \in End, NEW t,
           h' = [h EXCEPT ![e] = t],
           Orderly(e, t), Gives(e, wire[e], h[e], wire'[e], t),
           Flight(t, wire'[Peer(e)], h[Peer(e)]),
           Wired(Peer(e), wire'[Peer(e)])
    PROVE  Peaceful'
<1> DEFINE p == Peer(e)
<1>0. p \in End /\ p # e /\ Peer(p) = e /\ \A d \in End : d = e \/ d = p
  BY PeerIs
<1>1. h'[e] = t /\ h'[p] = h[p] /\ h[p] \in Record /\ h[e] \in Record /\ wire[p] \in Seq(Frame)
  BY <1>0 DEF TypeOK
<1>2. Flight(h[p], wire[e], h[e]) /\ Orderly(p, h[p])
  BY <1>0 DEF Peaceful
<1>3. Flight(h'[p], wire'[e], h'[e])
  BY <1>1, <1>2, FlightGiven
<1>4. Flight(h'[e], wire'[p], h'[p])
  BY <1>1
<1> HIDE DEF p
<1>5. ASSUME NEW d \in End PROVE Flight(h'[d], wire'[Peer(d)], h'[Peer(d)]) /\ Orderly(d, h'[d])
  <2>1. CASE d = e
    BY <1>1, <1>4, <2>1 DEF p
  <2>2. CASE d = p
    BY <1>0, <1>1, <1>2, <1>3, <2>2
  <2> QED
    BY <1>0, <2>1, <2>2
<1>6. ASSUME h'["client"].ready = 0 PROVE NoStream(wire'["client"], h'["client"].out)
  <2>1. CASE e = "client"
    <3>1. t.ready = 0
      BY <1>1, <1>6, <2>1
    <3>2. h[e].ready = 0 /\ (NoStream(wire[e], h[e].out) => NoStream(wire'[e], t.out))
      BY <2>1, <3>1 DEF Gives
    <3>3. NoStream(wire[e], h[e].out)
      BY <2>1, <3>2 DEF Peaceful
    <3> QED
      BY <1>1, <2>1, <3>2, <3>3
  <2>2. CASE e = "server"
    <3>1. p = "client"
      BY <2>2 DEF Peer, p
    <3>2. NoStream(wire[p], h[p].out)
      BY <1>1, <1>6, <3>1 DEF Peaceful
    <3>3. NoStream(wire'[p], h[p].out)
      BY <1>1, <3>2, NoStreamTail DEF Wired, p
    <3> QED
      BY <1>1, <3>1, <3>3
  <2> QED
    BY <2>1, <2>2 DEF End
<1>7. ASSUME NEW d \in End
      PROVE  Flight(h[d], wire[Peer(d)], h[Peer(d)])' /\ Orderly(d, h[d])'
  <2>1. Flight(h[d], wire[Peer(d)], h[Peer(d)])'
    BY <1>5 DEF Flight, Taken, Going, Up, UpFrames, IsMax, Fair
  <2>2. Orderly(d, h[d])'
    BY <1>5 DEF Orderly, NoStreams
  <2> QED
    BY <2>1, <2>2
<1>8. (h["client"].ready = 0 => NoStream(wire["client"], h["client"].out))'
  BY <1>6 DEF NoStream, NoStreams
<1> QED
  BY <1>7, <1>8 DEF Peaceful

LEMMA PeaceStep ==
    ASSUME TypeOK, Peaceful, foreign = {}, NEW e \in End, NEW t,
           h' = [h EXCEPT ![e] = t],
           Gentle(e, wire[e], h[e], wire'[e], t), Wired(Peer(e), wire'[Peer(e)])
    PROVE  Peaceful'
<1> DEFINE p == Peer(e)
<1>0. p \in End /\ h[p] \in Record /\ wire[p] \in Seq(Frame)
  BY PeerIs DEF TypeOK
<1>1. Flight(h[e], wire[p], h[p])
  BY DEF Peaceful
<1> HIDE DEF p
<1>2. Flight(h[e], wire'[p], h[p])
  BY <1>0, <1>1, FlightTail DEF Wired, p
<1>3. Flight(t, wire'[p], h[p])
  BY <1>2, FlightAccepted DEF Gentle
<1> QED
  BY <1>3, PeaceBase DEF Gentle, p

LEMMA PeaceStill ==
    ASSUME TypeOK, Peaceful, foreign = {}, NEW e \in End, NEW t, Set(e, t), wire' = wire,
           Gentle(e, wire[e], h[e], wire[e], t)
    PROVE  Peaceful'
<1>1. h' = [h EXCEPT ![e] = t] /\ Wired(Peer(e), wire'[Peer(e)])
  BY DEF Set, Wired
<1>2. Gentle(e, wire[e], h[e], wire'[e], t)
  OBVIOUS
<1> QED
  BY <1>1, <1>2, PeaceStep

LEMMA PeaceTook ==
    ASSUME TypeOK, Peaceful, foreign = {}, NEW e \in End, NEW t, Set(e, t),
           wire[Peer(e)] # <<>>, Took(e), Gentle(e, wire[e], h[e], wire[e], t)
    PROVE  Peaceful'
<1>1. h' = [h EXCEPT ![e] = t]
  BY DEF Set
<1>2. wire'[e] = wire[e] /\ Wired(Peer(e), wire'[Peer(e)])
  BY TookIs
<1>3. Gentle(e, wire[e], h[e], wire'[e], t)
  BY <1>2
<1> QED
  BY <1>1, <1>2, <1>3, PeaceStep

(* A frame goes on its way without a capsule.                              *)
LEMMA GivesFrame ==
    ASSUME NEW e, NEW w \in Seq(Frame), NEW f \in Frame, f.c = <<>>, NEW s \in Record
    PROVE  Gives(e, w, s, Append(w, f), s)
<1>0. s.out \in Seq(Capsule) /\ s.advertised \in Nat
  BY RecordFields
<1>1. ASSUME NEW y \in Nat, Going(w, s.out, y, s.advertised)
      PROVE  Going(Append(w, f), s.out, y, s.advertised)
  <2>1. PICK z \in Nat : /\ y <= z /\ z <= s.advertised /\ UpFrames(w, y, z)
                         /\ Up(s.out, z, s.advertised)
    BY <1>1 DEF Going
  <2>2. UpFrames(Append(w, f), y, z)
    <3>1. Len(f.c) <= 1 /\ ~IsMax(f.c) /\ z <= z
      BY DEF IsMax
    <3> QED
      BY <2>1, <3>1, FramesAppend
  <2> QED
    BY <2>1, <2>2 DEF Going
<1>2. NoStream(w, s.out) => NoStream(Append(w, f), s.out)
  <2>1. \A i \in DOMAIN Append(w, f) :
           (i \in DOMAIN w /\ Append(w, f)[i] = w[i]) \/ Append(w, f)[i] = f
    OBVIOUS
  <2> QED
    BY <2>1 DEF NoStream
<1> QED
  BY <1>1, <1>2 DEF Gives

LEMMA GentleFrame ==
    ASSUME NEW e, NEW w \in Seq(Frame), NEW f \in Frame, f.c = <<>>, NEW s,
           NEW t \in Record, Gentle(e, w, s, w, t)
    PROVE  Gentle(e, w, s, Append(w, f), t)
<1>1. Gives(e, w, t, Append(w, f), t)
  BY GivesFrame
<1>2. Accepts(t, t)
  BY DEF Accepts
<1>3. Gentle(e, w, t, Append(w, f), t)
  BY <1>1, <1>2 DEF Gentle
<1> QED
  BY <1>3, GentleTrans

(* What the functions of the source do to a session record.                *)
LEMMA GoingNothing ==
    ASSUME NEW w, NEW o, NEW y \in Nat, NEW a \in Nat, Going(w, o, y, a)
    PROVE  Going(w, <<>>, y, a)
  BY UpEmpty DEF Going

LEMMA TakenNothing ==
    ASSUME NEW b, NEW m \in Nat, NEW y \in Nat, Taken(b, m, y)
    PROVE  Taken(<<>>, m, y)
  BY UpEmpty DEF Taken

LEMMA GentleRefl ==
    ASSUME NEW e, NEW w, NEW s, Orderly(e, s)
    PROVE  Gentle(e, w, s, w, s)
  BY DEF Gentle, Gives, Accepts

LEMMA NothingInside ==
    /\ NoStreams(<<>>) /\ \A w, o : NoStream(w, o) => NoStream(w, <<>>)
  BY DEF NoStreams, NoStream

(* Fields the session keeps, or empties.                                   *)
Lessens(s, t) ==
    /\ t.advertised = s.advertised /\ t.received_max = s.received_max
    /\ t.ready = s.ready
    /\ t.out = s.out \/ t.out = <<>>
    /\ t.capsule_buffer = s.capsule_buffer \/ t.capsule_buffer = <<>>

LEMMA GentleLessens ==
    ASSUME NEW e, NEW w, NEW s \in Record, NEW t, Lessens(s, t), Orderly(e, t)
    PROVE  Gentle(e, w, s, w, t)
<1>0. s.advertised \in Nat /\ s.received_max \in Nat
  BY RecordFields
<1>1. Gives(e, w, s, w, t)
  <2>1. NoStream(w, s.out) => NoStream(w, t.out)
    BY NothingInside DEF Lessens
  <2>2. ASSUME NEW y \in Nat, Going(w, s.out, y, s.advertised)
        PROVE  Going(w, t.out, y, t.advertised)
    BY <1>0, <2>2, GoingNothing DEF Lessens
  <2> QED
    BY <2>1, <2>2 DEF Gives, Lessens
<1>2. Accepts(s, t)
  <2>1. ASSUME NEW y \in Nat, Taken(s.capsule_buffer, s.received_max, y)
        PROVE  Taken(t.capsule_buffer, t.received_max, y)
    BY <1>0, <2>1, TakenNothing DEF Lessens
  <2> QED
    BY <2>1 DEF Accepts
<1> QED
  BY <1>1, <1>2 DEF Gentle

LEMMA GentleDrops ==
    ASSUME NEW e \in End, NEW w, NEW s \in Record, NEW t, Orderly(e, s), Drops(s, t),
           s.capsule_buffer = <<>> \/ ~s.entry \/ ~s.is_established \/ s.is_terminated
    PROVE  Gentle(e, w, s, w, t)
<1>1. Lessens(s, t)
  BY DEF Drops, Lessens
<1>2. t.reason = s.reason
  BY DEF Drops
<1>3. Orderly(e, t)
  BY <1>2, NothingInside DEF Drops, Orderly, End
<1> QED
  BY <1>1, <1>3, GentleLessens

LEMMA GentleEnded ==
    ASSUME NEW e \in End, NEW w, NEW s \in Record, Once(s), Orderly(e, s),
           s.capsule_buffer = <<>> \/ ~s.entry \/ ~s.is_established \/ s.is_terminated
    PROVE  Gentle(e, w, s, w, ended(e, s)) /\ Gentle(e, w, s, w, remote_end_stream(e, s))
<1>1. Drops(s, ended(e, s)) /\ Drops(s, remote_end_stream(e, s))
  BY EndedDrops, RemoteEndDrops
<1> QED
  BY <1>1, GentleDrops

(* A capsule is queued behind the others.                                  *)
LEMMA GivesCapsule ==
    ASSUME NEW e, NEW w, NEW s \in Record, NEW t \in Record, NEW c \in Capsule,
           t.out = Append(s.out, c), t.ready = s.ready, s.advertised <= t.advertised,
           Fair(c), c.k = "MAX" => s.advertised <= c.v /\ c.v <= t.advertised,
           c.k = "STREAM" => e # "client" \/ s.ready # 0
    PROVE  Gives(e, w, s, w, t)
<1>0. /\ s.advertised \in Nat /\ t.advertised \in Nat /\ s.out \in Seq(Capsule)
  BY RecordFields
<1>1. ASSUME NEW y \in Nat, Going(w, s.out, y, s.advertised)
      PROVE  Going(w, t.out, y, t.advertised)
  <2>1. PICK z \in Nat : /\ y <= z /\ z <= s.advertised /\ UpFrames(w, y, z)
                         /\ Up(s.out, z, s.advertised)
    BY <1>1 DEF Going
  <2>2. Up(t.out, z, t.advertised)
    BY <1>0, <2>1, UpAppend
  <2>3. z <= t.advertised
    BY <1>0, <2>1
  <2> QED
    BY <2>1, <2>2, <2>3 DEF Going
<1>2. ASSUME e = "client", t.ready = 0, NoStream(w, s.out) PROVE NoStream(w, t.out)
  <2>1. c.k # "STREAM"
    BY <1>2
  <2>2. \A i \in DOMAIN t.out : (i \in DOMAIN s.out /\ t.out[i] = s.out[i]) \/ t.out[i] = c
    BY <1>0
  <2> QED
    BY <1>2, <2>1, <2>2 DEF NoStream, NoStreams
<1> QED
  BY <1>1, <1>2 DEF Gives

LEMMA SendRest ==
    ASSUME NEW s \in Record, NEW c \in Capsule
    PROVE  LET t == send_capsule(s, c)
           IN  /\ t \in Record /\ t.out = Append(s.out, c)
               /\ t.advertised = s.advertised /\ t.received_max = s.received_max
               /\ t.capsule_buffer = s.capsule_buffer /\ t.reason = s.reason
               /\ t.ready = s.ready /\ t.entry = s.entry /\ t.running = s.running
               /\ t.response = s.response /\ t.is_established = s.is_established
               /\ t.is_terminated = s.is_terminated
<1> DEFINE t == send_capsule(s, c)
<1>1. /\ t \in Record /\ t.out = Append(s.out, c)
      /\ t.ready = s.ready /\ t.entry = s.entry /\ t.running = s.running
      /\ t.response = s.response /\ t.is_established = s.is_established
      /\ t.is_terminated = s.is_terminated
  BY SendFields
<1>2. /\ t.advertised = s.advertised /\ t.received_max = s.received_max
      /\ t.capsule_buffer = s.capsule_buffer /\ t.reason = s.reason
  BY DEF send_capsule, Record
<1> HIDE DEF t
<1> QED
  BY <1>1, <1>2 DEF t

LEMMA SameAccepts ==
    ASSUME NEW s, NEW t, t.capsule_buffer = s.capsule_buffer, t.received_max = s.received_max
    PROVE  Accepts(s, t)
  BY DEF Accepts

LEMMA GentleSend ==
    ASSUME NEW e, NEW w, NEW s \in Record, NEW c \in Capsule, Orderly(e, s),
           Fair(c), c.k = "MAX" => c.v = s.advertised,
           c.k = "STREAM" => e # "client" \/ s.ready # 0
    PROVE  Gentle(e, w, s, w, send_capsule(s, c))
<1> DEFINE t == send_capsule(s, c)
<1>1. /\ t \in Record /\ t.out = Append(s.out, c)
      /\ t.advertised = s.advertised /\ t.received_max = s.received_max
      /\ t.capsule_buffer = s.capsule_buffer /\ t.reason = s.reason
      /\ t.ready = s.ready /\ t.entry = s.entry /\ t.running = s.running
      /\ t.response = s.response /\ t.is_established = s.is_established
  BY SendRest
<1> HIDE DEF t
<1>2. s.advertised \in Nat
  BY RecordFields
<1>3. Gives(e, w, s, w, t)
  BY <1>1, <1>2, GivesCapsule
<1>4. Accepts(s, t) /\ Orderly(e, t)
  BY <1>1, SameAccepts DEF Orderly
<1>5. Gentle(e, w, s, w, t)
  BY <1>3, <1>4 DEF Gentle
<1> QED
  BY <1>5 DEF t

LEMMA GentleInitial ==
    ASSUME NEW e, NEW w, NEW s \in Record, Orderly(e, s), s.advertised = InitialLimit
    PROVE  Gentle(e, w, s, w, send_initial_limits(s))
<1>1. Limit(InitialLimit) \in Capsule
  BY LimitPlain
<1>2. Limit(InitialLimit).v = InitialLimit /\ Limit(InitialLimit).k = "MAX"
  BY DEF Limit
<1>3. Fair(Limit(InitialLimit))
  BY <1>2 DEF Fair
<1> QED
  BY <1>1, <1>2, <1>3, GentleSend DEF send_initial_limits

LEMMA GentleClose ==
    ASSUME NEW e, NEW w, NEW s \in Record, Orderly(e, s), s.entry
    PROVE  Gentle(e, w, s, w, close_session(s, "app"))
<1> DEFINE c == Plain("CLOSE")
           r == send_capsule(s, c)
           t == close_session(s, "app")
<1>0. c \in Capsule /\ c.k = "CLOSE"
  BY LimitPlain DEF Kind
<1>1. Fair(c)
  BY <1>0 DEF Fair
<1> HIDE DEF c
<1>2. Gentle(e, w, s, w, r) /\ r \in Record /\ r.entry = s.entry
  BY <1>0, <1>1, GentleSend, SendRest
<1>3. t = [r EXCEPT !.is_terminated = TRUE, !.is_established = FALSE,
                    !.pre_accept_end_stream = FALSE, !.end_stream_pending = TRUE,
                    !.reason = "app"]
  BY DEF close_session, c
<1> HIDE DEF r, t
<1>4. /\ t.advertised = r.advertised /\ t.received_max = r.received_max
      /\ t.capsule_buffer = r.capsule_buffer /\ t.out = r.out
      /\ t.ready = r.ready /\ t.entry = r.entry /\ t.running = r.running
      /\ t.response = r.response /\ t.is_established = FALSE /\ t.reason = "app"
  BY <1>2, <1>3 DEF Record
<1>5. Orderly(e, t)
  BY <1>2, <1>4 DEF Orderly, Gentle
<1>6. Lessens(r, t)
  BY <1>4 DEF Lessens
<1>7. Gentle(e, w, r, w, t)
  BY <1>2, <1>5, <1>6, GentleLessens
<1>8. Gentle(e, w, s, w, t)
  BY <1>2, <1>7, GentleTrans
<1> QED
  BY <1>8 DEF t

LEMMA GentleRaise ==
    ASSUME NEW e \in End, NEW w, NEW s \in Record, Orderly(e, s),
           e = "client" => s.ready # 0,
           e = "server" => s.response # "none" /\ s.running # "accept"
    PROVE  Gentle(e, w, s, w, raise_limit(s))
<1> DEFINE n == s.advertised + 1
           r == [s EXCEPT !.advertised = n]
           c == Limit(n)
           t == send_capsule(r, c)
<1>0. n \in Nat /\ s.advertised <= n /\ s.advertised \in Nat
  BY RecordFields
<1>1. c \in Capsule /\ c.k = "MAX" /\ c.v = n
  BY <1>0 DEF Limit, Capsule, Kind
<1>2. Fair(c)
  BY <1>1 DEF Fair
<1>3. raise_limit(s) = t
  BY DEF raise_limit
<1> HIDE DEF n, c
<1>4. r \in Record
  BY <1>0, RecordIs, AdvertisedType, Zenon
<1>5. /\ r.advertised = n /\ r.received_max = s.received_max
      /\ r.capsule_buffer = s.capsule_buffer /\ r.reason = s.reason /\ r.out = s.out
      /\ r.ready = s.ready /\ r.entry = s.entry /\ r.running = s.running
      /\ r.response = s.response /\ r.is_established = s.is_established
  BY DEF Record
<1> HIDE DEF r
<1>6. /\ t \in Record /\ t.out = Append(r.out, c)
      /\ t.advertised = r.advertised /\ t.received_max = r.received_max
      /\ t.capsule_buffer = r.capsule_buffer /\ t.reason = r.reason
      /\ t.ready = r.ready /\ t.entry = r.entry /\ t.running = r.running
      /\ t.response = r.response /\ t.is_established = r.is_established
  BY <1>1, <1>4, SendRest
<1> HIDE DEF t
<1>7. Gives(e, w, s, w, t)
  <2>1. t.out = Append(s.out, c) /\ t.ready = s.ready /\ t.advertised = n
    BY <1>5, <1>6
  <2>2. c.k = "MAX" => s.advertised <= c.v /\ c.v <= t.advertised
    BY <1>0, <1>1, <2>1
  <2>3. c.k # "STREAM"
    BY <1>1
  <2> QED
    BY <1>0, <1>1, <1>2, <1>6, <2>1, <2>2, <2>3, GivesCapsule
<1>8. Accepts(s, t)
  BY <1>5, <1>6, SameAccepts
<1>9. Orderly(e, t)
  BY <1>5, <1>6 DEF Orderly
<1> QED
  BY <1>3, <1>7, <1>8, <1>9 DEF Gentle

LEMMA GentleOver ==
    ASSUME NEW e \in End, NEW w, NEW s \in Record, Once(s), s.entry, Orderly(e, s)
    PROVE  Gentle(e, w, s, w, session_over(s))
<1> DEFINE t == session_over(s)
<1>1. Drops(s, t)
  BY SessionOverDrops
<1>2. t.reason = s.reason
  <2>1. push_over(s) = [s EXCEPT !.over = 1]
    BY PushOver DEF Once
  <2> QED
    BY <2>1 DEF session_over, Record
<1> HIDE DEF t
<1>3. Lessens(s, t)
  BY <1>1 DEF Drops, Lessens
<1>4. Orderly(e, t)
  BY <1>1, <1>2, NothingInside DEF Drops, Orderly, End
<1>5. Gentle(e, w, s, w, t)
  BY <1>3, <1>4, GentleLessens
<1> QED
  BY <1>5 DEF t

(* The next capsule of the loop is one the session can accept.             *)
LEMMA TakenHead ==
    ASSUME NEW b \in Seq(Capsule), b # <<>>, NEW m \in Nat, NEW y \in Nat, Taken(b, m, y)
    PROVE  /\ Fair(Head(b)) /\ Taken(Tail(b), m, y)
           /\ Head(b).k = "MAX" => m <= Head(b).v /\ Taken(Tail(b), Head(b).v, y)
<1>0. Head(b) \in Capsule
  OBVIOUS
<1>1. Head(b).v \in Nat
  BY <1>0 DEF Capsule
<1>2. PICK x \in Nat : m <= x /\ InitialLimit <= x /\ x <= y /\ Up(b, x, y)
  BY DEF Taken
<1>3. /\ Fair(Head(b)) /\ Up(Tail(b), x, y)
      /\ Head(b).k = "MAX" => /\ x <= Head(b).v /\ Head(b).v <= y
                              /\ Up(Tail(b), Head(b).v, y)
  BY <1>2, UpTail
<1>4. Taken(Tail(b), m, y)
  BY <1>2, <1>3 DEF Taken
<1>5. ASSUME Head(b).k = "MAX" PROVE m <= Head(b).v /\ Taken(Tail(b), Head(b).v, y)
  <2>1. x <= Head(b).v /\ Head(b).v <= y /\ Up(Tail(b), Head(b).v, y)
    BY <1>3, <1>5
  <2>2. m <= Head(b).v /\ InitialLimit <= Head(b).v /\ Head(b).v <= Head(b).v
    BY <1>1, <1>2, <2>1, LifecycleAssumption
  <2> QED
    BY <1>1, <2>1, <2>2 DEF Taken
<1> QED
  BY <1>3, <1>4, <1>5

LEMMA GentleCapsule ==
    ASSUME NEW e \in End, NEW w, NEW s \in Record, Sound(e, w, s), Orderly(e, s),
           s.running # "no", s.entry, s.capsule_buffer # <<>>,
           NEW n \in Nat, Taken(s.capsule_buffer, s.received_max, n)
    PROVE  Gentle(e, w, s, w,
               process_capsule([s EXCEPT !.capsule_buffer = Tail(s.capsule_buffer)],
                               Head(s.capsule_buffer)))
<1> DEFINE b == s.capsule_buffer
           c == Head(b)
           r == Tail(b)
           t == [s EXCEPT !.capsule_buffer = r]
<1>0. b \in Seq(Capsule) /\ s.received_max \in Nat
  BY RecordFields
<1>1. /\ Fair(c)
      /\ \A y \in Nat : Taken(b, s.received_max, y) =>
            /\ Taken(r, s.received_max, y)
            /\ c.k = "MAX" => s.received_max <= c.v /\ Taken(r, c.v, y)
  BY <1>0, TakenHead
<1>2. r \in Seq(Capsule) /\ c \in Capsule
  BY <1>0
<1>3. NoStreams(b) => NoStreams(r) /\ c.k # "STREAM"
  <2>1. /\ \A i \in DOMAIN r : i + 1 \in DOMAIN b /\ r[i] = b[i + 1]
        /\ 1 \in DOMAIN b /\ c = b[1]
    BY <1>0
  <2> HIDE DEF b, c, r
  <2> QED
    BY <2>1 DEF NoStreams
<1> HIDE DEF r, c
<1>4. t \in Record
  BY <1>2, RecordIs, KeptType, Zenon
<1>5. /\ t.advertised = s.advertised /\ t.received_max = s.received_max
      /\ t.capsule_buffer = r /\ t.reason = s.reason /\ t.out = s.out
      /\ t.ready = s.ready /\ t.entry = s.entry /\ t.running = s.running
      /\ t.response = s.response /\ t.is_established = s.is_established
      /\ t.over = s.over /\ t.late = s.late
  BY DEF Record
<1> HIDE DEF t
<1>6. Orderly(e, t)
  BY <1>3, <1>5 DEF Orderly
<1>7. Gives(e, w, s, w, t)
  BY <1>5 DEF Gives
<1>8. Accepts(s, t)
  BY <1>1, <1>5 DEF Accepts
<1>9. Gentle(e, w, s, w, t) /\ Once(t) /\ t.entry
  BY <1>5, <1>6, <1>7, <1>8, SoundOnce DEF Gentle, Once
<1>a. push_event(t) = t
  BY <1>4, <1>9, PushEventSame DEF Once
<1>10. CASE c.k \in {"DATAGRAM", "DRAIN"}
  <2>1. process_capsule(t, c) = t
    BY <1>a, <1>10 DEF process_capsule
  <2> QED
    BY <1>9, <2>1 DEF t, r, c
<1>11. CASE c.k = "STREAM"
  <2>1. process_capsule(t, c) = raise_limit(t)
    BY <1>a, <1>11 DEF process_capsule
  <2>2. e = "client" => t.ready # 0
    BY <1>5 DEF Orderly
  <2>3. e = "server" => t.response # "none" /\ t.running # "accept"
    BY <1>3, <1>5, <1>11 DEF Orderly, Sound, Told, Answered
  <2>4. Gentle(e, w, t, w, raise_limit(t))
    BY <1>4, <1>6, <2>2, <2>3, GentleRaise
  <2>5. Gentle(e, w, s, w, process_capsule(t, c))
    BY <1>9, <2>1, <2>4, GentleTrans
  <2> QED
    BY <2>5 DEF t, r, c
<1>12. CASE c.k = "MAX"
  <2> DEFINE u == [t EXCEPT !.received_max = c.v]
  <2>0. c.v \in Nat /\ ~(c.v < s.received_max)
    BY <1>0, <1>1, <1>2, <1>12 DEF Capsule
  <2>1. process_capsule(t, c) = u
    BY <1>5, <1>12, <2>0 DEF process_capsule
  <2>2. /\ u.advertised = t.advertised /\ u.received_max = c.v
        /\ u.capsule_buffer = t.capsule_buffer /\ u.reason = t.reason /\ u.out = t.out
        /\ u.ready = t.ready /\ u.entry = t.entry /\ u.running = t.running
        /\ u.response = t.response /\ u.is_established = t.is_established
    BY <1>4 DEF Record
  <2> HIDE DEF u
  <2>3. Orderly(e, u)
    BY <1>6, <2>2 DEF Orderly
  <2>4. Gives(e, w, s, w, u)
    BY <1>5, <2>2 DEF Gives
  <2>5. Accepts(s, u)
    BY <1>1, <1>5, <1>12, <2>2 DEF Accepts
  <2>6. Gentle(e, w, s, w, process_capsule(t, c))
    BY <2>1, <2>3, <2>4, <2>5 DEF Gentle
  <2> QED
    BY <2>6 DEF t, r, c
<1>13. CASE c.k = "CLOSE"
  <2>1. process_capsule(t, c) = session_over(t)
    BY <1>13 DEF process_capsule
  <2>2. Gentle(e, w, t, w, session_over(t))
    BY <1>4, <1>6, <1>9, GentleOver
  <2>3. Gentle(e, w, s, w, process_capsule(t, c))
    BY <1>9, <2>1, <2>2, GentleTrans
  <2> QED
    BY <2>3 DEF t, r, c
<1>14. c.k \in Kind /\ c.k \notin {"BAD", "PART"}
  BY <1>1, <1>2 DEF Capsule, Fair
<1> QED
  BY <1>10, <1>11, <1>12, <1>13, <1>14 DEF Kind

(* What follows the loop: by then the buffer is empty.                     *)
LEMMA GentleLoopEnds ==
    ASSUME NEW e \in End, NEW w, NEW s \in Record, Sound(e, w, s), Orderly(e, s),
           s.running # "no", ~LoopGoesOn(s),
           NEW n \in Nat, Taken(s.capsule_buffer, s.received_max, n), NEW t,
           t = [s EXCEPT !.running = "no",
                         !.capsule_buffer = IF s.is_terminated THEN <<>> ELSE @]
    PROVE  /\ Gentle(e, w, s, w, t)
           /\ Gentle(e, w, s, w, remote_end_stream(e, t))
           /\ s.running = "accept" /\ s.entry =>
                 /\ Gentle(e, w, s, w, terminate_pre_accept_end_stream_session(t))
                 /\ Gentle(e, w, s, w, send_initial_limits(t))
<1> DEFINE b == IF s.is_terminated THEN <<>> ELSE s.capsule_buffer
<1>1. b \in Seq(Capsule) /\ "no" \in Running
  BY RecordFields DEF Running
<1>2. b = <<>>
  <2>1. s.capsule_buffer \in Seq(Capsule) /\ s.received_max \in Nat
    BY RecordFields
  <2>2. s.capsule_buffer # <<>> => Head(s.capsule_buffer).k # "PART"
    BY <2>1, TakenHead DEF Fair
  <2> QED
    BY <2>2 DEF LoopGoesOn, Orderly
<1>3. t = [s EXCEPT !.capsule_buffer = b, !.running = "no"]
  OBVIOUS
<1> HIDE DEF b
<1>4. t \in Record
  <2>1. ASSUME NEW x \in Running
        PROVE  [s EXCEPT !.capsule_buffer = b, !.running = x] \in Record
    BY <1>1, RecordIs, BufferType, Zenon
  <2> QED
    BY <1>1, <1>3, <2>1, Zenon
<1>5. /\ t.advertised = s.advertised /\ t.received_max = s.received_max
      /\ t.capsule_buffer = <<>> /\ t.reason = s.reason /\ t.out = s.out
      /\ t.ready = s.ready /\ t.entry = s.entry /\ t.running = "no"
      /\ t.response = s.response /\ t.is_established = s.is_established
      /\ t.over = s.over /\ t.late = s.late
  BY <1>2, <1>3 DEF Record
<1>6. Orderly(e, t)
  BY <1>5, NothingInside DEF Orderly
<1>7. Lessens(s, t)
  BY <1>5 DEF Lessens
<1>8. Gentle(e, w, s, w, t) /\ Once(t)
  BY <1>5, <1>6, <1>7, GentleLessens, SoundOnce DEF Once
<1>9. Gentle(e, w, t, w, remote_end_stream(e, t))
  BY <1>4, <1>5, <1>6, <1>8, GentleEnded
<1>10. ASSUME s.running = "accept", s.entry
       PROVE  /\ Gentle(e, w, t, w, terminate_pre_accept_end_stream_session(t))
              /\ Gentle(e, w, t, w, send_initial_limits(t))
  <2>1. terminate_pre_accept_end_stream_session(t) = session_over(t)
    BY <1>5 DEF terminate_pre_accept_end_stream_session
  <2>2. Gentle(e, w, t, w, session_over(t))
    BY <1>4, <1>5, <1>6, <1>8, <1>10, GentleOver
  <2>3. t.advertised = InitialLimit
    BY <1>5, <1>10 DEF Orderly, Sound, Told
  <2> QED
    BY <1>4, <1>6, <2>1, <2>2, <2>3, GentleInitial
<1> QED
  BY <1>8, <1>9, <1>10, GentleTrans

(* HEADERS are taken or written.                                           *)
LEMMA GentleEstablished ==
    ASSUME NEW w, NEW s \in Record, Sound("client", w, s), Orderly("client", s), s.ready = 0
    PROVE  Gentle("client", w, s, w, established(s))
<1>1. CASE ~s.entry
  BY <1>1, GentleRefl DEF established
<1>2. CASE s.entry
  <2> DEFINE r == [[s EXCEPT !.ready = 1] EXCEPT !.is_established = TRUE]
  <2>1. s.over = 0 /\ ~s.late
    BY <1>2 DEF Sound, Told, Once
  <2>2. push_ready(s) = [s EXCEPT !.ready = 1]
    BY <2>1, PushReady
  <2>3. established(s) = send_initial_limits(r)
    BY <1>2, <2>2 DEF established
  <2>4. r \in Record
    BY RecordIs, ReadyType, 1 \in Nat, Zenon
  <2>5. /\ r.advertised = s.advertised /\ r.received_max = s.received_max
        /\ r.capsule_buffer = s.capsule_buffer /\ r.reason = s.reason /\ r.out = s.out
        /\ r.ready = 1 /\ r.entry = s.entry /\ r.running = s.running
    BY DEF Record
  <2> HIDE DEF r
  <2>6. Orderly("client", r) /\ r.advertised = InitialLimit
    BY <2>5 DEF Orderly
  <2>7. Gives("client", w, s, w, r) /\ Accepts(s, r)
    BY <2>5, SameAccepts DEF Gives
  <2>8. Gentle("client", w, s, w, r) /\ Gentle("client", w, r, w, send_initial_limits(r))
    BY <2>4, <2>6, <2>7, GentleInitial DEF Gentle
  <2> QED
    BY <2>3, <2>8, GentleTrans
<1> QED
  BY <1>1, <1>2

LEMMA GentleRefused ==
    ASSUME NEW w, NEW s \in Record, Sound("client", w, s), Orderly("client", s), s.entry,
           s.running = "no"
    PROVE  LET t == [push_over(s) EXCEPT !.entry = FALSE, !.is_established = FALSE,
                                         !.is_terminated = FALSE]
           IN  Gentle("client", w, s, w, t) /\ ~t.entry
<1> DEFINE r == [s EXCEPT !.over = 1]
           t == [r EXCEPT !.entry = FALSE, !.is_established = FALSE, !.is_terminated = FALSE]
<1>1. s.over = 0 /\ ~s.late
  BY DEF Sound, Told, Once
<1>2. push_over(s) = r
  BY <1>1, PushOver
<1>3. r \in Record
  BY RecordIs, OverType, 1 \in Nat, Zenon
<1>4. /\ r.advertised = s.advertised /\ r.received_max = s.received_max
      /\ r.capsule_buffer = s.capsule_buffer /\ r.reason = s.reason /\ r.out = s.out
      /\ r.ready = s.ready /\ r.running = s.running
  BY DEF Record
<1> HIDE DEF r
<1>5. /\ t.advertised = r.advertised /\ t.received_max = r.received_max
      /\ t.capsule_buffer = r.capsule_buffer /\ t.reason = r.reason /\ t.out = r.out
      /\ t.ready = r.ready /\ t.running = r.running /\ ~t.entry /\ ~t.is_established
  BY <1>3 DEF Record
<1> HIDE DEF t
<1>6. Lessens(s, t) /\ Orderly("client", t)
  BY <1>4, <1>5 DEF Lessens, Orderly
<1>7. Gentle("client", w, s, w, t)
  BY <1>6, GentleLessens
<1> QED
  BY <1>2, <1>5, <1>7 DEF t

LEMMA GentleRefuse ==
    ASSUME NEW w, NEW s \in Record, Sound("server", w, s), Orderly("server", s), s.opened,
           s.running = "no", NEW erase \in BOOLEAN
    PROVE  Gentle("server", w, s, w, refuse(s, erase)) /\ refuse(s, erase).capsule_buffer = <<>>
<1> DEFINE a == s.entry /\ ~erase
           t == [s EXCEPT !.response = "refused", !.sent_end = TRUE,
                          !.capsule_buffer = <<>>, !.pre_accept_end_stream = FALSE,
                          !.entry = a, !.is_terminated = a]
<1>0. a \in BOOLEAN /\ "refused" \in {"none", "ok", "refused"} /\ (a => s.entry)
  OBVIOUS
<1>1. refuse(s, erase) = close_if_both_ended(t)
  BY DEF refuse
<1> HIDE DEF a
<1>2. t \in Record
  BY <1>0, RecordIs, RefuseType, Zenon
<1>3. /\ t.over = s.over /\ t.late = s.late /\ t.ready = s.ready /\ t.out = s.out
      /\ t.response = "refused" /\ t.running = s.running /\ t.entry = a
      /\ t.advertised = s.advertised /\ t.received_max = s.received_max
      /\ t.capsule_buffer = <<>> /\ t.reason = s.reason
  BY DEF Record
<1> HIDE DEF t
<1>4. Lessens(s, t) /\ Orderly("server", t)
  BY <1>3, NothingInside DEF Lessens, Orderly
<1>5. Gentle("server", w, s, w, t)
  BY <1>4, GentleLessens
<1>6. Once(t)
  BY <1>0, <1>3, SoundOnce DEF Once
<1>7. Drops(t, close_if_both_ended(t))
  BY <1>2, <1>6, BothEndedDrops
<1>8. Gentle("server", w, t, w, close_if_both_ended(t))
  BY <1>2, <1>3, <1>4, <1>7, GentleDrops DEF End
<1>9. close_if_both_ended(t).capsule_buffer = <<>>
  BY <1>3, <1>7 DEF Drops
<1> QED
  BY <1>1, <1>5, <1>8, <1>9, GentleTrans

LEMMA GentleOpened ==
    ASSUME NEW w, NEW s \in Record, Orderly("server", s)
    PROVE  Gentle("server", w, s, w, [s EXCEPT !.opened = TRUE])
<1> DEFINE t == [s EXCEPT !.opened = TRUE]
<1>1. /\ t.advertised = s.advertised /\ t.received_max = s.received_max
      /\ t.capsule_buffer = s.capsule_buffer /\ t.reason = s.reason /\ t.out = s.out
      /\ t.ready = s.ready /\ t.entry = s.entry /\ t.running = s.running
      /\ t.response = s.response /\ t.is_established = s.is_established
  BY DEF Record
<1> HIDE DEF t
<1>2. Lessens(s, t) /\ Orderly("server", t)
  BY <1>1 DEF Lessens, Orderly
<1>3. Gentle("server", w, s, w, t)
  BY <1>2, GentleLessens
<1> QED
  BY <1>3 DEF t

(* A session begins: the first limit is known without a capsule.           *)
LEMMA BeginAccepts ==
    ASSUME NEW s, NEW t, t.capsule_buffer = s.capsule_buffer, t.received_max = InitialLimit
    PROVE  Accepts(s, t)
<1>1. ASSUME NEW y \in Nat, Taken(s.capsule_buffer, s.received_max, y)
      PROVE  Taken(t.capsule_buffer, t.received_max, y)
  BY <1>1, LifecycleAssumption DEF Taken
<1> QED
  BY <1>1 DEF Accepts

LEMMA GentleRequest ==
    ASSUME NEW w, NEW s \in Record, Sound("server", w, s), Orderly("server", s), ~s.opened
    PROVE  LET t == [push_ready(s) EXCEPT !.entry = TRUE, !.opened = TRUE,
                                          !.received_max = InitialLimit]
           IN  Gentle("server", w, s, w, t) /\ t.capsule_buffer = <<>>
<1> DEFINE t == [[s EXCEPT !.ready = 1] EXCEPT !.entry = TRUE, !.opened = TRUE,
                                               !.received_max = InitialLimit]
<1>1. s.ready = 0 /\ s.over = 0 /\ ~s.late /\ ~s.entry
  BY DEF Sound, Told, Fresh, Once
<1>2. push_ready(s) = [s EXCEPT !.ready = 1]
  BY <1>1, PushReady
<1>3. /\ t.advertised = s.advertised /\ t.received_max = InitialLimit
      /\ t.capsule_buffer = s.capsule_buffer /\ t.reason = s.reason /\ t.out = s.out
      /\ t.entry /\ t.running = s.running
      /\ t.response = s.response /\ t.is_established = s.is_established
  BY DEF Record
<1> HIDE DEF t
<1>4. Orderly("server", t) /\ t.capsule_buffer = <<>>
  BY <1>1, <1>3 DEF Orderly
<1>5. Gives("server", w, s, w, t) /\ Accepts(s, t)
  BY <1>3, BeginAccepts DEF Gives
<1> QED
  BY <1>2, <1>4, <1>5 DEF Gentle, t

LEMMA GentleConnect ==
    ASSUME NEW w, NEW s \in Record, Orderly("client", s), s.running = "no"
    PROVE  Gentle("client", w, s, w,
                  [s EXCEPT !.entry = TRUE, !.opened = TRUE, !.reader = TRUE,
                            !.received_max = InitialLimit])
<1> DEFINE t == [s EXCEPT !.entry = TRUE, !.opened = TRUE, !.reader = TRUE,
                          !.received_max = InitialLimit]
<1>1. /\ t.advertised = s.advertised /\ t.received_max = InitialLimit
      /\ t.capsule_buffer = s.capsule_buffer /\ t.reason = s.reason /\ t.out = s.out
      /\ t.entry /\ t.running = s.running /\ t.ready = s.ready
      /\ t.response = s.response /\ t.is_established = s.is_established
  BY DEF Record
<1> HIDE DEF t
<1>2. Orderly("client", t)
  BY <1>1 DEF Orderly
<1>3. Gives("client", w, s, w, t) /\ Accepts(s, t)
  BY <1>1, BeginAccepts DEF Gives
<1>4. Gentle("client", w, s, w, t)
  BY <1>2, <1>3 DEF Gentle
<1> QED
  BY <1>4 DEF t

(* Capsules are moved: from the buffer to the wire, one at a time ...      *)
LEMMA GoingWrite ==
    ASSUME NEW w \in Seq(Frame), NEW o \in Seq(Capsule), o # <<>>, NEW f \in Frame,
           f.c = <<Head(o)>>, NEW y \in Nat, NEW a \in Nat, Going(w, o, y, a)
    PROVE  Going(Append(w, f), Tail(o), y, a)
<1> DEFINE c == Head(o)
<1>0. c \in Capsule /\ f.c # <<>> /\ f.c[1] = c /\ Len(f.c) <= 1
  OBVIOUS
<1>1. c.v \in Nat
  BY <1>0 DEF Capsule
<1>2. PICK z \in Nat : y <= z /\ z <= a /\ UpFrames(w, y, z) /\ Up(o, z, a)
  BY DEF Going
<1>3. /\ Fair(c) /\ Up(Tail(o), z, a)
      /\ c.k = "MAX" => z <= c.v /\ c.v <= a /\ Up(Tail(o), c.v, a)
  BY <1>2, UpTail
<1> HIDE DEF c
<1>4. CASE c.k = "MAX"
  <2>0. /\ z <= c.v /\ c.v <= c.v /\ Fair(f.c[1]) /\ f.c[1].v = c.v
    BY <1>0, <1>1, <1>3, <1>4
  <2>1. UpFrames(Append(w, f), y, c.v)
    BY <1>0, <1>1, <1>2, <2>0, FramesAppend
  <2>2. y <= c.v /\ c.v <= a
    BY <1>1, <1>2, <1>3, <1>4
  <2> QED
    BY <1>1, <1>3, <1>4, <2>1, <2>2 DEF Going
<1>5. CASE c.k # "MAX"
  <2>1. ~IsMax(f.c) /\ Fair(f.c[1]) /\ z <= z
    BY <1>0, <1>3, <1>5 DEF IsMax
  <2>2. UpFrames(Append(w, f), y, z)
    BY <1>0, <1>2, <2>1, FramesAppend
  <2> QED
    BY <1>2, <1>3, <2>2 DEF Going
<1> QED
  BY <1>4, <1>5

LEMMA NoStreamWrite ==
    ASSUME NEW w \in Seq(Frame), NEW o \in Seq(Capsule), o # <<>>, NEW f \in Frame,
           f.c = <<Head(o)>>, NoStream(w, o)
    PROVE  NoStream(Append(w, f), Tail(o))
<1>1. \A i \in DOMAIN Append(w, f) :
         (i \in DOMAIN w /\ Append(w, f)[i] = w[i]) \/ Append(w, f)[i] = f
  OBVIOUS
<1>2. \A i \in DOMAIN Tail(o) : i + 1 \in DOMAIN o /\ Tail(o)[i] = o[i + 1]
  OBVIOUS
<1>3. f.c[1] = o[1] /\ 1 \in DOMAIN o
  OBVIOUS
<1> QED
  BY <1>1, <1>2, <1>3 DEF NoStream, NoStreams

(* ... or all at once, behind the HEADERS of accept_session ...            *)
LEMMA GoingFlush ==
    ASSUME NEW q, NEW w \in Seq(Frame), NEW o \in Seq(Capsule), NEW n, NEW m,
           Flushes(q, w, o, n, m), NEW y \in Nat, NEW a \in Nat, Going(w, o, y, a)
    PROVE  Going(q, <<>>, y, a)
<1>1. /\ n \in Nat /\ m \in Nat
      /\ DOMAIN q = 1 .. (n + 1 + m) /\ DOMAIN w = 1 .. n /\ DOMAIN o = 1 .. m
  BY DEF Flushes
<1>2. PICK z \in Nat : y <= z /\ z <= a /\ UpFrames(w, y, z) /\ Up(o, z, a)
  BY DEF Going
<1>3. \A i \in DOMAIN o : o[i] \in Capsule
  OBVIOUS
<1>4. \A i \in DOMAIN o : o[i].v \in Nat
  BY <1>3 DEF Capsule
<1>5. \A i \in DOMAIN w : IsMax(w[i].c) => w[i].c[1].v \in Nat
  BY FrameCapsule DEF IsMax
<1>6. \A i \in 1 .. (n + 1 + m) :
         i \in 1 .. n \/ i = n + 1 \/ \E j \in 1 .. m : i = n + 1 + j
  <2> SUFFICES ASSUME NEW i \in 1 .. (n + 1 + m), i \notin 1 .. n, i # n + 1
               PROVE  \E j \in 1 .. m : i = n + 1 + j
    OBVIOUS
  <2>1. i - (n + 1) \in 1 .. m /\ i = n + 1 + (i - (n + 1))
    BY <1>1
  <2> QED
    BY <2>1
<1>7. \A i \in 1 .. m : /\ q[n + 1 + i].c # <<>> /\ Len(q[n + 1 + i].c) = 1
                        /\ q[n + 1 + i].c[1] = o[i]
  <2>1. \A x : <<x>> # <<>> /\ Len(<<x>>) = 1 /\ <<x>>[1] = x
    OBVIOUS
  <2>2. \A i \in 1 .. m : q[n + 1 + i].c = <<o[i]>>
    BY DEF Flushes
  <2> QED
    BY <2>1, <2>2, Zenon
<1>8. ASSUME NEW i \in DOMAIN q
      PROVE  /\ Len(q[i].c) <= 1 /\ (q[i].c # <<>> => Fair(q[i].c[1]))
             /\ IsMax(q[i].c) => y <= q[i].c[1].v /\ q[i].c[1].v <= a
  <2>1. CASE i \in 1 .. n
    <3>1. q[i].c = w[i].c
      BY <2>1 DEF Flushes
    <3>2. /\ Len(w[i].c) <= 1 /\ (w[i].c # <<>> => Fair(w[i].c[1]))
          /\ IsMax(w[i].c) => y <= w[i].c[1].v /\ w[i].c[1].v <= z /\ w[i].c[1].v \in Nat
      BY <1>1, <1>2, <1>5, <2>1 DEF UpFrames
    <3> QED
      BY <1>2, <3>1, <3>2
  <2>2. CASE i = n + 1
    <3>1. q[i].c = <<>> /\ Len(q[i].c) = 0
      BY <2>2 DEF Flushes
    <3> QED
      BY <3>1 DEF IsMax
  <2>3. ASSUME NEW j \in 1 .. m, i = n + 1 + j
        PROVE  /\ Len(q[i].c) <= 1 /\ (q[i].c # <<>> => Fair(q[i].c[1]))
               /\ IsMax(q[i].c) => y <= q[i].c[1].v /\ q[i].c[1].v <= a
    <3>1. q[i].c # <<>> /\ Len(q[i].c) = 1 /\ q[i].c[1] = o[j] /\ o[j].v \in Nat
      BY <1>1, <1>4, <1>7, <2>3
    <3>2. Fair(o[j]) /\ (o[j].k = "MAX" => z <= o[j].v /\ o[j].v <= a)
      BY <1>1, <1>2 DEF Up
    <3> QED
      BY <1>2, <3>1, <3>2 DEF IsMax
  <2> QED
    BY <1>1, <1>6, <2>1, <2>2, <2>3
<1>9. ASSUME NEW i \in DOMAIN q, NEW j \in DOMAIN q, i < j, IsMax(q[i].c), IsMax(q[j].c)
      PROVE  q[i].c[1].v <= q[j].c[1].v
  <2>0. q[n + 1].c = <<>> /\ ~IsMax(q[n + 1].c)
    BY DEF Flushes, IsMax
  <2>1. CASE i \in 1 .. n /\ j \in 1 .. n
    <3>1. q[i].c = w[i].c /\ q[j].c = w[j].c
      BY <2>1 DEF Flushes
    <3> QED
      BY <1>1, <1>2, <1>9, <2>1, <3>1 DEF UpFrames
  <2>2. ASSUME NEW k \in 1 .. m, j = n + 1 + k, i \in 1 .. n
        PROVE  q[i].c[1].v <= q[j].c[1].v
    <3>1. q[i].c = w[i].c /\ q[j].c[1] = o[k] /\ o[k].v \in Nat
      BY <1>1, <1>4, <1>7, <2>2 DEF Flushes
    <3>2. w[i].c[1].v <= z /\ w[i].c[1].v \in Nat
      BY <1>1, <1>2, <1>5, <1>9, <2>2, <3>1 DEF UpFrames
    <3>3. z <= o[k].v
      BY <1>1, <1>2, <1>9, <3>1 DEF Up, IsMax
    <3> QED
      BY <3>1, <3>2, <3>3
  <2>3. ASSUME NEW k \in 1 .. m, j = n + 1 + k, NEW l \in 1 .. m, i = n + 1 + l
        PROVE  q[i].c[1].v <= q[j].c[1].v
    <3>1. q[i].c[1] = o[l] /\ q[j].c[1] = o[k] /\ l < k
      BY <1>1, <1>7, <1>9, <2>3
    <3> QED
      BY <1>1, <1>2, <1>9, <3>1 DEF Up, IsMax
  <2>4. i # n + 1 /\ j # n + 1
    BY <1>9, <2>0
  <2>5. CASE j \in 1 .. n
    <3>1. i \in 1 .. n
      BY <1>1, <1>9, <2>5
    <3> QED
      BY <2>1, <2>5, <3>1
  <2>6. CASE j \notin 1 .. n
    <3>1. PICK k \in 1 .. m : j = n + 1 + k
      BY <1>1, <1>6, <2>4, <2>6
    <3> QED
      BY <1>1, <1>6, <2>2, <2>3, <2>4, <3>1
  <2> QED
    BY <2>5, <2>6
<1>10. UpFrames(q, y, a)
  BY <1>8, <1>9 DEF UpFrames
<1>11. y <= a /\ a <= a
  BY <1>2
<1> QED
  BY <1>10, <1>11, UpEmpty DEF Going

LEMMA OneElement ==
    ASSUME NEW d \in Seq(Capsule), d # <<>>, Len(d) <= 1
    PROVE  d = <<d[1]>>
<1>1. Tail(d) \in Seq(Capsule) /\ Len(Tail(d)) = Len(d) - 1
  BY Tails
<1>2. Len(d) = 1
  <2>1. Len(Tail(d)) \in Nat /\ Len(d) \in Nat
    BY <1>1
  <2> QED
    BY <1>1, <2>1
<1>3. d \in [1 .. 1 -> Capsule]
  BY <1>2
<1>4. d = [i \in 1 .. 1 |-> d[1]]
  BY <1>3
<1>5. <<d[1]>> = [i \in 1 .. 1 |-> d[1]]
  OBVIOUS
<1> QED
  BY <1>4, <1>5

(* ... and from the wire to the end that reads it.                         *)
LEMMA FlightTaken ==
    ASSUME NEW s \in Record, NEW t, NEW w \in Seq(Frame), w # <<>>, NEW r \in Record,
           Flight(s, w, r), t.received_max = s.received_max,
           t.capsule_buffer = s.capsule_buffer \o Head(w).c
    PROVE  Flight(t, Tail(w), r)
<1> DEFINE b == s.capsule_buffer
           d == Head(w).c
           m == s.received_max
<1>0. /\ b \in Seq(Capsule) /\ m \in Nat /\ r.advertised \in Nat /\ r.out \in Seq(Capsule)
      /\ w[1].c = d /\ 1 \in DOMAIN w
  BY RecordFields
<1>1. d \in Seq(Capsule) /\ (d # <<>> => d[1] \in Capsule /\ d[1].v \in Nat)
  BY <1>0, FrameCapsule
<1>2. PICK y \in Nat : Taken(b, m, y) /\ Going(w, r.out, y, r.advertised)
  BY DEF Flight
<1>3. PICK x \in Nat : m <= x /\ InitialLimit <= x /\ x <= y /\ Up(b, x, y)
  BY <1>2 DEF Taken
<1>4. PICK z \in Nat : y <= z /\ z <= r.advertised /\ UpFrames(w, y, z) /\ Up(r.out, z, r.advertised)
  BY <1>2 DEF Going
<1>5. /\ UpFrames(Tail(w), y, z) /\ Len(d) <= 1 /\ (d # <<>> => Fair(d[1]))
      /\ IsMax(d) => y <= d[1].v /\ d[1].v <= z /\ UpFrames(Tail(w), d[1].v, z)
  BY <1>4, FramesTail
<1>a. Flight(t, Tail(w), r) <=>
        \E u \in Nat : Taken(b \o d, m, u) /\ Going(Tail(w), r.out, u, r.advertised)
  BY DEF Flight
<1> HIDE DEF b, d, m
<1>6. CASE d = <<>>
  <2>1. b \o d = b
    BY <1>0, <1>6
  <2>2. Going(Tail(w), r.out, y, r.advertised)
    BY <1>4, <1>5 DEF Going
  <2> QED
    BY <1>a, <1>2, <2>1, <2>2
<1>7. CASE d # <<>>
  <2>1. b \o d = Append(b, d[1])
    <3>1. d = <<d[1]>>
      BY <1>1, <1>5, <1>7, OneElement
    <3>2. b \o <<d[1]>> = Append(b, d[1])
      BY <1>0, <1>1, <1>7
    <3> QED
      BY <3>1, <3>2
  <2>2. CASE IsMax(d)
    <3> DEFINE v == d[1].v
    <3>1. v \in Nat /\ y <= v /\ v <= z /\ d[1].k = "MAX" /\ UpFrames(Tail(w), v, z)
      BY <1>1, <1>5, <1>7, <2>2 DEF IsMax
    <3>2. Up(Append(b, d[1]), x, v)
      BY <1>0, <1>1, <1>3, <1>5, <1>7, <3>1, UpAppend
    <3>3. x <= v /\ v <= z
      BY <1>3, <3>1
    <3> HIDE DEF v
    <3>4. Taken(Append(b, d[1]), m, v)
      BY <1>3, <3>1, <3>2, <3>3 DEF Taken
    <3>5. Going(Tail(w), r.out, v, r.advertised)
      BY <1>4, <3>1 DEF Going
    <3> QED
      BY <1>a, <2>1, <3>1, <3>4, <3>5
  <2>3. CASE ~IsMax(d)
    <3>1. d[1].k # "MAX"
      BY <1>7, <2>3 DEF IsMax
    <3>2. Up(Append(b, d[1]), x, y)
      BY <1>0, <1>1, <1>3, <1>5, <1>7, <3>1, UpAppend
    <3>3. Taken(Append(b, d[1]), m, y)
      BY <1>3, <3>2 DEF Taken
    <3>4. Going(Tail(w), r.out, y, r.advertised)
      BY <1>4, <1>5 DEF Going
    <3> QED
      BY <1>a, <2>1, <3>3, <3>4
  <2> QED
    BY <2>2, <2>3
<1> QED
  BY <1>6, <1>7

(* Nothing is kept by an end that could find it malformed.                 *)
Idle(s) == s.capsule_buffer = <<>> \/ ~s.entry \/ ~s.is_established \/ s.is_terminated

LEMMA IdleIs ==
    ASSUME NEW e \in End, NEW w, NEW s \in Record, Sound(e, w, s), Orderly(e, s),
           s.running = "no"
    PROVE  Idle(s)
  BY DEF End, Sound, Told, Answered, Orderly, Idle

LEMMA GentleWrite ==
    ASSUME NEW e \in End, NEW w \in Seq(Frame), NEW s \in Record, Sound(e, w, s),
           Orderly(e, s), s.running = "no", NEW f \in Frame, NEW p \in Seq(Capsule),
           \/ s.out = <<>> /\ f.c = <<>> /\ p = <<>>
           \/ s.out # <<>> /\ f.c = <<Head(s.out)>> /\ p = Tail(s.out),
           NEW fin \in BOOLEAN, NEW b \in BOOLEAN
    PROVE  Gentle(e, w, s, Append(w, f), close_if_both_ended(
                     [s EXCEPT !.out = p, !.sent_end = fin, !.end_stream_pending = b]))
<1> DEFINE t == [s EXCEPT !.out = p, !.sent_end = fin, !.end_stream_pending = b]
           v == Append(w, f)
<1>1. t \in Record
  BY RecordIs, WrittenType, Zenon
<1>2. /\ t.advertised = s.advertised /\ t.received_max = s.received_max
      /\ t.capsule_buffer = s.capsule_buffer /\ t.reason = s.reason /\ t.out = p
      /\ t.ready = s.ready /\ t.entry = s.entry /\ t.running = s.running
      /\ t.response = s.response /\ t.is_established = s.is_established
      /\ t.is_terminated = s.is_terminated /\ t.over = s.over /\ t.late = s.late
  BY DEF Record
<1> HIDE DEF t
<1>3. Orderly(e, t) /\ Idle(t) /\ Once(t)
  <2>1. Idle(s) /\ Once(s)
    BY IdleIs DEF Sound, Told
  <2> QED
    BY <1>2, <2>1 DEF Orderly, Idle, Once
<1>4. Gives(e, w, s, v, t)
  <2>0. s.out \in Seq(Capsule) /\ s.advertised \in Nat
    BY RecordFields
  <2>1. CASE s.out = <<>> /\ f.c = <<>> /\ p = <<>>
    <3>1. Gives(e, w, s, v, s)
      BY <2>1, GivesFrame
    <3> QED
      BY <1>2, <2>1, <3>1 DEF Gives
  <2>2. CASE s.out # <<>> /\ f.c = <<Head(s.out)>> /\ p = Tail(s.out)
    <3>1. \A y \in Nat : Going(w, s.out, y, s.advertised) => Going(v, p, y, s.advertised)
      BY <2>0, <2>2, GoingWrite
    <3>2. NoStream(w, s.out) => NoStream(v, p)
      BY <2>0, <2>2, NoStreamWrite
    <3> QED
      BY <1>2, <3>1, <3>2 DEF Gives
  <2> QED
    BY <2>1, <2>2
<1>5. Gentle(e, w, s, v, t)
  BY <1>2, <1>3, <1>4, SameAccepts DEF Gentle
<1>6. Drops(t, close_if_both_ended(t))
  BY <1>1, <1>3, BothEndedDrops
<1>7. Gentle(e, v, t, v, close_if_both_ended(t))
  BY <1>1, <1>3, <1>6, GentleDrops DEF Idle
<1>8. Gentle(e, w, s, v, close_if_both_ended(t))
  BY <1>5, <1>7, GentleTrans
<1> QED
  BY <1>8 DEF t, v

LEMMA GentleAccept ==
    ASSUME NEW w \in Seq(Frame), NEW s \in Record, Sound("server", w, s),
           Orderly("server", s), s.response = "none", s.running = "no",
           NEW f \in Frame, f.c = <<>>
    PROVE  Gentle("server", w, s, Joined(w, f, flushed(s)), accepted(s))
<1> DEFINE q == Joined(w, f, flushed(s))
           t == answered(s)
           u == close_if_both_ended(t)
           v == looping(u)
<1>0. "server" \in End
  BY DEF End
<1>1. t \in Record
  BY AnsweredType
<1>2. /\ t.advertised = s.advertised /\ t.received_max = s.received_max
      /\ t.capsule_buffer = s.capsule_buffer /\ t.reason = s.reason /\ t.out = <<>>
      /\ t.ready = s.ready /\ t.entry = s.entry /\ t.running = s.running
      /\ t.is_terminated = s.is_terminated /\ t.over = s.over /\ t.late = s.late
  BY DEF Record, answered
<1> HIDE DEF t
<1>3. Once(t)
  BY <1>2 DEF Sound, Told, Once
<1>4. Drops(t, u)
  BY <1>1, <1>3, BothEndedDrops
<1>5. /\ u.advertised = s.advertised /\ u.received_max = s.received_max /\ u.out = <<>>
      /\ u.reason = s.reason /\ u \in Record
      /\ u.capsule_buffer = s.capsule_buffer \/ u.capsule_buffer = <<>>
      /\ ~u.entry => u.capsule_buffer = <<>> \/ ~s.entry
  <2>1. u = t \/ u = stream_close(t)
    BY DEF close_if_both_ended
  <2>2. stream_close(t).reason = t.reason
    BY <1>1, <1>3, StreamCloseDrops
  <2>3. u.reason = t.reason
    BY <2>1, <2>2
  <2> HIDE DEF u
  <2> QED
    BY <1>2, <1>4, <2>3 DEF Drops
<1> HIDE DEF u
<1>6. /\ v.advertised = u.advertised /\ v.received_max = u.received_max /\ v.out = u.out
      /\ v.reason = u.reason /\ v.capsule_buffer = u.capsule_buffer /\ v.entry = u.entry
      /\ v.running = IF u.entry THEN "accept" ELSE "no"
  BY <1>5 DEF Record, looping
<1> HIDE DEF v
<1>7. Orderly("server", v)
  <2>1. /\ s.advertised = InitialLimit /\ NoStreams(s.capsule_buffer)
        /\ ~s.entry => s.capsule_buffer = <<>>
        /\ s.reason \in {"none", "app"}
    BY DEF Orderly
  <2>2. NoStreams(v.capsule_buffer) /\ (~v.entry => v.capsule_buffer = <<>>)
    BY <1>5, <1>6, <2>1, NothingInside
  <2> QED
    BY <1>5, <1>6, <2>1, <2>2 DEF Orderly
<1>8. Gives("server", w, s, q, v)
  <2>1. s.out \in Seq(Capsule) /\ s.advertised \in Nat
    BY RecordFields
  <2>2. Flushes(q, w, s.out, Len(w), Len(s.out))
    BY FlushJoins
  <2> HIDE DEF q
  <2>3. \A y \in Nat : Going(w, s.out, y, s.advertised) => Going(q, <<>>, y, s.advertised)
    BY <2>1, <2>2, GoingFlush
  <2> QED
    BY <1>5, <1>6, <2>3 DEF Gives
<1>9. Accepts(s, v)
  <2>1. s.received_max \in Nat
    BY RecordFields
  <2> QED
    BY <1>5, <1>6, <2>1, TakenNothing DEF Accepts
<1>10. Gentle("server", w, s, q, v)
  BY <1>7, <1>8, <1>9 DEF Gentle
<1> QED
  BY <1>10 DEF q, t, u, v, accepted

-----------------------------------------------------------------------------
(* The actions, between two ends of this code.                             *)
LEMMA PeaceNow ==
    ASSUME TypeOK, Inv, Peaceful, foreign = {}, NEW e \in End
    PROVE  /\ e \in End \ foreign /\ h[e] \in Record /\ wire[e] \in Seq(Frame)
           /\ Sound(e, wire[e], h[e]) /\ Once(h[e]) /\ Orderly(e, h[e])
           /\ h[e].running = "no" => Idle(h[e])
<1>1. /\ e \in End \ foreign /\ h[e] \in Record /\ wire[e] \in Seq(Frame)
      /\ Sound(e, wire[e], h[e]) /\ Orderly(e, h[e])
  BY SoundNow DEF Peaceful
<1>2. Once(h[e])
  BY <1>1 DEF Sound, Told
<1>3. h[e].running = "no" => Idle(h[e])
  BY <1>1, IdleIs
<1> QED
  BY <1>1, <1>2, <1>3

(* ... which writes a frame without a capsule,                             *)
LEMMA PeaceQueue ==
    ASSUME TypeOK, Peaceful, foreign = {}, NEW e \in End, NEW t \in Record, Set(e, t),
           NEW f \in Frame, f.c = <<>>, Queue(e, <<f>>),
           Gentle(e, wire[e], h[e], wire[e], t)
    PROVE  Peaceful'
<1>1. h' = [h EXCEPT ![e] = t] /\ wire[e] \in Seq(Frame)
  BY DEF Set, TypeOK
<1>2. wire'[e] = Append(wire[e], f) /\ Wired(Peer(e), wire'[Peer(e)])
  BY QueueIs
<1>3. Gentle(e, wire[e], h[e], Append(wire[e], f), t)
  BY <1>1, GentleFrame
<1>4. Gentle(e, wire[e], h[e], wire'[e], t)
  BY <1>2, <1>3
<1> QED
  BY <1>1, <1>2, <1>4, PeaceStep

LEMMA GentleSettings ==
    ASSUME NEW w, NEW s \in Record, Orderly("client", s)
    PROVE  /\ Gentle("client", w, s, w, [s EXCEPT !.settings = TRUE])
           /\ Gentle("client", w, s, w, [s EXCEPT !.goaway_received = TRUE])
<1> DEFINE t == [s EXCEPT !.settings = TRUE]
           u == [s EXCEPT !.goaway_received = TRUE]
<1>1. /\ t.advertised = s.advertised /\ t.received_max = s.received_max
      /\ t.capsule_buffer = s.capsule_buffer /\ t.reason = s.reason /\ t.out = s.out
      /\ t.ready = s.ready /\ t.entry = s.entry /\ t.running = s.running
      /\ t.response = s.response /\ t.is_established = s.is_established
  BY DEF Record
<1>2. /\ u.advertised = s.advertised /\ u.received_max = s.received_max
      /\ u.capsule_buffer = s.capsule_buffer /\ u.reason = s.reason /\ u.out = s.out
      /\ u.ready = s.ready /\ u.entry = s.entry /\ u.running = s.running
      /\ u.response = s.response /\ u.is_established = s.is_established
  BY DEF Record
<1> HIDE DEF t, u
<1>3. Orderly("client", t) /\ Lessens(s, t)
  BY <1>1 DEF Orderly, Lessens
<1>4. Orderly("client", u) /\ Lessens(s, u)
  BY <1>2 DEF Orderly, Lessens
<1>5. Gentle("client", w, s, w, t) /\ Gentle("client", w, s, w, u)
  BY <1>3, <1>4, GentleLessens
<1> QED
  BY <1>5 DEF t, u

LEMMA SettingsPeace ==
    ASSUME TypeOK, Inv, Peaceful, foreign = {}, RecvSettings \/ RecvGoaway
    PROVE  Peaceful'
<1> DEFINE s == h["client"]
           w == wire["client"]
<1>1. "client" \in End /\ wire' = wire
  BY DEF RecvSettings, RecvGoaway, End
<1>2. s \in Record /\ Orderly("client", s)
  BY <1>1, PeaceNow
<1>3. PICK t : Set("client", t) /\ Gentle("client", w, s, w, t)
  BY <1>2, GentleSettings DEF RecvSettings, RecvGoaway
<1> QED
  BY <1>1, <1>3, PeaceStill

LEMMA ConnectPeace ==
    ASSUME TypeOK, Inv, Peaceful, foreign = {}, Connect
    PROVE  Peaceful'
<1> DEFINE s == h["client"]
           w == wire["client"]
           f == Headers("request", FALSE)
           t == [s EXCEPT !.entry = TRUE, !.opened = TRUE, !.reader = TRUE,
                          !.received_max = InitialLimit]
<1>1. /\ "client" \in End /\ s.running = "no" /\ ~s.opened
      /\ Queue("client", <<f>>) /\ Set("client", t)
  BY DEF Connect, Ours, End
<1>2. s \in Record /\ Orderly("client", s) /\ Sound("client", w, s)
  BY <1>1, PeaceNow
<1>3. Gentle("client", w, s, w, t)
  BY <1>1, <1>2, GentleConnect
<1>4. t \in Record
  BY <1>1, <1>2, ConnectSound
<1>5. f \in Frame /\ f.c = <<>>
  BY HeadersType
<1> HIDE DEF t, f
<1> QED
  BY <1>1, <1>3, <1>4, <1>5, PeaceQueue

LEMMA AcceptPeace ==
    ASSUME TypeOK, Inv, Peaceful, foreign = {}, AcceptSession
    PROVE  Peaceful'
<1> DEFINE s == h["server"]
           w == wire["server"]
           f == Headers("ok", FALSE)
           v == accepted(s)
           q == Joined(w, f, flushed(s))
<1>1. "server" \in End /\ s.running = "no" /\ s.response = "none"
  BY DEF AcceptSession, Ours, End
<1>2. Queue("server", <<f>> \o flushed(s)) /\ Set("server", v)
  BY DEF AcceptSession, accepted, looping, answered
<1>3. s \in Record /\ Orderly("server", s) /\ Sound("server", w, s) /\ w \in Seq(Frame)
  BY <1>1, PeaceNow
<1>4. f \in Frame /\ f.c = <<>>
  BY HeadersType
<1> HIDE DEF f
<1>5. Gentle("server", w, s, q, v)
  BY <1>1, <1>3, <1>4, GentleAccept
<1> HIDE DEF v
<1>6. wire'["server"] = q /\ Wired(Peer("server"), wire'[Peer("server")])
  <2>1. Peer("server") \in End /\ Peer("server") # "server"
    BY DEF Peer, End
  <2>2. wire' = [wire EXCEPT !["server"] = q]
    BY <1>2 DEF Queue, Joined
  <2> HIDE DEF q
  <2> QED
    BY <1>1, <2>1, <2>2 DEF TypeOK, Wired
<1> HIDE DEF q
<1>7. Gentle("server", w, s, wire'["server"], v) /\ h' = [h EXCEPT !["server"] = v]
  BY <1>2, <1>5, <1>6 DEF Set
<1> QED
  BY <1>1, <1>6, <1>7, PeaceStep

LEMMA RejectPeace ==
    ASSUME TypeOK, Inv, Peaceful, foreign = {}, NEW erase \in BOOLEAN, RejectSession(erase)
    PROVE  Peaceful'
<1> DEFINE s == h["server"]
           w == wire["server"]
           f == Headers(IF erase THEN "refused" ELSE "ok", TRUE)
           t == refuse(s, erase)
<1>1. /\ "server" \in End /\ s.running = "no" /\ s.opened
      /\ Queue("server", <<f>>) /\ Set("server", t)
  BY DEF RejectSession, Ours, End
<1>2. s \in Record /\ Orderly("server", s) /\ Sound("server", w, s)
  BY <1>1, PeaceNow
<1>3. Gentle("server", w, s, w, t)
  BY <1>1, <1>2, GentleRefuse
<1>4. t \in Record
  BY <1>1, <1>2, RefuseSound
<1>5. f \in Frame /\ f.c = <<>>
  <2>1. (IF erase THEN "refused" ELSE "ok") \in {"request", "ok", "refused"}
    OBVIOUS
  <2> QED
    BY <2>1, HeadersType
<1> HIDE DEF t, f
<1> QED
  BY <1>1, <1>3, <1>4, <1>5, PeaceQueue

LEMMA SendsPeace ==
    ASSUME TypeOK, Inv, Peaceful, foreign = {}, NEW e \in End,
           SendDatagram(e) \/ DrainSession(e) \/ SendStreamData(e)
    PROVE  Peaceful'
<1> DEFINE s == h[e]
<1>1. PICK k \in {"DATAGRAM", "DRAIN", "STREAM"} :
         /\ k = "STREAM" => s.is_established
         /\ Sends(e, send_capsule(s, Plain(k)))
  BY DEF SendDatagram, DrainSession, SendStreamData
<1>2. wire' = wire /\ Set(e, send_capsule(s, Plain(k)))
  BY <1>1 DEF Sends
<1>3. s \in Record /\ Orderly(e, s)
  BY PeaceNow
<1>4. Plain(k) \in Capsule /\ Plain(k).k = k
  BY LimitPlain DEF Kind, Plain
<1>5. Fair(Plain(k)) /\ Plain(k).k # "MAX"
  BY <1>4 DEF Fair
<1>6. Plain(k).k = "STREAM" => e # "client" \/ s.ready # 0
  BY <1>1, <1>3, <1>4 DEF Orderly
<1>7. Gentle(e, wire[e], s, wire[e], send_capsule(s, Plain(k)))
  BY <1>3, <1>4, <1>5, <1>6, GentleSend
<1> QED
  BY <1>2, <1>7, PeaceStill

LEMMA ClosePeace ==
    ASSUME TypeOK, Inv, Peaceful, foreign = {}, NEW e \in End, CloseSession(e)
    PROVE  Peaceful'
<1>1. h[e].entry /\ Set(e, close_session(h[e], "app")) /\ wire' = wire
  BY DEF CloseSession
<1>2. h[e] \in Record /\ Orderly(e, h[e])
  BY PeaceNow
<1>3. Gentle(e, wire[e], h[e], wire[e], close_session(h[e], "app"))
  BY <1>1, <1>2, GentleClose
<1> QED
  BY <1>1, <1>3, PeaceStill

LEMMA OneChunk ==
    ASSUME NEW o \in Seq(Capsule)
    PROVE  LET n == IF o = <<>> THEN 0 ELSE 1
               c == SubSeq(o, 1, n)
               p == SubSeq(o, n + 1, Len(o))
           IN  /\ c \in Seq(Capsule) /\ p \in Seq(Capsule)
               /\ \/ o = <<>> /\ c = <<>> /\ p = <<>>
                  \/ o # <<>> /\ c = <<Head(o)>> /\ p = Tail(o)
<1> DEFINE n == IF o = <<>> THEN 0 ELSE 1
           c == SubSeq(o, 1, n)
           p == SubSeq(o, n + 1, Len(o))
<1>1. CASE o = <<>>
  <2>1. c = <<>> /\ p = <<>> /\ <<>> \in Seq(Capsule)
    BY <1>1
  <2> QED
    BY <1>1, <2>1
<1>2. CASE o # <<>>
  <2>1. c \in Seq(Capsule) /\ c # <<>> /\ Len(c) <= 1 /\ c[1] = Head(o)
    BY <1>2
  <2>2. p = Tail(o) /\ Tail(o) \in Seq(Capsule)
    BY <1>2, Tails
  <2> HIDE DEF c, p
  <2>3. c = <<Head(o)>>
    BY <2>1, OneElement
  <2>4. /\ c \in Seq(Capsule) /\ p \in Seq(Capsule)
        /\ o # <<>> /\ c = <<Head(o)>> /\ p = Tail(o)
    BY <1>2, <2>1, <2>2, <2>3
  <2> QED
    BY <2>4 DEF c, p
<1> QED
  BY <1>1, <1>2

LEMMA WritePeace ==
    ASSUME TypeOK, Inv, Peaceful, foreign = {}, NEW e \in End, Write(e)
    PROVE  Peaceful'
<1> DEFINE s == h[e]
           w == wire[e]
           fin == s.end_stream_pending /\ Len(s.out) <= 1
           n == IF s.out = <<>> THEN 0 ELSE 1
           c == SubSeq(s.out, 1, n)
           p == SubSeq(s.out, n + 1, Len(s.out))
           b == s.end_stream_pending /\ ~fin
           t == close_if_both_ended(
                   [s EXCEPT !.out = p, !.sent_end = fin, !.end_stream_pending = b])
<1>1. s.running = "no" /\ Queue(e, <<Data(c, fin)>>) /\ Set(e, t)
  BY DEF Write, Ours
<1>2. s \in Record /\ Orderly(e, s) /\ Sound(e, w, s) /\ w \in Seq(Frame)
  BY PeaceNow
<1>3. s.out \in Seq(Capsule) /\ fin \in BOOLEAN /\ b \in BOOLEAN
  BY <1>2, RecordFields
<1>4. /\ c \in Seq(Capsule) /\ p \in Seq(Capsule)
      /\ \/ s.out = <<>> /\ c = <<>> /\ p = <<>>
         \/ s.out # <<>> /\ c = <<Head(s.out)>> /\ p = Tail(s.out)
  BY <1>3, OneChunk
<1> HIDE DEF n, c, p, fin, b
<1>5. Data(c, fin) \in Frame /\ Data(c, fin).c = c
  BY <1>3, <1>4, DataType
<1>6. Gentle(e, w, s, Append(w, Data(c, fin)), t)
  BY <1>1, <1>2, <1>3, <1>4, <1>5, GentleWrite
<1> HIDE DEF t
<1>7. wire'[e] = Append(w, Data(c, fin)) /\ Wired(Peer(e), wire'[Peer(e)])
  BY <1>1, <1>5, QueueIs
<1>8. Gentle(e, w, s, wire'[e], t) /\ h' = [h EXCEPT ![e] = t]
  BY <1>1, <1>6, <1>7 DEF Set
<1> QED
  BY <1>7, <1>8, PeaceStep

LEMMA WriteRstPeace ==
    ASSUME TypeOK, Inv, Peaceful, foreign = {}, NEW e \in End, WriteRst(e)
    PROVE  Peaceful'
<1>1. h[e].running = "no" /\ Queue(e, <<Rst>>) /\ Set(e, stream_close(h[e]))
  BY DEF WriteRst, Ours
<1>2. h[e] \in Record /\ Once(h[e]) /\ Orderly(e, h[e]) /\ Idle(h[e])
  BY <1>1, PeaceNow
<1>3. Drops(h[e], stream_close(h[e]))
  BY <1>2, StreamCloseDrops
<1>4. Gentle(e, wire[e], h[e], wire[e], stream_close(h[e]))
  BY <1>2, <1>3, GentleDrops DEF Idle
<1>5. Rst \in Frame /\ Rst.c = <<>>
  BY RstType
<1>6. stream_close(h[e]) \in Record
  BY <1>3 DEF Drops
<1> QED
  BY <1>1, <1>4, <1>5, <1>6, PeaceQueue

LEMMA RecvRequestPeace ==
    ASSUME TypeOK, Inv, Peaceful, foreign = {}, RecvRequest
    PROVE  Peaceful'
<1> DEFINE s == h["server"]
           w == wire["server"]
           r == [push_ready(s) EXCEPT !.entry = TRUE, !.opened = TRUE,
                                      !.received_max = InitialLimit]
           t == ended("server", r)
<1>0. "server" \in End
  BY DEF End
<1>1. Reads("server", {"request"}) /\ Took("server") /\ Set("server", t)
  BY DEF RecvRequest
<1>2. /\ "server" \in End \ foreign /\ wire[Peer("server")] # <<>>
      /\ Header(Next1("server"))
  BY <1>0, <1>1, ReadsIs DEF Header
<1>3. s \in Record /\ Orderly("server", s) /\ Sound("server", w, s)
  BY <1>0, PeaceNow
<1>4. ~s.opened
  BY <1>2, HeadersRead DEF Meets
<1>5. Gentle("server", w, s, w, r) /\ r.capsule_buffer = <<>>
  BY <1>3, <1>4, GentleRequest
<1>6. r \in Record /\ Sound("server", w, r)
  BY <1>3, <1>4, RequestSound
<1> HIDE DEF r
<1>7. Once(r) /\ Orderly("server", r)
  BY <1>5, <1>6 DEF Sound, Told, Gentle
<1>8. Gentle("server", w, r, w, t)
  BY <1>0, <1>5, <1>6, <1>7, GentleEnded
<1> HIDE DEF t
<1>9. Gentle("server", w, s, w, t)
  BY <1>5, <1>8, GentleTrans
<1> QED
  BY <1>0, <1>1, <1>2, <1>9, PeaceTook

LEMMA RecvOkPeace ==
    ASSUME TypeOK, Inv, Peaceful, foreign = {}, RecvOk
    PROVE  Peaceful'
<1> DEFINE s == h["client"]
           w == wire["client"]
           r == established(s)
           t == ended("client", r)
<1>0. "client" \in End
  BY DEF End
<1>1. Reads("client", {"ok"}) /\ Took("client") /\ Set("client", t) /\ s.running = "no"
  BY DEF RecvOk, Reads, Ours
<1>2. /\ "client" \in End \ foreign /\ wire[Peer("client")] # <<>>
      /\ Header(Next1("client"))
  BY <1>0, <1>1, ReadsIs DEF Header
<1>3. s \in Record /\ Orderly("client", s) /\ Sound("client", w, s)
  BY <1>0, PeaceNow
<1>4. s.ready = 0
  BY <1>2, HeadersRead DEF Meets
<1>5. Gentle("client", w, s, w, r)
  BY <1>3, <1>4, GentleEstablished
<1>6. r \in Record /\ Sound("client", w, r)
  BY <1>3, <1>4, EstablishedSound
<1>7. r.running = "no"
  <2>1. CASE ~s.entry
    BY <1>1, <2>1 DEF established
  <2>2. CASE s.entry
    BY <1>1, <1>3, <2>2 DEF established, send_initial_limits, send_capsule, push_ready,
                            push_event, Record
  <2> QED
    BY <2>1, <2>2
<1> HIDE DEF r
<1>8. Once(r) /\ Orderly("client", r)
  BY <1>5, <1>6 DEF Sound, Told, Gentle
<1>9. Idle(r)
  BY <1>0, <1>6, <1>7, <1>8, IdleIs
<1>10. Gentle("client", w, r, w, t)
  BY <1>0, <1>6, <1>8, <1>9, GentleEnded DEF Idle
<1> HIDE DEF t
<1>11. Gentle("client", w, s, w, t)
  BY <1>5, <1>10, GentleTrans
<1> QED
  BY <1>0, <1>1, <1>2, <1>11, PeaceTook

LEMMA RefusePeace ==
    ASSUME TypeOK, Inv, Peaceful, foreign = {}, RefuseRequest \/ RecvDataRejected
    PROVE  Peaceful'
<1> DEFINE s == h["server"]
           f == Headers("refused", TRUE)
           w == wire["server"]
<1>0. "server" \in End /\ Peer("server") = "client"
  BY DEF End, Peer
<1>1. PICK types : Reads("server", types)
  BY DEF RefuseRequest, RecvDataRejected
<1>2. /\ "server" \in End \ foreign /\ wire["client"] # <<>> /\ s.running = "no"
      /\ Orderly("server", s) /\ s \in Record /\ Sound("server", w, s) /\ w \in Seq(Frame)
  BY <1>0, <1>1, ReadsIs, PeaceNow DEF Reads, Ours
<1>3. f \in Frame /\ f.c = <<>>
  BY HeadersType
<1>4. wire' = [wire EXCEPT !["client"] = Tail(@), !["server"] = Append(@, f)]
  BY DEF RefuseRequest, RecvDataRejected
<1>5. PICK r \in Record :
         /\ Sound("server", w, r) /\ r.opened /\ r.running = "no" /\ Orderly("server", r)
         /\ Gentle("server", w, s, w, r)
         /\ Set("server", ended("server", refuse(r, TRUE)))
  <2>1. CASE RefuseRequest
    <3> DEFINE r == [s EXCEPT !.opened = TRUE]
    <3>1. Header(Next1("server"))
      BY <1>0, <2>1, ReadsIs DEF RefuseRequest, Header
    <3>2. ~s.opened
      BY <1>0, <1>2, <3>1, HeadersRead DEF Meets
    <3>3. r \in Record /\ Sound("server", w, r) /\ r.opened
      BY <1>2, <3>2, OpenedSound
    <3>4. r.running = s.running
      BY <1>2 DEF Record
    <3>5. Set("server", ended("server", refuse(r, TRUE)))
      BY <2>1 DEF RefuseRequest
    <3>6. Gentle("server", w, s, w, r)
      BY <1>2, GentleOpened
    <3> HIDE DEF r
    <3>7. Orderly("server", r)
      BY <3>6 DEF Gentle
    <3> QED
      BY <1>2, <3>3, <3>4, <3>5, <3>6, <3>7
  <2>2. CASE RecvDataRejected
    <3>1. s.entry /\ Set("server", ended("server", refuse(s, TRUE)))
      BY <2>2 DEF RecvDataRejected
    <3>2. s.opened
      BY <1>2, <3>1 DEF Sound, Told, Fresh
    <3>3. Gentle("server", w, s, w, s)
      BY <1>2, GentleRefl
    <3> QED
      BY <1>2, <3>1, <3>2, <3>3
  <2> QED
    BY <2>1, <2>2
<1> DEFINE u == refuse(r, TRUE)
           t == ended("server", u)
<1>6. Gentle("server", w, r, w, u) /\ u.capsule_buffer = <<>>
  BY <1>5, GentleRefuse
<1>7. u \in Record /\ Sound("server", w, u)
  BY <1>5, RefuseSound
<1>a. Set("server", t)
  BY <1>5
<1> HIDE DEF u
<1>8. Once(u) /\ Orderly("server", u)
  BY <1>6, <1>7 DEF Sound, Told, Gentle
<1>9. Gentle("server", w, u, w, t)
  BY <1>0, <1>6, <1>7, <1>8, GentleEnded
<1>10. Keeps("server", w, u, t)
  BY <1>0, <1>7, KeepsEnded
<1> HIDE DEF t, f
<1>11. Gentle("server", w, s, w, u)
  BY <1>5, <1>6, GentleTrans
<1>12. Gentle("server", w, s, w, t) /\ t \in Record
  BY <1>9, <1>10, <1>11, GentleTrans DEF Keeps
<1>13. Gentle("server", w, s, Append(w, f), t)
  BY <1>2, <1>3, <1>12, GentleFrame
<1>14. wire'["server"] = Append(w, f) /\ Wired(Peer("server"), wire'[Peer("server")])
  BY <1>2, <1>3, <1>4, AnswerIs
<1>15. Gentle("server", w, s, wire'["server"], t) /\ h' = [h EXCEPT !["server"] = t]
  BY <1>a, <1>13, <1>14 DEF Set
<1> QED
  BY <1>0, <1>14, <1>15, PeaceStep

LEMMA RecvRefusedPeace ==
    ASSUME TypeOK, Inv, Peaceful, foreign = {}, RecvRefused
    PROVE  Peaceful'
<1> DEFINE s == h["client"]
           w == wire["client"]
           r == [push_over(s) EXCEPT !.entry = FALSE, !.is_established = FALSE,
                                     !.is_terminated = FALSE]
           t == IF s.entry THEN r ELSE s
<1>0. "client" \in End
  BY DEF End
<1>1. /\ Reads("client", {"refused"}) /\ Took("client") /\ s.running = "no"
      /\ Set("client", ended("client", t))
  BY DEF RecvRefused, Reads, Ours
<1>2. wire[Peer("client")] # <<>>
  BY <1>0, <1>1, ReadsIs
<1>3. s \in Record /\ Orderly("client", s) /\ Sound("client", w, s) /\ Idle(s)
  BY <1>0, <1>1, PeaceNow
<1>4. s.entry => Gentle("client", w, s, w, r) /\ Keeps("client", w, s, r) /\ ~r.entry
  <2>1. s.entry => Gentle("client", w, s, w, r) /\ ~r.entry
    BY <1>1, <1>3, GentleRefused
  <2>2. s.entry => Keeps("client", w, s, r)
    BY <1>0, <1>3, RefusedKeeps
  <2> QED
    BY <2>1, <2>2
<1> HIDE DEF r
<1>5. Gentle("client", w, s, w, t) /\ t \in Record /\ Sound("client", w, t) /\ Idle(t)
  <2>1. CASE s.entry
    BY <1>4, <2>1 DEF Keeps, Idle
  <2>2. CASE ~s.entry
    BY <1>3, <2>2, GentleRefl
  <2> QED
    BY <2>1, <2>2
<1> HIDE DEF t
<1>6. Once(t) /\ Orderly("client", t)
  BY <1>5 DEF Sound, Told, Gentle
<1>7. Gentle("client", w, t, w, ended("client", t))
  BY <1>0, <1>5, <1>6, GentleEnded DEF Idle
<1>8. Gentle("client", w, s, w, ended("client", t))
  BY <1>5, <1>7, GentleTrans
<1> QED
  BY <1>0, <1>1, <1>2, <1>8, PeaceTook

LEMMA RecvDroppedPeace ==
    ASSUME TypeOK, Inv, Peaceful, foreign = {}, NEW e \in End, RecvDataDropped(e)
    PROVE  Peaceful'
<1>1. Reads(e, {"data"}) /\ Took(e) /\ Set(e, ended(e, h[e])) /\ h[e].running = "no"
  BY DEF RecvDataDropped, Reads, Ours
<1>2. wire[Peer(e)] # <<>>
  BY <1>1, ReadsIs
<1>3. h[e] \in Record /\ Orderly(e, h[e]) /\ Once(h[e]) /\ Idle(h[e])
  BY <1>1, PeaceNow
<1>4. Gentle(e, wire[e], h[e], wire[e], ended(e, h[e]))
  BY <1>3, GentleEnded DEF Idle
<1> QED
  BY <1>1, <1>2, <1>4, PeaceTook

LEMMA RecvRstPeace ==
    ASSUME TypeOK, Inv, Peaceful, foreign = {}, NEW e \in End, RecvRst(e)
    PROVE  Peaceful'
<1>1. Reads(e, {"rst"}) /\ Took(e) /\ Set(e, stream_close(h[e])) /\ h[e].running = "no"
  BY DEF RecvRst, Reads, Ours
<1>2. wire[Peer(e)] # <<>>
  BY <1>1, ReadsIs
<1>3. h[e] \in Record /\ Orderly(e, h[e]) /\ Once(h[e]) /\ Idle(h[e])
  BY <1>1, PeaceNow
<1>4. Drops(h[e], stream_close(h[e]))
  BY <1>3, StreamCloseDrops
<1>5. Gentle(e, wire[e], h[e], wire[e], stream_close(h[e]))
  BY <1>3, <1>4, GentleDrops DEF Idle
<1> QED
  BY <1>1, <1>2, <1>5, PeaceTook

LEMMA DropFramePeace ==
    ASSUME TypeOK, Inv, Peaceful, foreign = {}, NEW e \in End, DropFrame(e)
    PROVE  Peaceful'
<1>1. wire[Peer(e)] # <<>> /\ Took(e) /\ h' = h
  BY DEF DropFrame
<1>2. Set(e, h[e])
  BY <1>1 DEF Set, TypeOK
<1>3. Orderly(e, h[e])
  BY PeaceNow
<1>4. Gentle(e, wire[e], h[e], wire[e], h[e])
  BY <1>3, GentleRefl
<1> QED
  BY <1>1, <1>2, <1>4, PeaceTook

LEMMA TakenNow ==
    ASSUME Peaceful, foreign = {}, NEW e \in End
    PROVE  \E n \in Nat : Taken(h[e].capsule_buffer, h[e].received_max, n)
  BY DEF Peaceful, Flight

LEMMA RecvDataPeace ==
    ASSUME TypeOK, Inv, Peaceful, foreign = {}, NEW e \in End, RecvData(e)
    PROVE  Peaceful'
<1> DEFINE s == h[e]
           w == wire[e]
           p == Peer(e)
           b == s.capsule_buffer \o Next1(e).c
           x == IF Next1(e).fin THEN "data_fin" ELSE "data"
           t == [s EXCEPT !.capsule_buffer = b, !.running = x]
<1>1. /\ Reads(e, {"data"}) /\ Took(e) /\ Set(e, t)
      /\ s.entry /\ ~s.is_terminated /\ s.is_established
  BY DEF RecvData
<1>2. wire[p] # <<>> /\ h[p] \in Record /\ wire[p] \in Seq(Frame)
  BY <1>1, ReadsIs, PeaceNow, PeerIs
<1>3. s \in Record /\ Orderly(e, s) /\ Sound(e, w, s)
  BY PeaceNow
<1>4. x # "no" /\ x # "accept"
  OBVIOUS
<1> HIDE DEF x
<1>5. /\ t.advertised = s.advertised /\ t.received_max = s.received_max
      /\ t.capsule_buffer = b /\ t.reason = s.reason /\ t.out = s.out
      /\ t.ready = s.ready /\ t.entry = s.entry /\ t.running = x
      /\ t.response = s.response /\ t.is_established = s.is_established
  BY <1>3 DEF Record
<1> HIDE DEF t
<1>6. Orderly(e, t)
  BY <1>1, <1>3, <1>4, <1>5 DEF Orderly, Sound, Told, Answered
<1>7. Gives(e, w, s, w, t)
  BY <1>5 DEF Gives
<1>8. Flight(t, Tail(wire[p]), h[p])
  <2>1. Flight(s, wire[p], h[p])
    BY DEF Peaceful
  <2>2. b = s.capsule_buffer \o Head(wire[p]).c
    BY DEF Next1
  <2> HIDE DEF s, p, b
  <2> QED
    BY <1>2, <1>3, <1>5, <2>1, <2>2, FlightTaken
<1>9. wire'[e] = w /\ wire'[p] = Tail(wire[p]) /\ Wired(p, wire'[p])
  BY <1>1, <1>2, TookIs
<1>10. h' = [h EXCEPT ![e] = t] /\ Gives(e, w, s, wire'[e], t) /\ Flight(t, wire'[p], h[p])
  BY <1>1, <1>7, <1>8, <1>9 DEF Set
<1> QED
  BY <1>6, <1>9, <1>10, PeaceBase

LEMMA NoStreamsAdded ==
    ASSUME NEW b \in Seq(Capsule), NEW d \in Seq(Capsule), NoStreams(b), Len(d) <= 1,
           d # <<>> => d[1].k # "STREAM"
    PROVE  NoStreams(b \o d)
<1>1. CASE d = <<>>
  <2>1. b \o d = b
    BY <1>1
  <2> QED
    BY <2>1
<1>2. CASE d # <<>>
  <2>1. d = <<d[1]>> /\ d[1].k # "STREAM"
    BY <1>2, OneElement
  <2>2. b \o <<d[1]>> = Append(b, d[1])
    OBVIOUS
  <2>3. \A i \in DOMAIN Append(b, d[1]) :
           (i \in DOMAIN b /\ Append(b, d[1])[i] = b[i]) \/ Append(b, d[1])[i] = d[1]
    OBVIOUS
  <2>4. NoStreams(Append(b, d[1]))
    BY <2>1, <2>3 DEF NoStreams
  <2> QED
    BY <2>1, <2>2, <2>4
<1> QED
  BY <1>1, <1>2

(* A server that has not answered is sent no stream: its client waits.     *)
LEMMA PendingStreams ==
    ASSUME TypeOK, Inv, Peaceful, foreign = {}, h["server"].response = "none",
           wire["client"] # <<>>
    PROVE  LET d == Head(wire["client"]).c
           IN  d \in Seq(Capsule) /\ Len(d) <= 1 /\ (d # <<>> => d[1].k # "STREAM")
<1> DEFINE w == wire["client"]
<1>0. /\ "server" \in End /\ "client" \in End /\ Peer("server") = "client"
      /\ w \in Seq(Frame)
  BY DEF End, Peer, TypeOK
<1>1. h["client"].ready = 0
  <2>1. ~Began("server")
    BY DEF Began
  <2>2. ~Met(Peer("server"))
    BY <1>0, <2>1 DEF Inv, HeadersOnce
  <2> QED
    BY <1>0, <2>2 DEF Met
<1>2. NoStream(w, h["client"].out)
  BY <1>1 DEF Peaceful
<1>3. 1 \in DOMAIN w /\ w[1] = Head(w) /\ Head(w) \in Frame
  BY <1>0
<1>4. Flight(h["server"], w, h["client"])
  BY <1>0 DEF Peaceful
<1> HIDE DEF w
<1>5. Len(w[1].c) <= 1
  BY <1>3, <1>4 DEF Flight, Going, UpFrames
<1>6. w[1].c # <<>> => w[1].c[1].k # "STREAM"
  BY <1>2, <1>3 DEF NoStream
<1>7. Head(w).c \in Seq(Capsule)
  BY <1>3 DEF Frame
<1> QED
  BY <1>3, <1>5, <1>6, <1>7 DEF w

LEMMA RecvPendingPeace ==
    ASSUME TypeOK, Inv, Peaceful, foreign = {}, RecvDataPending
    PROVE  Peaceful'
<1> DEFINE s == h["server"]
           w == wire["server"]
           q == wire["client"]
           d == Head(q).c
           b == s.capsule_buffer \o d
           r == [s EXCEPT !.capsule_buffer = b]
           t == ended("server", r)
<1>0. "server" \in End /\ "client" \in End /\ Peer("server") = "client"
  BY DEF End, Peer
<1>1. /\ Reads("server", {"data"}) /\ Took("server") /\ Set("server", t) /\ s.running = "no"
      /\ s.entry /\ ~s.is_terminated /\ ~s.is_established
  BY <1>0 DEF RecvDataPending, Reads, Ours, Next1
<1>2. q # <<>> /\ h["client"] \in Record /\ q \in Seq(Frame)
  BY <1>0, <1>1, ReadsIs, PeaceNow
<1>3. s \in Record /\ Orderly("server", s) /\ Sound("server", w, s) /\ Once(s)
  BY <1>0, PeaceNow
<1>4. s.response = "none"
  BY <1>1, <1>3 DEF Sound, Told, Answered
<1>5. d \in Seq(Capsule) /\ Len(d) <= 1 /\ (d # <<>> => d[1].k # "STREAM")
  BY <1>2, <1>4, PendingStreams
<1>6. s.capsule_buffer \in Seq(Capsule) /\ NoStreams(s.capsule_buffer)
  BY <1>3, <1>4, RecordFields DEF Orderly
<1>7. NoStreams(b) /\ b \in Seq(Capsule)
  <2> HIDE DEF d
  <2>1. s.capsule_buffer \o d \in Seq(Capsule)
    BY <1>5, <1>6, Concat
  <2> QED
    BY <1>5, <1>6, <2>1, NoStreamsAdded
<1>8. Flight(s, q, h["client"])
  BY <1>0 DEF Peaceful
<1>9. /\ r.advertised = s.advertised /\ r.received_max = s.received_max
      /\ r.capsule_buffer = b /\ r.reason = s.reason /\ r.out = s.out
      /\ r.ready = s.ready /\ r.entry = s.entry /\ r.running = s.running
      /\ r.response = s.response /\ r.is_established = s.is_established
      /\ r.over = s.over /\ r.late = s.late
  BY <1>3 DEF Record
<1>10. r \in Record
  <2> HIDE DEF b
  <2> QED
    BY <1>3, <1>7, RecordIs, KeptType, Zenon
<1>11. Flight(r, Tail(q), h["client"])
  <2>1. b = s.capsule_buffer \o Head(q).c
    OBVIOUS
  <2> HIDE DEF s, q, b, r
  <2> QED
    BY <1>2, <1>3, <1>8, <1>9, <2>1, FlightTaken
<1> HIDE DEF r, b, d
<1>12. Orderly("server", r) /\ Once(r)
  BY <1>1, <1>3, <1>4, <1>7, <1>9 DEF Orderly, Once
<1>13. Gentle("server", w, r, w, t)
  BY <1>0, <1>1, <1>9, <1>10, <1>12, GentleEnded
<1> HIDE DEF t
<1>14. Gives("server", w, s, w, r)
  BY <1>9 DEF Gives
<1>15. Orderly("server", t) /\ Gives("server", w, s, w, t)
  BY <1>13, <1>14 DEF Gentle, Gives
<1>16. Flight(t, Tail(q), h["client"])
  BY <1>11, <1>13, FlightAccepted DEF Gentle
<1>17. wire'["server"] = w /\ wire'["client"] = Tail(q) /\ Wired("client", wire'["client"])
  BY <1>0, <1>1, <1>2, TookIs
<1>18. /\ h' = [h EXCEPT !["server"] = t] /\ Gives("server", w, s, wire'["server"], t)
       /\ Flight(t, wire'[Peer("server")], h[Peer("server")])
       /\ Wired(Peer("server"), wire'[Peer("server")])
  BY <1>0, <1>1, <1>15, <1>16, <1>17 DEF Set
<1> QED
  BY <1>0, <1>15, <1>18, PeaceBase

LEMMA ProcessCapsulePeace ==
    ASSUME TypeOK, Inv, Peaceful, foreign = {}, NEW e \in End, ProcessCapsule(e)
    PROVE  Peaceful'
<1> DEFINE s == h[e]
           t == process_capsule([s EXCEPT !.capsule_buffer = Tail(s.capsule_buffer)],
                                Head(s.capsule_buffer))
<1>1. /\ s.running # "no" /\ s.entry /\ s.capsule_buffer # <<>>
      /\ Set(e, t) /\ wire' = wire
  BY DEF ProcessCapsule, LoopGoesOn
<1>2. s \in Record /\ Orderly(e, s) /\ Sound(e, wire[e], s)
  BY PeaceNow
<1>3. PICK n \in Nat : Taken(s.capsule_buffer, s.received_max, n)
  BY TakenNow
<1>4. Gentle(e, wire[e], s, wire[e], t)
  BY <1>1, <1>2, <1>3, GentleCapsule
<1> HIDE DEF t
<1> QED
  BY <1>1, <1>4, PeaceStill

LEMMA LoopEndsPeace ==
    ASSUME TypeOK, Inv, Peaceful, foreign = {}, NEW e \in End, LoopEnds(e)
    PROVE  Peaceful'
<1> DEFINE s == h[e]
           w == wire[e]
           t == [s EXCEPT !.running = "no",
                          !.capsule_buffer = IF s.is_terminated THEN <<>> ELSE @]
           u == CASE s.running = "data" -> t
                  [] s.running = "data_fin" -> remote_end_stream(e, t)
                  [] s.running = "accept" ->
                       IF ~s.entry \/ s.is_terminated THEN t
                       ELSE IF s.pre_accept_end_stream
                            THEN terminate_pre_accept_end_stream_session(t)
                       ELSE send_initial_limits(t)
<1>1. s.running # "no" /\ ~LoopGoesOn(s) /\ Set(e, u) /\ wire' = wire
  BY DEF LoopEnds
<1>2. s \in Record /\ Orderly(e, s) /\ Sound(e, w, s)
  BY PeaceNow
<1>3. PICK n \in Nat : Taken(s.capsule_buffer, s.received_max, n)
  BY TakenNow
<1>4. /\ Gentle(e, w, s, w, t)
      /\ Gentle(e, w, s, w, remote_end_stream(e, t))
      /\ s.running = "accept" /\ s.entry =>
            /\ Gentle(e, w, s, w, terminate_pre_accept_end_stream_session(t))
            /\ Gentle(e, w, s, w, send_initial_limits(t))
  BY <1>1, <1>2, <1>3, GentleLoopEnds
<1> HIDE DEF t
<1>5. s.running \in {"data", "data_fin", "accept"}
  BY <1>1, <1>2, RecordFields DEF Running
<1>6. Gentle(e, w, s, w, u)
  <2>1. CASE s.running = "data"
    BY <1>4, <2>1
  <2>2. CASE s.running = "data_fin"
    BY <1>4, <2>2
  <2>3. CASE s.running = "accept"
    BY <1>4, <2>3
  <2> QED
    BY <1>5, <2>1, <2>2, <2>3
<1> HIDE DEF u
<1> QED
  BY <1>1, <1>6, PeaceStill

LEMMA InitPeace ==
    ASSUME Init
    PROVE  Peaceful
<1>1. /\ ~Blank.entry /\ ~Blank.is_established /\ Blank.out = <<>>
      /\ Blank.capsule_buffer = <<>> /\ Blank.running = "no" /\ Blank.response = "none"
      /\ Blank.ready = 0 /\ Blank.reason = "none" /\ Blank.received_max = 0
      /\ Blank.advertised = InitialLimit
  BY DEF Blank
<1>2. \A e \in End : h[e] = Blank /\ wire[e] = <<>> /\ Peer(e) \in End
  BY PeerIs DEF Init
<1>3. \A e \in End : Orderly(e, Blank)
  BY <1>1, NothingInside DEF Orderly
<1>4. Flight(Blank, <<>>, Blank)
  <2>1. InitialLimit \in Nat /\ 0 <= InitialLimit /\ InitialLimit <= InitialLimit
    BY LifecycleAssumption
  <2>2. UpFrames(<<>>, InitialLimit, InitialLimit)
    BY DEF UpFrames
  <2>3. Going(<<>>, <<>>, InitialLimit, InitialLimit)
    BY <2>1, <2>2, UpEmpty DEF Going
  <2>4. Taken(<<>>, 0, InitialLimit)
    BY <2>1, UpEmpty DEF Taken
  <2> QED
    BY <1>1, <2>1, <2>3, <2>4 DEF Flight
<1>5. NoStream(<<>>, <<>>)
  BY DEF NoStream, NoStreams
<1>6. \A e \in End : Flight(h[e], wire[Peer(e)], h[Peer(e)]) /\ Orderly(e, h[e])
  BY <1>2, <1>3, <1>4
<1>7. NoStream(wire["client"], h["client"].out)
  BY <1>1, <1>2, <1>5 DEF End
<1> QED
  BY <1>6, <1>7 DEF Peaceful

LEMMA StutterPeace ==
    ASSUME Peaceful, UNCHANGED vars
    PROVE  Peaceful'
<1>1. h' = h /\ wire' = wire /\ foreign' = foreign
  BY DEF vars
<1> SUFFICES ASSUME foreign = {}
             PROVE  /\ \A e \in End : /\ Flight(h[e], wire[Peer(e)], h[Peer(e)])'
                                      /\ Orderly(e, h[e])'
                    /\ (h["client"].ready = 0 => NoStream(wire["client"], h["client"].out))'
  BY <1>1 DEF Peaceful
<1>2. ASSUME NEW e \in End PROVE Flight(h[e], wire[Peer(e)], h[Peer(e)])'
  <2>1. Flight(h[e], wire[Peer(e)], h[Peer(e)])
    BY DEF Peaceful
  <2> QED
    BY <1>1, <2>1, SMTT(40) DEF Flight, Taken, Going, Up, UpFrames, IsMax, Fair
<1>3. \A e \in End : Orderly(e, h[e])'
  BY <1>1 DEF Peaceful, Orderly, NoStreams
<1>4. (h["client"].ready = 0 => NoStream(wire["client"], h["client"].out))'
  BY <1>1 DEF Peaceful, NoStream, NoStreams
<1> QED
  BY <1>2, <1>3, <1>4

LEMMA FixedAlways ==
    ASSUME Next
    PROVE  foreign' = foreign
<1>1. ASSUME NEW e \in End, SendDatagram(e) \/ DrainSession(e) \/ SendStreamData(e) \/ CloseSession(e)
      PROVE  Fixed
  BY <1>1 DEF SendDatagram, DrainSession, SendStreamData, Sends, CloseSession
<1>2. ASSUME NEW e \in End, Writes(e) \/ Loops(e) PROVE Fixed
  BY <1>2 DEF Writes, Write, WriteRst, Loops, ProcessCapsule, LoopEnds
<1>3. ASSUME NEW e \in End, Receives(e) PROVE Fixed
  <2>1. ASSUME NEW d, NEW types, Reads(d, types) PROVE Fixed
    BY <2>1 DEF Reads
  <2> QED
    BY <1>3, <2>1 DEF Receives, RecvRequest, RefuseRequest, RecvOk, RecvRefused, RecvDataDropped,
                      RecvData, RecvDataPending, RecvDataRejected, RecvRst, DropFrame
<1>4. ASSUME NEW e \in End, ForeignStep(e) PROVE Fixed
  BY <1>4 DEF ForeignStep, ForeignWrites, ForeignReads
<1>5. ASSUME RecvSettings \/ RecvGoaway \/ Connect \/ AcceptSession
             \/ \E erase \in BOOLEAN : RejectSession(erase)
      PROVE  Fixed
  BY <1>5 DEF RecvSettings, RecvGoaway, Connect, AcceptSession, RejectSession
<1>6. Fixed
  BY <1>1, <1>2, <1>3, <1>4, <1>5 DEF Next
<1> QED
  BY <1>6 DEF Fixed

LEMMA NextPeace ==
    ASSUME TypeOK, Inv, Peaceful, Next
    PROVE  Peaceful'
<1> SUFFICES ASSUME foreign = {} PROVE Peaceful'
  BY FixedAlways DEF Peaceful
<1>1. CASE RecvSettings \/ RecvGoaway
  BY <1>1, SettingsPeace
<1>2. CASE Connect
  BY <1>2, ConnectPeace
<1>3. CASE AcceptSession
  BY <1>3, AcceptPeace
<1>4. CASE \E erase \in BOOLEAN : RejectSession(erase)
  BY <1>4, RejectPeace
<1>5. ASSUME NEW e \in End, \/ SendDatagram(e) \/ DrainSession(e) \/ SendStreamData(e)
                            \/ CloseSession(e)
      PROVE  Peaceful'
  BY <1>5, SendsPeace, ClosePeace
<1>6. ASSUME NEW e \in End, Writes(e) PROVE Peaceful'
  BY <1>6, WritePeace, WriteRstPeace DEF Writes
<1>7. ASSUME NEW e \in End, Receives(e) PROVE Peaceful'
  <2>1. CASE RecvRequest
    BY <2>1, RecvRequestPeace
  <2>2. CASE RefuseRequest \/ RecvDataRejected
    BY <2>2, RefusePeace
  <2>3. CASE RecvOk
    BY <2>3, RecvOkPeace
  <2>4. CASE RecvRefused
    BY <2>4, RecvRefusedPeace
  <2>5. CASE RecvDataDropped(e)
    BY <2>5, RecvDroppedPeace
  <2>6. CASE RecvData(e)
    BY <2>6, RecvDataPeace
  <2>7. CASE RecvDataPending
    BY <2>7, RecvPendingPeace
  <2>8. CASE RecvRst(e)
    BY <2>8, RecvRstPeace
  <2>9. CASE DropFrame(e)
    BY <2>9, DropFramePeace
  <2> QED
    BY <1>7, <2>1, <2>2, <2>3, <2>4, <2>5, <2>6, <2>7, <2>8, <2>9 DEF Receives
<1>8. ASSUME NEW e \in End, Loops(e) PROVE Peaceful'
  BY <1>8, ProcessCapsulePeace, LoopEndsPeace DEF Loops
<1>9. ASSUME NEW e \in End, ForeignStep(e) PROVE FALSE
  BY <1>9 DEF ForeignStep, ForeignWrites, ForeignReads
<1> QED
  BY <1>1, <1>2, <1>3, <1>4, <1>5, <1>6, <1>7, <1>8, <1>9 DEF Next

(* Two ends of this code never make each other fail, for any limits, any   *)
(* number of capsules and even if close_session comes early: no limit that *)
(* maybe_send_max_data or send_initial_limits advertises is lower than an  *)
(* earlier one, and none is malformed or cut off, so process_capsules ends *)
(* no session with an error of its own.                                    *)
THEOREM AlwaysNoPeerError == Spec => []NoPeerError
<1>1. Init => TypeOK /\ Inv /\ Peaceful
  BY InitInv, InitPeace
<1>2. TypeOK /\ Inv /\ Peaceful /\ [Next]_vars => (TypeOK /\ Inv /\ Peaceful)'
  BY NextInv, StutterInv, NextPeace, StutterPeace
<1>3. Peaceful => NoPeerError
  BY DEF Peaceful, Orderly, NoPeerError
<1> QED
  BY <1>1, <1>2, <1>3, PTL DEF Spec

=============================================================================
