---------------------------- MODULE H2Lifecycle ----------------------------
(***************************************************************************)
(* The life of one WebTransport over HTTP/2 session, from the CONNECT      *)
(* request to the closing of its HTTP/2 stream: connect, accept_session,   *)
(* reject_session, close_session, drain_session, send_datagram and the     *)
(* nghttp2 callbacks of src/bindings/webtransport_h2.cpp.                  *)
(*                                                                         *)
(* Each end is a session record h[e]; wire[e] holds the HTTP/2 frames e    *)
(* has written and its peer has not read.  An end in foreign is not this   *)
(* code: it sends any frames HTTP/2 allows.  nghttp2 itself is external:   *)
(* it reports a stream closed when both sides have sent END_STREAM or one  *)
(* has sent RST_STREAM, and drops frames of a closed stream.               *)
(***************************************************************************)
EXTENDS Integers, Sequences

CONSTANTS
    Foreigners,        \* the values foreign may have, e.g. {{}, {"client"}}
    EarlyClose,        \* the values early may have, a subset of BOOLEAN
    PreAcceptLimit,    \* wt_pre_accept_buffer_limit, in capsules
    InitialLimit,      \* wt_initial_max_data: first limit advertised
    MaxSends,          \* bound: capsules an application sends
    MaxForeign         \* bound: frames a foreign end sends after its HEADERS

End == {"client", "server"}
Peer(e) == IF e = "client" THEN "server" ELSE "client"

ASSUME LifecycleAssumption ==
    /\ Foreigners \subseteq SUBSET End
    /\ EarlyClose \subseteq BOOLEAN
    /\ PreAcceptLimit \in Nat
    /\ InitialLimit \in Nat
    /\ MaxSends \in Nat /\ MaxForeign \in Nat

VARIABLES
    h,         \* h[e]: the session and its HTTP/2 stream at end e
    wire,      \* wire[e]: frames from e to its peer
    sends,     \* sends[e]: capsules, or frames of a foreign end (bound)
    foreign,   \* the end that is not this code, if any
    early      \* may close_session be called before the session is ready

vars == <<h, wire, sends, foreign, early>>

(* STREAM stands for the WT_STREAM that makes the receiver raise its       *)
(* limits, MAX for the limit capsules, BAD for a malformed payload, PART   *)
(* for the first bytes of a capsule whose rest never comes.                *)
Kind == {"DATAGRAM", "STREAM", "MAX", "DRAIN", "CLOSE", "BAD", "PART"}
Capsule == [k : Kind, v : Nat]
Plain(k) == [k |-> k, v |-> 0]
Limit(v) == [k |-> "MAX", v |-> v]

(* A frame: HEADERS (a request, a 2xx or another response), DATA with the  *)
(* capsules c it carries, RST_STREAM; fin is END_STREAM.                   *)
FrameKind == {"request", "ok", "refused", "data", "rst"}
Frame == [t : FrameKind, c : Seq(Capsule), fin : BOOLEAN]

Reason == {"none", "app", "flow_control", "malformed"}

Running == {"no", "accept", "data", "data_fin"}   \* who runs process_capsules

Record ==
    [entry : BOOLEAN,                   \* there is an entry in wt_sessions_
     is_established : BOOLEAN, is_terminated : BOOLEAN,
     pre_accept_end_stream : BOOLEAN,
     capsule_buffer : Seq(Capsule), running : Running,
     out : Seq(Capsule),                \* http2_stream_buffers_
     end_stream_pending : BOOLEAN, rst_pending : BOOLEAN,
     response : {"none", "ok", "refused"},   \* response submitted (server)
     reader : BOOLEAN,                  \* a data_reader is attached
     opened : BOOLEAN, sent_end : BOOLEAN, got_end : BOOLEAN, closed : BOOLEAN,
     advertised : Nat, received_max : Nat, reason : Reason,
     settings : BOOLEAN, goaway_received : BOOLEAN,
     ready : Nat, over : Nat,           \* history: SessionReady events, and
     late : BOOLEAN]                    \* SessionClosed/SessionRejected; one
                                        \* followed by another event

Blank ==
    [entry |-> FALSE, is_established |-> FALSE, is_terminated |-> FALSE,
     pre_accept_end_stream |-> FALSE, capsule_buffer |-> <<>>, running |-> "no",
     out |-> <<>>, end_stream_pending |-> FALSE, rst_pending |-> FALSE,
     response |-> "none", reader |-> FALSE,
     opened |-> FALSE, sent_end |-> FALSE, got_end |-> FALSE, closed |-> FALSE,
     advertised |-> InitialLimit, received_max |-> 0, reason |-> "none",
     settings |-> FALSE, goaway_received |-> FALSE,
     ready |-> 0, over |-> 0, late |-> FALSE]

Init == /\ h = [e \in End |-> Blank]
        /\ wire = [e \in End |-> <<>>]
        /\ sends = [e \in End |-> 0]
        /\ foreign \in Foreigners
        /\ early \in EarlyClose

-----------------------------------------------------------------------------
(* Functions of the source, as transformers of a session record.           *)

(* An event of the session; none may follow the one that says it is over.  *)
push_event(s) == [s EXCEPT !.late = @ \/ s.over > 0]
push_ready(s) == [push_event(s) EXCEPT !.ready = @ + 1]
push_over(s) == [push_event(s) EXCEPT !.over = @ + 1]

send_capsule(s, c) == [s EXCEPT !.out = Append(@, c)]

send_initial_limits(s) == send_capsule(s, Limit(InitialLimit))

(* Mutated form: END_STREAM does not follow WT_CLOSE_SESSION.              *)
close_session_NoEnd(s, why) ==
    [send_capsule(s, Plain("CLOSE"))
        EXCEPT !.is_terminated = TRUE, !.is_established = FALSE,
               !.pre_accept_end_stream = FALSE, !.reason = why]

close_session(s, why) ==
    [send_capsule(s, Plain("CLOSE"))
        EXCEPT !.is_terminated = TRUE, !.is_established = FALSE,
               !.pre_accept_end_stream = FALSE, !.end_stream_pending = TRUE,
               !.reason = why]

reset_stream_for_malformed_capsule(s) ==
    [s EXCEPT !.is_terminated = TRUE, !.is_established = FALSE,
              !.pre_accept_end_stream = FALSE, !.rst_pending = TRUE,
              !.reason = "malformed"]

(* Mutated form: the entry stays after the session is over.                *)
session_over_KeepsEntry(s) ==
    [push_over(s) EXCEPT !.out = <<>>, !.capsule_buffer = <<>>,
                         !.end_stream_pending = TRUE]

(* SessionClosed; entry and send buffer dropped; END_STREAM to be sent.    *)
session_over(s) ==
    [push_over(s) EXCEPT !.entry = FALSE, !.is_established = FALSE,
                         !.is_terminated = FALSE,
                         !.pre_accept_end_stream = FALSE,
                         !.capsule_buffer = <<>>, !.out = <<>>,
                         !.end_stream_pending = TRUE]

(* on_stream_close_callback.                                               *)
stream_close(s) ==
    [(IF s.entry THEN push_over(s) ELSE s)
        EXCEPT !.entry = FALSE, !.is_established = FALSE,
               !.is_terminated = FALSE, !.pre_accept_end_stream = FALSE,
               !.capsule_buffer = <<>>, !.out = <<>>,
               !.end_stream_pending = FALSE, !.rst_pending = FALSE,
               !.closed = TRUE]

close_if_both_ended(s) == IF s.sent_end /\ s.got_end THEN stream_close(s) ELSE s

(* Mutated form: a new limit counts from zero, not from the first limit.   *)
raise_limit_FromZero(s) ==
    send_capsule([s EXCEPT !.advertised = @ + 1], Limit(s.advertised - InitialLimit))

(* maybe_send_max_data: a higher limit than the last one advertised.       *)
raise_limit(s) ==
    send_capsule([s EXCEPT !.advertised = @ + 1], Limit(s.advertised + 1))

(* One capsule of process_capsules.                                        *)
process_capsule(s, c) ==
    CASE c.k = "DATAGRAM" -> push_event(s)
      [] c.k = "DRAIN" -> push_event(s)
      [] c.k = "STREAM" -> raise_limit(push_event(s))
      [] c.k = "MAX" -> IF c.v < s.received_max
                        THEN close_session(s, "flow_control")
                        ELSE [s EXCEPT !.received_max = c.v]
      [] c.k = "CLOSE" -> session_over(s)
      [] c.k = "BAD" -> reset_stream_for_malformed_capsule(s)
      [] c.k = "PART" -> s

(* Mutated form: the end of the peer's side is not remembered.             *)
handle_end_stream_Forgets(e, s) ==
    IF ~s.entry \/ ~s.is_established \/ s.is_terminated THEN s
    ELSE IF s.capsule_buffer # <<>> THEN reset_stream_for_malformed_capsule(s)
    ELSE session_over(s)

handle_end_stream(e, s) ==
    IF ~s.entry \/ s.is_terminated THEN s
    ELSE IF ~s.is_established
         THEN [s EXCEPT !.pre_accept_end_stream = (e = "server")]
    ELSE IF s.capsule_buffer # <<>> THEN reset_stream_for_malformed_capsule(s)
    ELSE session_over(s)

remote_end_stream(e, s) ==
    close_if_both_ended([handle_end_stream(e, s) EXCEPT !.got_end = TRUE])

(* terminate_pre_accept_end_stream_session; its flush_output is Write.     *)
terminate_pre_accept_end_stream_session(s) ==
    IF s.capsule_buffer # <<>> THEN reset_stream_for_malformed_capsule(s)
                               ELSE session_over(s)

-----------------------------------------------------------------------------
(* Actions: the application of an end that runs this code.                 *)

Headers(t, fin) == [t |-> t, c |-> <<>>, fin |-> fin]
Data(c, fin) == [t |-> "data", c |-> c, fin |-> fin]
Rst == [t |-> "rst", c |-> <<>>, fin |-> FALSE]

Ours(e) == e \notin foreign /\ h[e].running = "no"
Set(e, s) == h' = [h EXCEPT ![e] = s]
Queue(e, frames) == wire' = [wire EXCEPT ![e] = @ \o frames]
Fixed == UNCHANGED <<foreign, early>>

(* The peer's SETTINGS and its GOAWAY.                                     *)
RecvSettings ==
    /\ Ours("client") /\ ~h["client"].settings
    /\ Set("client", [h["client"] EXCEPT !.settings = TRUE])
    /\ UNCHANGED <<wire, sends>> /\ Fixed

RecvGoaway ==      \* only connect looks at it, so a later one is left out
    /\ Ours("client") /\ ~h["client"].goaway_received /\ ~h["client"].opened
    /\ Set("client", [h["client"] EXCEPT !.goaway_received = TRUE])
    /\ UNCHANGED <<wire, sends>> /\ Fixed

Connect ==
    LET s == h["client"]
    IN  /\ Ours("client") /\ ~s.opened
        /\ s.settings /\ ~s.goaway_received
        /\ Set("client", [s EXCEPT !.entry = TRUE, !.opened = TRUE,
                                   !.reader = TRUE,
                                   !.received_max = InitialLimit])
        /\ Queue("client", <<Headers("request", FALSE)>>)
        /\ UNCHANGED sends /\ Fixed

Sends(e, s) == /\ sends[e] < MaxSends
               /\ sends' = [sends EXCEPT ![e] = @ + 1]
               /\ Set(e, s)
               /\ UNCHANGED wire /\ Fixed

SendDatagram(e) ==
    LET s == h[e]
    IN  /\ Ours(e) /\ s.entry /\ ~s.is_terminated /\ ~s.pre_accept_end_stream
        /\ Sends(e, send_capsule(s, Plain("DATAGRAM")))

DrainSession(e) ==
    LET s == h[e]
    IN  /\ Ours(e) /\ s.entry /\ ~s.is_terminated /\ ~s.pre_accept_end_stream
        /\ Sends(e, send_capsule(s, Plain("DRAIN")))

(* open_stream, then send_stream_data.                                     *)
SendStreamData(e) ==
    LET s == h[e]
    IN  /\ Ours(e) /\ s.entry /\ s.is_established /\ ~s.is_terminated
        /\ Sends(e, send_capsule(s, Plain("STREAM")))

CloseSession(e) ==
    LET s == h[e]
    IN  /\ Ours(e) /\ s.entry /\ ~s.is_terminated
        /\ early \/ s.is_established
        /\ Set(e, close_session(s, "app"))
        /\ UNCHANGED <<wire, sends>> /\ Fixed

(* What flush_output writes of the capsules queued so far.                 *)
flushed(s) == [i \in 1 .. Len(s.out) |->
                  Data(<<s.out[i]>>, s.end_stream_pending /\ i = Len(s.out))]

(* accept_session up to the loop over the capsules kept since CONNECT.     *)
AcceptSession ==
    LET s == h["server"]
        t == [s EXCEPT !.response = "ok", !.reader = TRUE,
                       !.is_established = s.entry,
                       !.out = <<>>, !.sent_end = s.end_stream_pending,
                       !.end_stream_pending = FALSE]
        u == close_if_both_ended(t)
    IN  /\ Ours("server") /\ s.opened /\ ~s.closed /\ s.response = "none"
        /\ Queue("server", <<Headers("ok", FALSE)>> \o flushed(s))
        /\ Set("server", [u EXCEPT !.running = IF u.entry THEN "accept" ELSE "no"])
        /\ UNCHANGED sends /\ Fixed

(* reject_session: HEADERS with END_STREAM.  A status outside 2xx erases   *)
(* the entry without an event; a 2xx leaves it, terminated.                *)
refuse(s, erase) ==
    LET t == [s EXCEPT !.response = "refused", !.sent_end = TRUE,
                       !.capsule_buffer = <<>>, !.pre_accept_end_stream = FALSE,
                       !.entry = @ /\ ~erase, !.is_terminated = s.entry /\ ~erase]
    IN  close_if_both_ended(t)

RejectSession(erase) ==
    LET s == h["server"]
    IN  /\ Ours("server") /\ s.opened /\ ~s.closed /\ s.response = "none"
        /\ Queue("server", <<Headers(IF erase THEN "refused" ELSE "ok", TRUE)>>)
        /\ Set("server", refuse(s, erase))
        /\ UNCHANGED sends /\ Fixed

(* send(): flush_output lets nghttp2 pull one chunk after the other from   *)
(* on_read_data_callback; END_STREAM goes with the last one.               *)
Write(e) ==
    LET s   == h[e]
        fin == s.end_stream_pending /\ Len(s.out) <= 1
        n   == IF s.out = <<>> THEN 0 ELSE 1
    IN  /\ Ours(e) /\ s.opened /\ ~s.closed /\ ~s.rst_pending
        /\ s.reader /\ ~s.sent_end
        /\ s.out # <<>> \/ s.end_stream_pending
        /\ Queue(e, <<Data(SubSeq(s.out, 1, n), fin)>>)
        /\ Set(e, close_if_both_ended(
                      [s EXCEPT !.out = SubSeq(@, n + 1, Len(@)), !.sent_end = fin,
                                !.end_stream_pending = @ /\ ~fin]))
        /\ UNCHANGED sends /\ Fixed

WriteRst(e) ==
    /\ Ours(e) /\ h[e].rst_pending /\ ~h[e].closed
    /\ Queue(e, <<Rst>>)
    /\ Set(e, stream_close(h[e]))
    /\ UNCHANGED sends /\ Fixed

-----------------------------------------------------------------------------
(* Actions: the callbacks nghttp2 makes for the next frame.                *)

Next1(e) == Head(wire[Peer(e)])

Reads(e, types) ==
    /\ Ours(e)
    /\ wire[Peer(e)] # <<>>
    /\ Next1(e).t \in types
    /\ ~h[e].closed
    /\ UNCHANGED sends /\ Fixed

Took(e) == wire' = [wire EXCEPT ![Peer(e)] = Tail(@)]

ended(e, s) == IF Next1(e).fin THEN remote_end_stream(e, s) ELSE s

(* on_end_headers_callback of a server, for a request it can accept ...    *)
RecvRequest ==
    /\ Reads("server", {"request"})
    /\ Took("server")
    /\ Set("server", ended("server",
              [push_ready(h["server"]) EXCEPT !.entry = TRUE, !.opened = TRUE,
                                              !.received_max = InitialLimit]))

(* ... and for one it answers at once with 400, 403 or 405.                *)
RefuseRequest ==
    /\ Reads("server", {"request"})
    /\ wire' = [wire EXCEPT !["client"] = Tail(@),
                            !["server"] = Append(@, Headers("refused", TRUE))]
    /\ Set("server", ended("server",
              refuse([h["server"] EXCEPT !.opened = TRUE], TRUE)))

established(s) ==
    IF s.entry
    THEN send_initial_limits([push_ready(s) EXCEPT !.is_established = TRUE])
    ELSE s

(* on_end_headers_callback of a client.                                    *)
RecvOk ==
    /\ Reads("client", {"ok"})
    /\ Took("client")
    /\ Set("client", ended("client", established(h["client"])))

RecvRefused ==
    LET s == h["client"]
        t == IF s.entry
             THEN [push_over(s) EXCEPT !.entry = FALSE, !.is_established = FALSE,
                                       !.is_terminated = FALSE]
             ELSE s
    IN  /\ Reads("client", {"refused"})
        /\ Took("client")
        /\ Set("client", ended("client", t))

(* on_recv_data_callback: dropped without an entry, after the end, and by  *)
(* a client that has not seen the 2xx.                                     *)
RecvDataDropped(e) ==
    LET s == h[e]
    IN  /\ Reads(e, {"data"})
        /\ \/ ~s.entry \/ s.is_terminated
           \/ ~s.is_established /\ e = "client"
        /\ Took(e)
        /\ Set(e, ended(e, s))

(* Kept by a server that has not accepted yet, up to a limit ...           *)
RecvDataPending ==
    LET s == h["server"]
        kept == s.capsule_buffer \o Next1("server").c
    IN  /\ Reads("server", {"data"})
        /\ s.entry /\ ~s.is_terminated /\ ~s.is_established
        /\ Len(kept) <= PreAcceptLimit
        /\ Took("server")
        /\ Set("server", ended("server", [s EXCEPT !.capsule_buffer = kept]))

(* ... beyond which the request is rejected with 413.                      *)
RecvDataRejected ==
    LET s == h["server"]
    IN  /\ Reads("server", {"data"})
        /\ s.entry /\ ~s.is_terminated /\ ~s.is_established
        /\ Len(s.capsule_buffer \o Next1("server").c) > PreAcceptLimit
        /\ wire' = [wire EXCEPT !["client"] = Tail(@),
                                !["server"] = Append(@, Headers("refused", TRUE))]
        /\ Set("server", ended("server", refuse(s, TRUE)))

RecvData(e) ==
    LET s == h[e]
    IN  /\ Reads(e, {"data"})
        /\ s.entry /\ ~s.is_terminated /\ s.is_established
        /\ Took(e)
        /\ Set(e, [s EXCEPT !.capsule_buffer = @ \o Next1(e).c,
                            !.running = IF Next1(e).fin THEN "data_fin" ELSE "data"])

RecvRst(e) ==
    /\ Reads(e, {"rst"})
    /\ Took(e)
    /\ Set(e, stream_close(h[e]))

(* nghttp2 drops what arrives for a closed stream.                         *)
DropFrame(e) ==
    /\ Ours(e) /\ h[e].closed /\ wire[Peer(e)] # <<>>
    /\ Took(e)
    /\ UNCHANGED <<h, sends>> /\ Fixed

-----------------------------------------------------------------------------
(* process_capsules, one capsule a step; the end does nothing else.        *)

(* Mutated form: the loop does not see that the session was terminated.    *)
LoopGoesOn_Terminated(s) == /\ s.entry
                            /\ s.capsule_buffer # <<>>
                            /\ Head(s.capsule_buffer).k # "PART"

LoopGoesOn(s) == /\ s.entry /\ ~s.is_terminated
                 /\ s.capsule_buffer # <<>>
                 /\ Head(s.capsule_buffer).k # "PART"

ProcessCapsule(e) ==
    LET s == h[e]
    IN  /\ s.running # "no" /\ LoopGoesOn(s)
        /\ Set(e, process_capsule([s EXCEPT !.capsule_buffer = Tail(@)],
                                  Head(s.capsule_buffer)))
        /\ UNCHANGED <<wire, sends>> /\ Fixed

(* What follows the loop in on_recv_data_callback (then on_remote_end_     *)
(* stream_callback) and in accept_session.                                 *)
LoopEnds(e) ==
    LET s == h[e]
        t == [s EXCEPT !.running = "no",
                       !.capsule_buffer = IF s.is_terminated THEN <<>> ELSE @]
    IN  /\ s.running # "no" /\ ~LoopGoesOn(s)
        /\ Set(e, CASE s.running = "data" -> t
                    [] s.running = "data_fin" -> remote_end_stream(e, t)
                    [] s.running = "accept" ->
                         IF ~s.entry \/ s.is_terminated THEN t
                         ELSE IF s.pre_accept_end_stream
                              THEN terminate_pre_accept_end_stream_session(t)
                         ELSE send_initial_limits(t))
        /\ UNCHANGED <<wire, sends>> /\ Fixed

-----------------------------------------------------------------------------
(* Actions: an end that is not this code.                                  *)

ForeignCapsules == {Plain(k) : k \in Kind \ {"MAX"}} \cup
                   {Limit(v) : v \in {0, InitialLimit + 1}}

CapsuleFrames == [t : {"data"}, c : {<<c>> : c \in ForeignCapsules}, fin : BOOLEAN]

ForeignFrames ==
    CapsuleFrames \cup {Data(<<Limit(0), Plain("STREAM")>>, FALSE), Data(<<>>, TRUE), Rst}

(* It begins with HEADERS, and sends nothing after END_STREAM or RST.      *)
ForeignWrites(f, frame) ==
    LET s == h[f]
    IN  /\ f \in foreign /\ ~s.sent_end
        /\ s.response = "none" \/ sends[f] < MaxForeign
        /\ IF s.response = "none"
           THEN IF f = "client" THEN frame.t = "request"
                ELSE s.opened /\ (\/ frame.t = "ok"
                                  \/ frame.t = "refused" /\ frame.fin)
           ELSE frame \in ForeignFrames
        /\ \A i \in 1 .. Len(frame.c) : frame.c[i].k = "PART" => frame.fin
        /\ Queue(f, <<frame>>)
        /\ Set(f, [s EXCEPT !.response = "ok", !.opened = TRUE,
                            !.sent_end = frame.fin \/ frame.t = "rst"])
        /\ sends' = [sends EXCEPT ![f] = IF s.response = "none" THEN 0 ELSE @ + 1]
        /\ Fixed

ForeignReads(f) ==
    /\ f \in foreign
    /\ wire[Peer(f)] # <<>>
    /\ Took(f)
    /\ Set(f, [h[f] EXCEPT !.opened = TRUE])
    /\ UNCHANGED sends /\ Fixed

-----------------------------------------------------------------------------
ForeignStep(f) ==
    \/ \E fin \in BOOLEAN, t \in {"request", "ok", "refused"} :
           ForeignWrites(f, Headers(t, fin))
    \/ \E frame \in ForeignFrames : ForeignWrites(f, frame)
    \/ ForeignReads(f)

(* What the event loop of an end does without being asked to.              *)
Writes(e) == Write(e) \/ WriteRst(e)

Receives(e) ==
    \/ e = "server" /\ (RecvRequest \/ RefuseRequest)
    \/ e = "client" /\ (RecvOk \/ RecvRefused)
    \/ RecvDataDropped(e) \/ RecvData(e)
    \/ e = "server" /\ (RecvDataPending \/ RecvDataRejected)
    \/ RecvRst(e) \/ DropFrame(e)

Loops(e) == ProcessCapsule(e) \/ LoopEnds(e)

Next ==
    \/ RecvSettings \/ RecvGoaway \/ Connect
    \/ AcceptSession \/ \E erase \in BOOLEAN : RejectSession(erase)
    \/ \E e \in End : \/ SendDatagram(e) \/ DrainSession(e)
                      \/ SendStreamData(e) \/ CloseSession(e)
                      \/ Writes(e) \/ Receives(e) \/ Loops(e)
                      \/ ForeignStep(e)

(* The asyncio tasks of both ends keep reading and writing the socket; no  *)
(* application is assumed to do anything.                                  *)
Fairness ==
    \A e \in End : /\ WF_vars(Writes(e))
                   /\ WF_vars(Receives(e))
                   /\ WF_vars(Loops(e))

Spec == Init /\ [][Next]_vars

FairSpec == Spec /\ Fairness

-----------------------------------------------------------------------------
(* Properties.                                                             *)

(* The record of each end has its type, and so has every frame.            *)
TypeOK ==
    /\ h \in [End -> Record]
    /\ wire \in [End -> Seq(Frame)]
    /\ sends \in [End -> Nat]
    /\ foreign \in Foreigners
    /\ early \in EarlyClose

(* The application of an end is told at most once that a session is ready  *)
(* and at most once that it is over, and hears nothing of it afterwards,   *)
(* whichever of WT_CLOSE_SESSION, END_STREAM, RST_STREAM, a rejection or a *)
(* local close comes first and whatever the peer sends.                    *)
OverOnce ==
    \A e \in End \ foreign :
        h[e].ready <= 1 /\ h[e].over <= 1 /\ ~h[e].late

(* The capsules on their way from e, each in a sequence of at most one.    *)
Sent(e) == [i \in 1 .. Len(wire[e]) |-> wire[e][i].c]
               \o [i \in 1 .. Len(h[e].out) |-> <<h[e].out[i]>>]

(* WT_CLOSE_SESSION is the last capsule an end sends: what was queued goes *)
(* before it, and no handler, not even one that runs while the frame with  *)
(* END_STREAM is still unsent, adds a capsule behind it.  It takes an      *)
(* application that waits for SessionReady before it closes.               *)
CloseIsLast ==
    ~early => \A e \in End \ foreign :
        LET q == Sent(e)
        IN  \A i \in 1 .. Len(q) :
                (q[i] # <<>> /\ q[i][1].k = "CLOSE") =>
                    \A j \in i + 1 .. Len(q) : q[j] = <<>>

(* Two ends that run this code never make each other fail: a session       *)
(* between them ends because an application ends it, whatever the order in *)
(* which acceptance, rejection, datagrams, limits and closes cross.        *)
NoPeerError ==
    foreign = {} => \A e \in End : h[e].reason \in {"none", "app"}

(* Has the session of e got past the CONNECT handshake?                    *)
Accepted(e) == IF e = "server" THEN h[e].response = "ok" ELSE h[e].ready > 0

(* No stream stays half open after the handshake: once the peer has ended  *)
(* its side, by WT_CLOSE_SESSION or by END_STREAM alone, before accept_    *)
(* session or after it, the stream is closed here too, so nghttp2 frees it *)
(* and the stream no longer counts against the concurrency limit.          *)
EndIsAnswered ==
    \A e \in End :
        (e \notin foreign /\ h[e].got_end /\ Accepted(e)) ~> h[e].closed

(* Once either application has closed an accepted session, the HTTP/2      *)
(* stream is closed at both ends, without any further call.                *)
CloseCompletes ==
    (foreign = {} /\ Accepted("server")
        /\ \E e \in End : h[e].is_terminated \/ h[e].over > 0)
    ~> (h["client"].closed /\ h["server"].closed)

=============================================================================
