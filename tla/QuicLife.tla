------------------------------ MODULE QuicLife ------------------------------
(***************************************************************************)
(* The life of one QuicConnection (src/bindings/quic.cpp): handshake and   *)
(* certificate callback, key update, the ways a connection ends, and the   *)
(* closing period, in which a CONNECTION_CLOSE packet is kept and sent     *)
(* again in answer to what the peer still sends.                           *)
(*                                                                         *)
(* The object has no thread and no timer of its own: a driver calls        *)
(* receive() with what arrives, send() until it has nothing to say, and    *)
(* handle_timeout() when get_timeout_ns() has come down to 0.              *)
(***************************************************************************)
EXTENDS Integers, Sequences

CONSTANTS
    MaxEvents,    \* bound: events pushed before the one that ends it all
    MaxPackets    \* bound: packets of the peer during the closing period

ASSUME BoundAssumption == MaxEvents \in Nat /\ MaxPackets \in Nat

VARIABLES
    is_server,                    \* is_server_
    ngst,                         \* the state ngtcp2 is in
    handshake_completed,          \* handshake_completed_
    post_handshake_write_done,    \* post_handshake_write_done_
    closed,                       \* closed_
    pending_close_packet,         \* there is a pending_close_packet_
    close_packet_armed,           \* close_packet_armed_
    close_packet_delivered_once,  \* close_packet_delivered_once_
    expired,                      \* the clock is past closing_expiry_ns_
    due,                          \* the clock is past ngtcp2's own expiry
    verify,                       \* verify_error_, pending_verify_interrupt_
    log, taken,                   \* all events pushed; how many next_event took
    heard, replies,               \* history: packets that came while closing,
                                  \* and CONNECTION_CLOSE sent in answer
    interrupts, raised,           \* history: interrupts of the certificate
                                  \* callback, and those the caller has seen
    aborted                       \* history: an assertion of ngtcp2 failed

closing == <<pending_close_packet, close_packet_armed,
             close_packet_delivered_once, expired, heard, replies>>
verifying == <<verify, interrupts, raised>>
vars == <<is_server, ngst, handshake_completed, post_handshake_write_done,
          closed, closing, due, verifying, log, taken, aborted>>

(* completed: the client has read the end of the handshake, and its next   *)
(* write takes it to post (NGTCP2_CS_POST_HANDSHAKE).                      *)
NgState == {"handshake", "completed", "post", "closing", "draining", "failed"}
Active == {"handshake", "completed", "post"}

Init ==
    /\ is_server \in BOOLEAN
    /\ ngst = "handshake"
    /\ handshake_completed = FALSE
    /\ post_handshake_write_done = FALSE
    /\ closed = FALSE
    /\ pending_close_packet = FALSE
    /\ close_packet_armed = FALSE
    /\ close_packet_delivered_once = FALSE
    /\ expired = FALSE
    /\ due = FALSE
    /\ verify = "none"
    /\ log = <<>>
    /\ taken = 0
    /\ heard = 0
    /\ replies = 0
    /\ interrupts = 0
    /\ raised = 0
    /\ aborted = FALSE

-----------------------------------------------------------------------------
push_event(type, reason) == log' = Append(log, [type |-> type, reason |-> reason])

(* closed_ = true with a ConnectionClosed event: what every end but the    *)
(* application's own close() amounts to.                                   *)
End(reason) == closed' = TRUE /\ push_event("ConnectionClosed", reason)

closing_period_expired == pending_close_packet /\ expired

(* Mutated form: receive() goes on after the end.                          *)
admitted_Always == ~closing_period_expired

(* receive() hands the packet to ngtcp2: not after the end, unless there   *)
(* is a CONNECTION_CLOSE to answer with, and not after the closing period. *)
admitted == /\ ~closed \/ pending_close_packet
            /\ ~closing_period_expired

(* A pending interrupt leaves the call as an exception.                    *)
throw_pending_verify_interrupt(v) ==
    IF v = "interrupt" THEN verify' = "none" /\ raised' = raised + 1
    ELSE verify' = v /\ UNCHANGED raised

(* NGTCP2_ERR_DRAINING, DROP_CONN, RETRY and fatal errors.                 *)
ReceiveEnd(reason, st) ==
    /\ admitted
    /\ ngst # "closing"
    /\ reason \in {"connection dropped", "retry required"} => ngst = "handshake"
    /\ End(reason)
    /\ ngst' = st
    /\ UNCHANGED <<is_server, handshake_completed, post_handshake_write_done,
                   closing, due, verifying, taken, aborted>>

(* What custom_verify_cb leaves behind when the callback accepts or        *)
(* refuses ("none"), raises ("error"), raises an interrupt, or the         *)
(* exception itself cannot be recorded ("unknown").                        *)
VerifyOutcome == {"none", "error", "interrupt", "unknown"}

consume_verify_error(v) ==
    IF v = "error" THEN "verify callback failed"
    ELSE IF v = "unknown" THEN "verify callback failed: unknown"
    ELSE "crypto error"

(* Mutated form: every exception is recorded alike.                        *)
remembered_Alike(v) == IF v = "interrupt" THEN "error" ELSE v

remembered(v) == v

(* The certificate is refused, or TLS fails otherwise: NGTCP2_ERR_CRYPTO.  *)
(* The event is pushed, and only then does an interrupt go to the caller.  *)
ReceiveCryptoError(v) ==
    LET now == remembered(v) IN
    /\ admitted
    /\ ngst \in Active
    /\ v # "none" => ngst = "handshake" /\ ~is_server
    /\ interrupts' = interrupts + (IF v = "interrupt" THEN 1 ELSE 0)
    /\ End(consume_verify_error(now))
    /\ throw_pending_verify_interrupt(IF now = "interrupt" THEN now ELSE "none")
    /\ ngst' = "failed"
    /\ UNCHANGED <<is_server, handshake_completed, post_handshake_write_done,
                   closing, due, taken, aborted>>

(* handshake_completed_cb.                                                 *)
ReceiveHandshakeEnd ==
    /\ admitted
    /\ ngst = "handshake"
    /\ handshake_completed' = TRUE
    /\ ngst' = IF is_server THEN "post" ELSE "completed"
    /\ verify' = "none"
    /\ push_event("HandshakeCompleted", "")
    /\ UNCHANGED <<is_server, post_handshake_write_done, closed, closing, due,
                   interrupts, raised, taken, aborted>>

(* Data, resets, datagrams, tickets, paths: an event each.  A packet that  *)
(* is discarded, or brings none, changes nothing here.                     *)
ReceiveEvent ==
    /\ admitted
    /\ ngst \in Active
    /\ Len(log) < MaxEvents
    /\ push_event("StreamData", "")
    /\ UNCHANGED <<is_server, ngst, handshake_completed,
                   post_handshake_write_done, closed, closing, due, verifying,
                   taken, aborted>>

(* NGTCP2_ERR_CLOSING: CONNECTION_CLOSE is armed for one more answer, and  *)
(* nothing is pushed; the application closed the connection itself.        *)
ReceiveWhileClosing ==
    /\ admitted
    /\ ngst = "closing"
    /\ heard < MaxPackets
    /\ heard' = heard + 1
    /\ IF pending_close_packet
       THEN close_packet_armed' = TRUE /\ UNCHANGED <<closed, log>>
       ELSE End("connection closing") /\ UNCHANGED close_packet_armed
    /\ UNCHANGED <<is_server, ngst, handshake_completed,
                   post_handshake_write_done, pending_close_packet,
                   close_packet_delivered_once, expired, replies, due,
                   verifying, taken, aborted>>

Receive ==
    \/ ReceiveEnd("connection draining", "draining")
    \/ \E reason \in {"connection dropped", "retry required", "fatal error"} :
          ReceiveEnd(reason, "failed")
    \/ \E v \in VerifyOutcome : ReceiveCryptoError(v)
    \/ ReceiveHandshakeEnd \/ ReceiveEvent \/ ReceiveWhileClosing

-----------------------------------------------------------------------------
(* The first CONNECTION_CLOSE, whether or not the period is over.          *)
SendFirstClose ==
    /\ pending_close_packet
    /\ ~close_packet_delivered_once
    /\ close_packet_delivered_once' = TRUE
    /\ close_packet_armed' = FALSE
    /\ UNCHANGED <<is_server, ngst, handshake_completed,
                   post_handshake_write_done, closed, pending_close_packet,
                   expired, heard, replies, due, verifying, log, taken, aborted>>

(* Mutated form: the packet stays armed.                                   *)
rearmed_Stays == TRUE

rearmed == FALSE

SendReply ==
    /\ pending_close_packet
    /\ close_packet_delivered_once
    /\ ~closing_period_expired
    /\ close_packet_armed
    /\ close_packet_armed' = rearmed
    /\ replies' = replies + 1
    /\ UNCHANGED <<is_server, ngst, handshake_completed,
                   post_handshake_write_done, closed, pending_close_packet,
                   close_packet_delivered_once, expired, heard, due,
                   verifying, log, taken, aborted>>

(* Mutated form: any packet counts.                                        *)
recorded_Any(short) == post_handshake_write_done \/ handshake_completed

(* make_packet: a packet written after the handshake that holds a 1-RTT    *)
(* packet shows that ngtcp2 has left the handshake.  Coalesced packets are *)
(* looked through for it (contains_short_header_packet).                   *)
recorded(short) == post_handshake_write_done \/ (handshake_completed /\ short)

(* Any other packet.  A client that has completed the handshake may first  *)
(* write a packet of the handshake alone; 1-RTT comes after the transition.*)
SendPacket(short, moves) ==
    /\ ~pending_close_packet
    /\ ~closed
    /\ moves => ngst = "completed"
    /\ ngst' = IF moves THEN "post" ELSE ngst
    /\ short => ngst' = "post"
    /\ post_handshake_write_done' = recorded(short)
    /\ UNCHANGED <<is_server, handshake_completed, closed, closing, due,
                   verifying, log, taken, aborted>>

(* close(): CONNECTION_CLOSE is made and kept if ngtcp2 can write it.      *)
(* Before the first packet it cannot: a client stays where it is, a server *)
(* is closing with nothing to send.                                        *)
Close(written) ==
    /\ ~closed
    /\ ~written => ngst = "handshake"
    /\ closed' = TRUE
    /\ ngst' = IF written \/ is_server THEN "closing" ELSE ngst
    /\ pending_close_packet' = written
    /\ close_packet_armed' = written
    /\ close_packet_delivered_once' = FALSE
    /\ post_handshake_write_done' =
           IF written THEN recorded(ngst = "post") ELSE post_handshake_write_done
    /\ UNCHANGED <<is_server, handshake_completed, expired, heard, replies,
                   due, verifying, log, taken, aborted>>

(* close_stream, stop_sending and reset_stream close the connection on a   *)
(* fatal error of ngtcp2.                                                  *)
StreamCallFails ==
    /\ ~closed
    /\ End("stream shutdown error")
    /\ ngst' = "failed"
    /\ UNCHANGED <<is_server, handshake_completed, post_handshake_write_done,
                   closing, due, verifying, taken, aborted>>

key_update_admitted ==
    /\ ~closed
    /\ handshake_completed
    /\ is_server \/ post_handshake_write_done

(* initiate_key_update: ngtcp2 asserts that it is in post.                 *)
InitiateKeyUpdate ==
    /\ key_update_admitted
    /\ aborted' = (aborted \/ ngst # "post")
    /\ UNCHANGED <<is_server, ngst, handshake_completed,
                   post_handshake_write_done, closed, closing, due, verifying,
                   log, taken>>

next_event ==
    /\ taken < Len(log)
    /\ taken' = taken + 1
    /\ UNCHANGED <<is_server, ngst, handshake_completed,
                   post_handshake_write_done, closed, closing, due, verifying,
                   log, aborted>>

-----------------------------------------------------------------------------
(* Time.                                                                   *)

Tick ==
    /\ \/ pending_close_packet /\ expired' = TRUE /\ UNCHANGED due
       \/ ~closed /\ due' = TRUE /\ UNCHANGED expired
    /\ UNCHANGED <<is_server, ngst, handshake_completed,
                   post_handshake_write_done, closed, pending_close_packet,
                   close_packet_armed, close_packet_delivered_once, heard,
                   replies, verifying, log, taken, aborted>>

(* Mutated form: a connection that is closed has no timer.                 *)
get_timeout_ns_ClosedHasNone ==
    IF closed THEN "none" ELSE IF due THEN "now" ELSE "later"

(* While CONNECTION_CLOSE is kept, only the closing period counts.         *)
get_timeout_ns ==
    IF pending_close_packet THEN IF expired THEN "now" ELSE "later"
    ELSE IF closed THEN "none"
    ELSE IF due THEN "now" ELSE "later"

(* The packet goes once the period is over and it was sent at least once.  *)
DropClosePacket ==
    /\ get_timeout_ns = "now"
    /\ closing_period_expired
    /\ close_packet_delivered_once
    /\ pending_close_packet' = FALSE
    /\ close_packet_armed' = FALSE
    /\ expired' = FALSE
    /\ UNCHANGED <<is_server, ngst, handshake_completed,
                   post_handshake_write_done, closed,
                   close_packet_delivered_once, heard, replies, due, verifying,
                   log, taken, aborted>>

(* ngtcp2_conn_handle_expiry: nothing much, idle or handshake timeout, or  *)
(* a fatal error.                                                          *)
ExpiryOutcome == {"none", "idle timeout", "handshake timeout", "timeout error"}

HandleExpiry(outcome) ==
    /\ get_timeout_ns = "now"
    /\ ~pending_close_packet
    /\ ~closed
    /\ outcome = "handshake timeout" => ngst = "handshake"
    /\ due' = FALSE
    /\ IF outcome = "none" THEN UNCHANGED <<closed, log, ngst>>
       ELSE End(outcome) /\ ngst' = "failed"
    /\ UNCHANGED <<is_server, handshake_completed, post_handshake_write_done,
                   closing, verifying, taken, aborted>>

-----------------------------------------------------------------------------
Next ==
    \/ Receive
    \/ SendFirstClose \/ SendReply
    \/ \E short, moves \in BOOLEAN : SendPacket(short, moves)
    \/ \E written \in BOOLEAN : Close(written)
    \/ StreamCallFails \/ InitiateKeyUpdate \/ next_event
    \/ Tick \/ DropClosePacket
    \/ \E outcome \in ExpiryOutcome : HandleExpiry(outcome)

Spec == Init /\ [][Next]_vars

(* The driver calls send() as long as there is something to send, time     *)
(* passes, and handle_timeout is called when get_timeout_ns says so.       *)
Fairness == /\ WF_vars(SendFirstClose)
            /\ WF_vars(Tick)
            /\ WF_vars(DropClosePacket)

FairSpec == Spec /\ Fairness

-----------------------------------------------------------------------------
(* Properties.                                                             *)

EventType == {"ConnectionClosed", "HandshakeCompleted", "StreamData"}
Reason == {"", "connection draining", "connection dropped", "retry required",
           "fatal error", "verify callback failed",
           "verify callback failed: unknown", "crypto error",
           "connection closing", "stream shutdown error", "idle timeout",
           "handshake timeout", "timeout error"}
Event == [type : EventType, reason : Reason]

(* Every flag, counter and event keeps its type, and an armed packet is    *)
(* one that is there.                                                      *)
TypeOK ==
    /\ is_server \in BOOLEAN
    /\ ngst \in NgState
    /\ handshake_completed \in BOOLEAN
    /\ post_handshake_write_done \in BOOLEAN
    /\ closed \in BOOLEAN
    /\ pending_close_packet \in BOOLEAN
    /\ close_packet_armed \in BOOLEAN
    /\ close_packet_armed => pending_close_packet
    /\ close_packet_delivered_once \in BOOLEAN
    /\ expired \in BOOLEAN
    /\ due \in BOOLEAN
    /\ verify \in VerifyOutcome
    /\ log \in Seq(Event)
    /\ taken \in 0..Len(log)
    /\ heard \in Nat
    /\ replies \in Nat
    /\ interrupts \in Nat
    /\ raised \in Nat
    /\ aborted \in BOOLEAN

(* ConnectionClosed is the last event of a connection and comes once,      *)
(* whichever of the six ways it ended and whatever the peer and the driver *)
(* do afterwards; a connection closed by the application pushes none.      *)
ClosedIsLast ==
    \A i \in 1..Len(log) :
        log[i].type = "ConnectionClosed" =>
            i = Len(log) /\ closed /\ ngst # "closing"

(* CONNECTION_CLOSE is sent again at most once for each packet received    *)
(* while closing, so the answers never outgrow what they answer.           *)
AnswersBounded ==
    replies + (IF close_packet_armed /\ close_packet_delivered_once THEN 1 ELSE 0)
        <= heard

(* A key update reaches ngtcp2 only after its handshake state is left, as  *)
(* ngtcp2 asserts: on a client the end of the handshake alone is too early.*)
KeyUpdateSafe == ~aborted

(* An interrupt the certificate callback raises (KeyboardInterrupt,        *)
(* SystemExit, CancelledError) reaches the caller of receive(), once, and  *)
(* the connection is over by then.                                         *)
InterruptsSurface == raised = interrupts /\ (raised > 0 => closed)

(* A close of the application is always sent, even if the closing period   *)
(* is over before the first send(), and the kept packet is dropped in the  *)
(* end, for a driver that goes by get_timeout_ns.                          *)
ClosingEnds ==
    pending_close_packet ~> ~pending_close_packet /\ close_packet_delivered_once

=============================================================================
