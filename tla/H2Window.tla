------------------------------ MODULE H2Window ------------------------------
(***************************************************************************)
(* The HTTP/2 receive window of a WebTransport over HTTP/2 connection:     *)
(* on_recv_data_callback, process_capsules, consume_recv_bytes,            *)
(* discard_stream_recv_bytes and consume_connection_recv_bytes of          *)
(* src/bindings/webtransport_h2.cpp, and what the end of a session does to *)
(* the bytes it still holds.                                               *)
(*                                                                         *)
(* Bytes are only counted.  The peer may send what the connection window   *)
(* and the stream window leave: nghttp2 refuses more.  A capsule ends      *)
(* wherever the peer chose to end it, so any prefix of the buffered bytes  *)
(* may turn out to be a complete capsule, or none.                         *)
(***************************************************************************)
EXTENDS Integers, FiniteSets, Functions

CONSTANTS
    Session,                   \* the CONNECT streams of the connection
    conn_local_window_size,    \* connection window (65535)
    initial_window_size,       \* stream window (config, 65535 by default)
    max_unfinished,            \* max_unfinished_capsule_bytes() (32768)
    pre_accept_buffer_limit,   \* config (65536 by default)
    max_capsule_size,          \* largest capsule the limit on payloads allows
    MaxFrame                   \* largest DATA frame (16384)

ASSUME WindowAssumption ==
    /\ IsFiniteSet(Session)
    /\ conn_local_window_size \in Nat \ {0}
    /\ initial_window_size \in Nat
    /\ max_unfinished \in Nat
    /\ pre_accept_buffer_limit \in Nat
    /\ max_capsule_size \in Nat
    /\ MaxFrame \in Nat

VARIABLES
    status,        \* of each session, see Status
    buffer,        \* size of capsule_buffer
    unconsumed,    \* unconsumed_recv_bytes_
    recv_window,   \* conn_recv_window_size_: received and not returned
    consumed,      \* conn_consumed_size_: consumed and not yet returned
    running,       \* is process_capsules running for the session, see Loop
    overheld       \* history: the sessions accept_session left with more than
                   \* max_unfinished unconsumed, nothing received since

vars == <<status, buffer, unconsumed, recv_window, consumed, running, overheld>>

(* idle: no CONNECT yet; pending: entry of wt_sessions_ not established    *)
(* (a server before accept_session); open: established; reset: terminated  *)
(* by a malformed capsule, RST_STREAM on its way; gone: entry erased, or   *)
(* terminated with its bytes given back.                                   *)
Status == {"idle", "pending", "open", "reset", "gone"}

Loop == {"no", "on_recv_data", "accept_session"}   \* and who called it

Init == /\ status = [s \in Session |-> "idle"]
        /\ buffer = [s \in Session |-> 0]
        /\ unconsumed = [s \in Session |-> 0]
        /\ recv_window = 0
        /\ consumed = 0
        /\ running = [s \in Session |-> "no"]
        /\ overheld = {}

(* Not inside process_capsules.                                            *)
Quiet == \A s \in Session : running[s] = "no"

-----------------------------------------------------------------------------
Smaller(a, b) == IF a <= b THEN a ELSE b

half_window == conn_local_window_size \div 2

(* Mutated form: bytes are returned only when the whole window is used.    *)
returned_Late(received, used) ==
    LET size == Smaller(used, received)
    IN  IF size > 0 /\ size >= conn_local_window_size THEN size ELSE 0

(* What consume_connection_recv_bytes hands to nghttp2, given the bytes    *)
(* received and consumed so far.                                           *)
returned(received, used) ==
    LET size == Smaller(used, received)
    IN  IF size > 0 /\ size >= half_window THEN size ELSE 0

(* n bytes arrived since the last step and m are consumed now.             *)
consume_connection_recv_bytes(n, m) ==
    LET back == IF m = 0 THEN 0 ELSE returned(recv_window + n, consumed + m)
    IN  /\ recv_window' = recv_window + n - back
        /\ consumed' = consumed + m - back

consumable(s, n) == Smaller(n, unconsumed[s])

consume_recv_bytes(s, n) ==
    /\ unconsumed' = [unconsumed EXCEPT ![s] = @ - consumable(s, n)]
    /\ consume_connection_recv_bytes(0, consumable(s, n))

(* Mutated form: the record is dropped, the connection gets nothing back.  *)
discard_stream_recv_bytes_Leaks(s, n) ==
    /\ unconsumed' = [unconsumed EXCEPT ![s] = 0]
    /\ consume_connection_recv_bytes(n, 0)

(* Mutated form: the record of the session outlives it.                    *)
discard_stream_recv_bytes_KeepsRecord(s, n) ==
    /\ UNCHANGED unconsumed
    /\ consume_connection_recv_bytes(n, unconsumed[s] + n)

(* Everything the session still holds, and n bytes just arrived for it.    *)
discard_stream_recv_bytes(s, n) ==
    /\ unconsumed' = [unconsumed EXCEPT ![s] = 0]
    /\ consume_connection_recv_bytes(n, unconsumed[s] + n)

-----------------------------------------------------------------------------
NewSession(s) ==
    /\ Quiet
    /\ status[s] = "idle"
    /\ status' = [status EXCEPT ![s] = "pending"]
    /\ UNCHANGED <<buffer, unconsumed, recv_window, consumed, running, overheld>>

(* What flow control lets the peer send on the stream of s.                *)
Receivable(s, n) ==
    /\ Quiet
    /\ status[s] # "idle"
    /\ recv_window + n <= conn_local_window_size
    /\ unconsumed[s] + n <= initial_window_size

(* on_recv_data_callback without an entry, or with a terminated one.       *)
RecvDataDropped(s, n) ==
    /\ Receivable(s, n)
    /\ status[s] \in {"reset", "gone"}
    /\ consume_connection_recv_bytes(n, n)
    /\ UNCHANGED <<status, buffer, unconsumed, running, overheld>>

(* ... of an established session: process_capsules follows.                *)
RecvData(s, n) ==
    /\ Receivable(s, n)
    /\ status[s] = "open"
    /\ unconsumed' = [unconsumed EXCEPT ![s] = @ + n]
    /\ buffer' = [buffer EXCEPT ![s] = @ + n]
    /\ recv_window' = recv_window + n
    /\ running' = [running EXCEPT ![s] = "on_recv_data"]
    /\ UNCHANGED <<status, consumed, overheld>>

(* ... of a server's session before accept_session: kept up to the limit,  *)
(* rejected with 413 beyond it.                                            *)
RecvDataPending(s, n) ==
    /\ Receivable(s, n)
    /\ status[s] = "pending"
    /\ buffer[s] + n <= pre_accept_buffer_limit
    /\ unconsumed' = [unconsumed EXCEPT ![s] = @ + n]
    /\ buffer' = [buffer EXCEPT ![s] = @ + n]
    /\ recv_window' = recv_window + n
    /\ UNCHANGED <<status, consumed, running, overheld>>

RecvDataRejected(s, n) ==
    /\ Receivable(s, n)
    /\ status[s] = "pending"
    /\ buffer[s] + n > pre_accept_buffer_limit
    /\ discard_stream_recv_bytes(s, n)
    /\ buffer' = [buffer EXCEPT ![s] = 0]
    /\ status' = [status EXCEPT ![s] = "gone"]
    /\ UNCHANGED <<running, overheld>>

(* accept_session: established, then process_capsules on what was kept.    *)
AcceptSession(s) ==
    /\ Quiet
    /\ status[s] = "pending"
    /\ status' = [status EXCEPT ![s] = "open"]
    /\ running' = [running EXCEPT ![s] = "accept_session"]
    /\ UNCHANGED <<buffer, unconsumed, recv_window, consumed, overheld>>

-----------------------------------------------------------------------------
(* process_capsules: no other step while it runs.                          *)

InLoop(s) == running[s] # "no"

(* The next k bytes are a capsule the session survives.                    *)
ProcessCapsule(s, k) ==
    /\ InLoop(s)
    /\ k <= buffer[s]
    /\ consume_recv_bytes(s, k)
    /\ buffer' = [buffer EXCEPT ![s] = @ - k]
    /\ UNCHANGED <<status, running, overheld>>

(* A capsule that ends the session is consumed, then the rest is           *)
(* discarded: what the two calls give back, for first and rest bytes.      *)
FirstBack(first) ==
    IF first = 0 THEN 0 ELSE returned(recv_window, consumed + first)

SecondBack(first, rest) ==
    IF rest = 0 THEN 0
    ELSE returned(recv_window - FirstBack(first),
                  consumed + first - FirstBack(first) + rest)

(* They are one that ends it: a peer's WT_CLOSE_SESSION, or an error that  *)
(* makes close_session run.                                                *)
ProcessClosingCapsule(s, k) ==
    /\ InLoop(s)
    /\ k <= buffer[s]
    /\ LET first == consumable(s, k)
           rest  == unconsumed[s] - first
           back  == FirstBack(first) + SecondBack(first, rest)
       IN  /\ recv_window' = recv_window - back
           /\ consumed' = consumed + first + rest - back
    /\ unconsumed' = [unconsumed EXCEPT ![s] = 0]
    /\ buffer' = [buffer EXCEPT ![s] = 0]
    /\ status' = [status EXCEPT ![s] = "gone"]
    /\ running' = [running EXCEPT ![s] = "no"]
    /\ UNCHANGED overheld

(* reset_stream_for_malformed_capsule: RST_STREAM is submitted, the bytes  *)
(* are given back when the stream closes.                                  *)
ProcessMalformedCapsule(s, k) ==
    /\ InLoop(s)
    /\ k <= buffer[s]
    /\ consume_recv_bytes(s, k)
    /\ buffer' = [buffer EXCEPT ![s] = 0]
    /\ status' = [status EXCEPT ![s] = "reset"]
    /\ running' = [running EXCEPT ![s] = "no"]
    /\ UNCHANGED overheld

(* Mutated form: nothing is consumed before the capsule is complete.       *)
excess_None(s) == 0

(* The bytes of an unfinished capsule on_recv_data_callback consumes;      *)
(* accept_session has no such step.                                        *)
excess(s) ==
    IF /\ running[s] = "on_recv_data"
       /\ buffer[s] > max_unfinished
    THEN buffer[s] - max_unfinished ELSE 0

(* No complete capsule is left: one that is still unfinished is within the *)
(* limit on payloads, process_capsules closes the session otherwise.       *)
LoopEnds(s) ==
    /\ InLoop(s)
    /\ buffer[s] < max_capsule_size
    /\ consume_recv_bytes(s, excess(s))
    /\ running' = [running EXCEPT ![s] = "no"]
    /\ overheld' = IF running[s] = "accept_session" /\ unconsumed[s] > max_unfinished
                   THEN overheld \cup {s} ELSE overheld \ {s}
    /\ UNCHANGED <<status, buffer>>

-----------------------------------------------------------------------------
(* The end of a session: close_session, a non-2xx or 2xx reject_session,   *)
(* handle_end_stream on a capsule boundary.                                *)
EndSession(s) ==
    /\ Quiet
    /\ status[s] \in {"pending", "open"}
    /\ discard_stream_recv_bytes(s, 0)
    /\ buffer' = [buffer EXCEPT ![s] = 0]
    /\ status' = [status EXCEPT ![s] = "gone"]
    /\ UNCHANGED <<running, overheld>>

(* on_stream_close_callback.                                               *)
StreamClose(s) ==
    /\ Quiet
    /\ status[s] \in {"pending", "open", "reset"}
    /\ discard_stream_recv_bytes(s, 0)
    /\ buffer' = [buffer EXCEPT ![s] = 0]
    /\ status' = [status EXCEPT ![s] = "gone"]
    /\ UNCHANGED <<running, overheld>>

-----------------------------------------------------------------------------
Arrival(s, n) ==
    \/ RecvDataDropped(s, n)
    \/ RecvData(s, n)
    \/ RecvDataPending(s, n)
    \/ RecvDataRejected(s, n)

Capsule(s, k) ==
    \/ ProcessCapsule(s, k)
    \/ ProcessClosingCapsule(s, k)
    \/ ProcessMalformedCapsule(s, k)

Next == \E s \in Session :
            \/ NewSession(s)
            \/ AcceptSession(s)
            \/ \E n \in 1 .. MaxFrame : Arrival(s, n)
            \/ \E k \in 1 .. buffer[s] : Capsule(s, k)
            \/ LoopEnds(s)
            \/ EndSession(s)
            \/ StreamClose(s)

Spec == Init /\ [][Next]_vars

-----------------------------------------------------------------------------
(* Properties.                                                             *)

(* Every counter is a natural number of its kind.                          *)
TypeOK == /\ status \in [Session -> Status]
          /\ buffer \in [Session -> Nat]
          /\ unconsumed \in [Session -> Nat]
          /\ recv_window \in Nat
          /\ consumed \in Nat
          /\ running \in [Session -> Loop]
          /\ overheld \subseteq Session

(* No byte of window is lost or returned twice: what was received and not  *)
(* returned is what waits below the return threshold plus what each        *)
(* session still holds.                                                    *)
WindowConserved ==
    recv_window = consumed + SumFunctionOnSet(unconsumed, Session)

(* What a session holds of the connection window it also has buffered, and *)
(* nothing once it is over, however it ended: the whole window is open     *)
(* again when every capsule has been delivered, and a connection that      *)
(* outlives many sessions is not slowly strangled.                         *)
HeldIsBuffered ==
    \A s \in Session :
        /\ status[s] \in {"idle", "gone"} => unconsumed[s] = 0
        /\ status[s] \in {"pending", "open"} => unconsumed[s] <= buffer[s]

Live == {s \in Session : status[s] \in {"pending", "open", "reset"}}

Alone(s) == Quiet /\ Live = {s} /\ status[s] = "open"

(* The peer may send at least one more byte on the stream of s.            *)
HasRoom(s) == /\ recv_window < conn_local_window_size
              /\ unconsumed[s] < initial_window_size

(* While one session is live and established, on_recv_data_callback never  *)
(* leaves the window closed on it: the peer may always send one more byte, *)
(* so a capsule larger than the window still arrives in full, whatever the *)
(* sessions before it left to be returned.  It takes max_unfinished +      *)
(* conn_local_window_size \div 2 to fit into the window, which             *)
(* 32768 + 32767 just does.  Excepted is a session that accept_session     *)
(* left with more than the threshold and that received nothing since.      *)
WindowOpen ==
    \A s \in Session : Alone(s) /\ s \notin overheld => HasRoom(s)

(* The same without the exception, as the comment in on_recv_data_callback *)
(* has it: what is unfinished is consumed early so that the rest of it can *)
(* be received.  accept_session consumes nothing early.                    *)
WindowOpenAlone == \A s \in Session : Alone(s) => HasRoom(s)

(* And for any number of established sessions of the connection: the       *)
(* comment speaks of the window, which all of them share.                  *)
WindowOpenForAll ==
    (Quiet /\ \A s \in Live : status[s] = "open") =>
        recv_window < conn_local_window_size

=============================================================================
