-------------------------- MODULE QuicLife_proofs --------------------------
(***************************************************************************)
(* Safety of the life of a QuicConnection, for any number of events and of *)
(* packets during the closing period.  The invariant is the conjunction of *)
(* what each property needs to be inductive:                               *)
(*                                                                         *)
(*   - Phases ties ngtcp2's state to the flags of the binding while the    *)
(*     connection lives;                                                   *)
(*   - Kept says that a kept CONNECTION_CLOSE belongs to a connection the  *)
(*     application closed, for which nothing was reported;                 *)
(*   - the properties themselves.                                          *)
(***************************************************************************)
EXTENDS QuicLife, TLAPS

Phases ==
    ~closed => /\ ngst \in Active
               /\ handshake_completed <=> ngst \in {"completed", "post"}
               /\ is_server => ngst # "completed"
               /\ post_handshake_write_done => ngst = "post"

NoEnd == \A i \in 1..Len(log) : log[i].type # "ConnectionClosed"

Kept ==
    /\ ngst = "closing" => closed /\ NoEnd
    /\ pending_close_packet => ngst = "closing"

-----------------------------------------------------------------------------
(* An event is appended: the log keeps its type, and its last element is   *)
(* the event.                                                              *)
LEMMA LogGrows ==
    ASSUME TypeOK, NEW t \in EventType, NEW r \in Reason, push_event(t, r)
    PROVE  /\ log' \in Seq(Event)
           /\ Len(log') = Len(log) + 1
           /\ taken \in 0..Len(log')
           /\ \A i \in 1..Len(log) : log'[i] = log[i]
           /\ log'[Len(log) + 1].type = t
<1> DEFINE e == [type |-> t, reason |-> r]
<1>1. e \in Event /\ e.type = t
  BY DEF Event
<1>2. log' = Append(log, e) /\ log \in Seq(Event) /\ taken \in 0..Len(log)
  BY DEF push_event, TypeOK
<1> HIDE DEF e
<1> QED
  BY <1>1, <1>2

(* What ends a connection pushes one ConnectionClosed.                     *)
LEMMA EndLogs ==
    ASSUME TypeOK, NEW r \in Reason, End(r)
    PROVE  /\ closed' = TRUE
           /\ log' \in Seq(Event)
           /\ Len(log') = Len(log) + 1
           /\ taken \in 0..Len(log')
           /\ \A i \in 1..Len(log) : log'[i] = log[i]
           /\ log'[Len(log) + 1].type = "ConnectionClosed"
<1>1. push_event("ConnectionClosed", r) /\ closed' = TRUE
  BY DEF End
<1>2. "ConnectionClosed" \in EventType
  BY DEF EventType
<1> QED
  BY <1>1, <1>2, LogGrows

LEMMA TypeInit == Init => TypeOK
<1> SUFFICES ASSUME Init PROVE TypeOK
  OBVIOUS
<1>1. log \in Seq(Event) /\ taken \in 0..Len(log)
  BY DEF Init
<1>2. ngst \in NgState /\ verify \in VerifyOutcome
  BY DEF Init, NgState, VerifyOutcome
<1> QED
  BY <1>1, <1>2 DEF Init, TypeOK

(* Every action keeps the types.                                           *)
LEMMA TypeReceiveEnd ==
    ASSUME TypeOK, NEW reason \in Reason, NEW st \in NgState,
           ReceiveEnd(reason, st)
    PROVE  TypeOK'
<1>1. log' \in Seq(Event) /\ taken \in 0..Len(log') /\ closed' = TRUE
  BY EndLogs DEF ReceiveEnd
<1> QED
  BY <1>1 DEF TypeOK, ReceiveEnd, closing, verifying

LEMMA TypeReceiveCryptoError ==
    ASSUME TypeOK, NEW v \in VerifyOutcome, ReceiveCryptoError(v)
    PROVE  TypeOK'
<1>1. consume_verify_error(remembered(v)) \in Reason
  BY DEF consume_verify_error, Reason
<1>2. End(consume_verify_error(remembered(v)))
  BY DEF ReceiveCryptoError
<1>3. log' \in Seq(Event) /\ taken \in 0..Len(log') /\ closed' = TRUE
  BY <1>1, <1>2, EndLogs
<1>4. verify' \in VerifyOutcome /\ raised' \in Nat /\ interrupts' \in Nat
  BY DEF TypeOK, ReceiveCryptoError, throw_pending_verify_interrupt,
         VerifyOutcome
<1>5. ngst' \in NgState
  BY DEF ReceiveCryptoError, NgState
<1> QED
  BY <1>3, <1>4, <1>5 DEF TypeOK, ReceiveCryptoError, closing

LEMMA TypeReceiveHandshakeEnd ==
    ASSUME TypeOK, ReceiveHandshakeEnd
    PROVE  TypeOK'
<1>1. "HandshakeCompleted" \in EventType /\ "" \in Reason
  BY DEF EventType, Reason
<1>2. push_event("HandshakeCompleted", "")
  BY DEF ReceiveHandshakeEnd
<1>3. log' \in Seq(Event) /\ taken \in 0..Len(log')
  BY <1>1, <1>2, LogGrows
<1>4. ngst' \in NgState /\ verify' \in VerifyOutcome
  BY DEF ReceiveHandshakeEnd, NgState, VerifyOutcome
<1> QED
  BY <1>3, <1>4 DEF TypeOK, ReceiveHandshakeEnd, closing

LEMMA TypeReceiveEvent ==
    ASSUME TypeOK, ReceiveEvent
    PROVE  TypeOK'
<1>1. "StreamData" \in EventType /\ "" \in Reason
  BY DEF EventType, Reason
<1>2. push_event("StreamData", "")
  BY DEF ReceiveEvent
<1>3. log' \in Seq(Event) /\ taken \in 0..Len(log')
  BY <1>1, <1>2, LogGrows
<1> QED
  BY <1>3 DEF TypeOK, ReceiveEvent, closing, verifying

LEMMA TypeReceiveWhileClosing ==
    ASSUME TypeOK, ReceiveWhileClosing
    PROVE  TypeOK'
<1>1. CASE pending_close_packet
  BY <1>1 DEF TypeOK, ReceiveWhileClosing, verifying
<1>2. CASE ~pending_close_packet
  <2>1. "connection closing" \in Reason
    BY DEF Reason
  <2>2. End("connection closing")
    BY <1>2 DEF ReceiveWhileClosing
  <2>3. log' \in Seq(Event) /\ taken \in 0..Len(log') /\ closed' = TRUE
    BY <2>1, <2>2, EndLogs
  <2> QED
    <3>0. heard \in Nat /\ heard' = heard + 1
      BY Zenon DEF TypeOK, ReceiveWhileClosing
    <3>1. heard' \in Nat
      BY <3>0
    <3>2. close_packet_armed' = close_packet_armed
      BY <1>2 DEF ReceiveWhileClosing
    <3> QED
      BY <2>3, <3>1, <3>2 DEF TypeOK, ReceiveWhileClosing, verifying
<1> QED
  BY <1>1, <1>2

LEMMA TypeStreamCallFails ==
    ASSUME TypeOK, StreamCallFails
    PROVE  TypeOK'
<1>1. "stream shutdown error" \in Reason /\ "failed" \in NgState
  BY DEF Reason, NgState
<1>2. log' \in Seq(Event) /\ taken \in 0..Len(log') /\ closed' = TRUE
  BY <1>1, EndLogs DEF StreamCallFails
<1> QED
  BY <1>1, <1>2 DEF TypeOK, StreamCallFails, closing, verifying

LEMMA TypeHandleExpiry ==
    ASSUME TypeOK, NEW outcome \in ExpiryOutcome, HandleExpiry(outcome)
    PROVE  TypeOK'
<1>1. CASE outcome = "none"
  BY <1>1 DEF TypeOK, HandleExpiry, closing, verifying
<1>2. CASE outcome # "none"
  <2>1. outcome \in Reason /\ "failed" \in NgState
    BY <1>2 DEF ExpiryOutcome, Reason, NgState
  <2>2. log' \in Seq(Event) /\ taken \in 0..Len(log') /\ closed' = TRUE
    BY <1>2, <2>1, EndLogs DEF HandleExpiry
  <2> QED
    BY <1>2, <2>1, <2>2 DEF TypeOK, HandleExpiry, closing, verifying
<1> QED
  BY <1>1, <1>2

LEMMA TypeNext == TypeOK /\ [Next]_vars => TypeOK'
<1> SUFFICES ASSUME TypeOK, [Next]_vars PROVE TypeOK'
  OBVIOUS
<1>0. CASE UNCHANGED vars
  BY <1>0 DEF TypeOK, vars, closing, verifying
<1>1. CASE Receive
  <2>1. CASE ReceiveEnd("connection draining", "draining")
    BY <2>1, TypeReceiveEnd DEF Reason, NgState
  <2>2. ASSUME NEW reason \in {"connection dropped", "retry required", "fatal error"},
               ReceiveEnd(reason, "failed")
        PROVE  TypeOK'
    BY <2>2, TypeReceiveEnd DEF Reason, NgState
  <2> QED
    BY <1>1, <2>1, <2>2, TypeReceiveCryptoError, TypeReceiveHandshakeEnd,
       TypeReceiveEvent, TypeReceiveWhileClosing DEF Receive
<1>2. CASE SendFirstClose
  BY <1>2 DEF TypeOK, SendFirstClose, verifying
<1>3. CASE SendReply
  <2>1. replies' \in Nat
    BY <1>3 DEF TypeOK, SendReply
  <2> QED
    BY <1>3, <2>1 DEF TypeOK, SendReply, rearmed, verifying
<1>4. ASSUME NEW short \in BOOLEAN, NEW moves \in BOOLEAN, SendPacket(short, moves)
      PROVE  TypeOK'
  <2>1. ngst' \in NgState
    BY <1>4 DEF TypeOK, SendPacket, NgState
  <2>2. post_handshake_write_done' \in BOOLEAN
    BY <1>4 DEF TypeOK, SendPacket, recorded
  <2> QED
    BY <1>4, <2>1, <2>2 DEF TypeOK, SendPacket, closing, verifying
<1>5. ASSUME NEW written \in BOOLEAN, Close(written)
      PROVE  TypeOK'
  <2>1. ngst' \in NgState
    BY <1>5 DEF TypeOK, Close, NgState
  <2>2. post_handshake_write_done' \in BOOLEAN
    BY <1>5 DEF TypeOK, Close, recorded
  <2> QED
    BY <1>5, <2>1, <2>2 DEF TypeOK, Close, verifying
<1>6. CASE InitiateKeyUpdate
  <2>1. aborted' \in BOOLEAN
    BY <1>6 DEF InitiateKeyUpdate
  <2> QED
    BY <1>6, <2>1 DEF TypeOK, InitiateKeyUpdate, closing, verifying
<1>7. CASE next_event
  BY <1>7 DEF TypeOK, next_event, closing, verifying
<1>8. CASE Tick
  BY <1>8 DEF TypeOK, Tick, verifying
<1>9. CASE DropClosePacket
  BY <1>9 DEF TypeOK, DropClosePacket, verifying
<1> QED
  BY <1>0, <1>1, <1>2, <1>3, <1>4, <1>5, <1>6, <1>7, <1>8, <1>9,
     TypeStreamCallFails, TypeHandleExpiry DEF Next

(* Every flag, counter and event keeps its type, for all bounds, and a     *)
(* CONNECTION_CLOSE is armed only while it is kept.                        *)
THEOREM TypeCorrect == Spec => []TypeOK
  BY TypeInit, TypeNext, PTL DEF Spec

-----------------------------------------------------------------------------
(* Key updates.                                                            *)

LEMMA PhasesInit == Init => Phases /\ KeyUpdateSafe
  BY DEF Init, Phases, KeyUpdateSafe, Active

(* While the connection lives, the flags say where ngtcp2 is.              *)
LEMMA PhasesNext == TypeOK /\ Phases /\ [Next]_vars => Phases'
<1> SUFFICES ASSUME TypeOK, Phases, [Next]_vars PROVE Phases'
  OBVIOUS
<1>0. CASE UNCHANGED vars
  BY <1>0 DEF Phases, vars
<1>1. CASE Receive
  <2>1. ASSUME NEW reason, NEW st, ReceiveEnd(reason, st) PROVE Phases'
    BY <2>1 DEF ReceiveEnd, End, Phases
  <2>2. ASSUME NEW v, ReceiveCryptoError(v) PROVE Phases'
    BY <2>2 DEF ReceiveCryptoError, End, Phases
  <2>3. CASE ReceiveHandshakeEnd
    BY <2>3 DEF ReceiveHandshakeEnd, Phases, Active
  <2>4. CASE ReceiveEvent
    BY <2>4 DEF ReceiveEvent, Phases
  <2>5. CASE ReceiveWhileClosing
    BY <2>5 DEF ReceiveWhileClosing, End, Phases
  <2> QED
    BY <1>1, <2>1, <2>2, <2>3, <2>4, <2>5 DEF Receive
<1>2. CASE SendFirstClose \/ SendReply
  BY <1>2 DEF SendFirstClose, SendReply, Phases
<1>3. ASSUME NEW short \in BOOLEAN, NEW moves \in BOOLEAN, SendPacket(short, moves)
      PROVE  Phases'
  <2>1. ~closed /\ closed' = closed /\ is_server' = is_server
        /\ handshake_completed' = handshake_completed
    BY <1>3 DEF SendPacket
  <2>2. CASE moves
    BY <1>3, <2>1, <2>2 DEF SendPacket, Phases, Active
  <2>3. CASE ~moves
    <3>1. ngst' = ngst
      BY <1>3, <2>3 DEF SendPacket
    <3>2. post_handshake_write_done' => ngst = "post"
      BY <1>3, <2>1, <3>1 DEF SendPacket, Phases, recorded
    <3> QED
      BY <2>1, <3>1, <3>2 DEF Phases
  <2> QED
    BY <2>2, <2>3
<1>4. ASSUME NEW written \in BOOLEAN, Close(written) PROVE Phases'
  BY <1>4 DEF Close, Phases
<1>5. CASE StreamCallFails
  BY <1>5 DEF StreamCallFails, End, Phases
<1>6. CASE InitiateKeyUpdate \/ next_event \/ Tick \/ DropClosePacket
  BY <1>6 DEF InitiateKeyUpdate, next_event, Tick, DropClosePacket, Phases
<1>7. ASSUME NEW outcome \in ExpiryOutcome, HandleExpiry(outcome) PROVE Phases'
  <2>1. CASE outcome = "none"
    BY <1>7, <2>1 DEF HandleExpiry, Phases
  <2>2. CASE outcome # "none"
    BY <1>7, <2>2 DEF HandleExpiry, End, Phases
  <2> QED
    BY <2>1, <2>2
<1> QED
  BY <1>0, <1>1, <1>2, <1>3, <1>4, <1>5, <1>6, <1>7 DEF Next

(* Only initiate_key_update could abort, and it is admitted in post alone. *)
LEMMA KeyUpdateNext == Phases /\ KeyUpdateSafe /\ [Next]_vars => KeyUpdateSafe'
<1> SUFFICES ASSUME Phases, KeyUpdateSafe, [Next]_vars PROVE KeyUpdateSafe'
  OBVIOUS
<1> USE DEF KeyUpdateSafe
<1>1. CASE InitiateKeyUpdate
  <2>1. ngst = "post"
    BY <1>1 DEF InitiateKeyUpdate, key_update_admitted, Phases, Active
  <2> QED
    BY <1>1, <2>1 DEF InitiateKeyUpdate
<1>2. CASE Receive
  BY <1>2 DEF Receive, ReceiveEnd, ReceiveCryptoError, ReceiveHandshakeEnd,
     ReceiveEvent, ReceiveWhileClosing
<1>3. ASSUME NEW short, NEW moves, SendPacket(short, moves) PROVE ~aborted'
  BY <1>3 DEF SendPacket
<1>4. ASSUME NEW written, Close(written) PROVE ~aborted'
  BY <1>4 DEF Close
<1>5. ASSUME NEW outcome, HandleExpiry(outcome) PROVE ~aborted'
  BY <1>5 DEF HandleExpiry
<1>6. CASE SendFirstClose \/ SendReply \/ StreamCallFails \/ next_event \/ Tick
           \/ DropClosePacket
  BY <1>6 DEF SendFirstClose, SendReply, StreamCallFails, next_event, Tick,
     DropClosePacket
<1>7. CASE UNCHANGED vars
  BY <1>7 DEF vars
<1> QED
  BY <1>1, <1>2, <1>3, <1>4, <1>5, <1>6, <1>7 DEF Next

(* KeyUpdateSafe: initiate_key_update never meets ngtcp2's assertion, for  *)
(* clients and servers alike.                                              *)
THEOREM KeyUpdatesSafe == Spec => []KeyUpdateSafe
<1>1. TypeOK /\ Phases /\ KeyUpdateSafe /\ [Next]_vars
        => (TypeOK /\ Phases /\ KeyUpdateSafe)'
  BY TypeNext, PhasesNext, KeyUpdateNext
<1> QED
  BY <1>1, TypeInit, PhasesInit, PTL DEF Spec

-----------------------------------------------------------------------------
(* Answers while closing.                                                  *)

(* Only SendReply adds a reply, and what is armed was paid for.            *)
LEMMA AnswersNext == TypeOK /\ AnswersBounded /\ [Next]_vars => AnswersBounded'
<1> SUFFICES ASSUME TypeOK, AnswersBounded, [Next]_vars PROVE AnswersBounded'
  OBVIOUS
<1>1. heard \in Nat /\ replies \in Nat
  BY DEF TypeOK
<1>2. replies <= heard
  BY <1>1 DEF AnswersBounded
<1>3. ASSUME UNCHANGED <<close_packet_armed, close_packet_delivered_once, heard, replies>>
      PROVE  AnswersBounded'
  BY <1>3 DEF AnswersBounded
<1>4. ASSUME UNCHANGED <<heard, replies>>, ~close_packet_armed' \/ ~close_packet_delivered_once'
      PROVE  AnswersBounded'
  BY <1>1, <1>2, <1>4 DEF AnswersBounded
<1>5. CASE Receive
  <2>1. CASE ReceiveWhileClosing
    <3>1. heard' = heard + 1 /\ replies' = replies
      BY <2>1 DEF ReceiveWhileClosing
    <3> QED
      BY <1>1, <1>2, <3>1 DEF AnswersBounded
  <2>2. CASE ~ReceiveWhileClosing
    BY <1>3, <1>5, <2>2 DEF Receive, ReceiveEnd, ReceiveCryptoError,
       ReceiveHandshakeEnd, ReceiveEvent, closing
  <2> QED
    BY <2>1, <2>2
<1>6. CASE SendFirstClose
  BY <1>4, <1>6 DEF SendFirstClose
<1>7. CASE SendReply
  <2>1. replies + 1 <= heard
    BY <1>1, <1>7 DEF SendReply, AnswersBounded
  <2>2. close_packet_armed' = FALSE /\ replies' = replies + 1 /\ heard' = heard
    BY <1>7 DEF SendReply, rearmed
  <2> QED
    BY <1>1, <2>1, <2>2 DEF AnswersBounded
<1>8. ASSUME NEW short, NEW moves, SendPacket(short, moves) PROVE AnswersBounded'
  BY <1>3, <1>8 DEF SendPacket, closing
<1>9. ASSUME NEW written, Close(written) PROVE AnswersBounded'
  BY <1>4, <1>9 DEF Close
<1>10. ASSUME NEW outcome, HandleExpiry(outcome) PROVE AnswersBounded'
  BY <1>3, <1>10 DEF HandleExpiry, closing
<1>11. CASE StreamCallFails \/ InitiateKeyUpdate \/ next_event \/ Tick
  BY <1>3, <1>11 DEF StreamCallFails, InitiateKeyUpdate, next_event, Tick, closing
<1>12. CASE DropClosePacket
  BY <1>4, <1>12 DEF DropClosePacket
<1>13. CASE UNCHANGED vars
  BY <1>3, <1>13 DEF vars, closing
<1> QED
  BY <1>5, <1>6, <1>7, <1>8, <1>9, <1>10, <1>11, <1>12, <1>13 DEF Next

(* AnswersBounded, for any number of packets during the closing period.    *)
THEOREM AnswersAlwaysBounded == Spec => []AnswersBounded
<1>1. Init => AnswersBounded
  BY DEF Init, AnswersBounded
<1>2. TypeOK /\ AnswersBounded /\ [Next]_vars => (TypeOK /\ AnswersBounded)'
  BY TypeNext, AnswersNext
<1> QED
  BY <1>1, <1>2, TypeInit, PTL DEF Spec

-----------------------------------------------------------------------------
(* Interrupts of the certificate callback.                                 *)

Surfaced == InterruptsSurface /\ verify = "none"

(* closed_ is never taken back.                                            *)
LEMMA ClosedStays == TypeOK /\ closed /\ [Next]_vars => closed'
<1> SUFFICES ASSUME closed, [Next]_vars PROVE closed'
  OBVIOUS
<1>1. CASE Receive
  BY <1>1 DEF Receive, ReceiveEnd, ReceiveCryptoError, ReceiveHandshakeEnd,
     ReceiveEvent, ReceiveWhileClosing, End
<1>2. CASE UNCHANGED vars
  BY <1>2 DEF vars
<1>3. ASSUME NEW short, NEW moves, SendPacket(short, moves) PROVE closed'
  BY <1>3 DEF SendPacket
<1>4. ASSUME NEW written, Close(written) PROVE closed'
  BY <1>4 DEF Close
<1>5. ASSUME NEW outcome, HandleExpiry(outcome) PROVE closed'
  BY <1>5 DEF HandleExpiry
<1>6. CASE SendFirstClose \/ SendReply \/ StreamCallFails \/ InitiateKeyUpdate
           \/ next_event \/ Tick \/ DropClosePacket
  BY <1>6 DEF SendFirstClose, SendReply, StreamCallFails, InitiateKeyUpdate,
     next_event, Tick, DropClosePacket, End
<1> QED
  BY <1>1, <1>2, <1>3, <1>4, <1>5, <1>6 DEF Next

LEMMA SurfacedNext == TypeOK /\ Surfaced /\ [Next]_vars => Surfaced'
<1> SUFFICES ASSUME TypeOK, Surfaced, [Next]_vars PROVE Surfaced'
  OBVIOUS
<1>1. raised \in Nat /\ interrupts \in Nat /\ raised = interrupts /\ verify = "none"
      /\ (raised > 0 => closed)
  BY DEF TypeOK, Surfaced, InterruptsSurface
<1>2. closed => closed'
  BY ClosedStays
<1>3. ASSUME UNCHANGED verifying PROVE Surfaced'
  <2>1. verify' = verify /\ raised' = raised /\ interrupts' = interrupts
    BY <1>3 DEF verifying
  <2> QED
    BY <1>1, <1>2, <2>1 DEF Surfaced, InterruptsSurface
<1>4. ASSUME NEW v \in VerifyOutcome, ReceiveCryptoError(v) PROVE Surfaced'
  <2>1. closed' = TRUE
    BY <1>4 DEF ReceiveCryptoError, End
  <2>2. verify' = "none" /\ raised' = interrupts'
    BY <1>1, <1>4 DEF ReceiveCryptoError, remembered, throw_pending_verify_interrupt
  <2> QED
    BY <2>1, <2>2 DEF Surfaced, InterruptsSurface
<1>5. CASE ReceiveHandshakeEnd
  <2>1. verify' = "none" /\ raised' = raised /\ interrupts' = interrupts
    BY <1>5 DEF ReceiveHandshakeEnd
  <2> QED
    BY <1>1, <1>2, <2>1 DEF Surfaced, InterruptsSurface
<1>6. CASE Receive
  <2>1. ASSUME NEW reason, NEW st, ReceiveEnd(reason, st) PROVE Surfaced'
    BY <1>3, <2>1 DEF ReceiveEnd
  <2>2. CASE ReceiveEvent \/ ReceiveWhileClosing
    BY <1>3, <2>2 DEF ReceiveEvent, ReceiveWhileClosing
  <2> QED
    BY <1>4, <1>5, <1>6, <2>1, <2>2 DEF Receive
<1>7. ASSUME NEW short, NEW moves, SendPacket(short, moves) PROVE Surfaced'
  BY <1>3, <1>7 DEF SendPacket
<1>8. ASSUME NEW written, Close(written) PROVE Surfaced'
  BY <1>3, <1>8 DEF Close
<1>9. ASSUME NEW outcome, HandleExpiry(outcome) PROVE Surfaced'
  BY <1>3, <1>9 DEF HandleExpiry
<1>10. CASE SendFirstClose \/ SendReply \/ StreamCallFails \/ InitiateKeyUpdate
            \/ next_event \/ Tick \/ DropClosePacket
  BY <1>3, <1>10 DEF SendFirstClose, SendReply, StreamCallFails,
     InitiateKeyUpdate, next_event, Tick, DropClosePacket
<1>11. CASE UNCHANGED vars
  BY <1>3, <1>11 DEF vars
<1> QED
  BY <1>6, <1>7, <1>8, <1>9, <1>10, <1>11 DEF Next

(* InterruptsSurface, for every sequence of calls and packets.             *)
THEOREM InterruptsAlwaysSurface == Spec => []InterruptsSurface
<1>1. Init => Surfaced
  BY DEF Init, Surfaced, InterruptsSurface
<1>2. TypeOK /\ Surfaced /\ [Next]_vars => (TypeOK /\ Surfaced)'
  BY TypeNext, SurfacedNext
<1>3. Surfaced => InterruptsSurface
  BY DEF Surfaced
<1> QED
  BY <1>1, <1>2, <1>3, TypeInit, PTL DEF Spec

-----------------------------------------------------------------------------
(* The last event.                                                         *)

LastInv == Phases /\ Kept /\ ClosedIsLast

(* A live connection has reported no end.                                  *)
LEMMA LiveNoEnd == ASSUME LastInv, ~closed PROVE NoEnd /\ ngst \in Active
  BY DEF LastInv, ClosedIsLast, NoEnd, Phases

(* An end that is reported on a live connection is the first and the last. *)
LEMMA EndIsLast ==
    ASSUME TypeOK, LastInv, ~closed, NEW r \in Reason, End(r),
           ngst' # "closing", UNCHANGED pending_close_packet
    PROVE  Kept' /\ ClosedIsLast'
<1>1. NoEnd /\ log \in Seq(Event) /\ closed' = TRUE
  BY LiveNoEnd DEF End, TypeOK
<1>2. Len(log') = Len(log) + 1 /\ \A i \in 1..Len(log) : log'[i] = log[i]
  BY EndLogs
<1>3. Len(log) \in Nat
  BY <1>1
<1>4. ASSUME NEW i \in 1..Len(log'), log'[i].type = "ConnectionClosed"
      PROVE  i = Len(log')
  <2>1. CASE i \in 1..Len(log)
    BY <1>1, <1>2, <1>4, <2>1 DEF NoEnd
  <2> QED
    BY <1>2, <1>3, <1>4, <2>1
<1>5. ClosedIsLast'
  BY <1>1, <1>4 DEF ClosedIsLast
<1>6. ~pending_close_packet
  BY LiveNoEnd DEF LastInv, Kept, Active
<1> QED
  BY <1>5, <1>6 DEF Kept

(* Another event on a live connection.                                     *)
LEMMA EventIsNotLast ==
    ASSUME TypeOK, LastInv, ~closed, NEW t \in EventType \ {"ConnectionClosed"},
           NEW r \in Reason, push_event(t, r), ngst' # "closing",
           UNCHANGED pending_close_packet
    PROVE  Kept' /\ ClosedIsLast'
<1>1. NoEnd /\ log \in Seq(Event)
  BY LiveNoEnd DEF TypeOK
<1>2. Len(log') = Len(log) + 1 /\ (\A i \in 1..Len(log) : log'[i] = log[i])
      /\ log'[Len(log) + 1].type = t
  BY LogGrows
<1>3. Len(log) \in Nat
  BY <1>1
<1>4. ASSUME NEW i \in 1..Len(log') PROVE log'[i].type # "ConnectionClosed"
  <2>1. CASE i \in 1..Len(log)
    BY <1>1, <1>2, <2>1 DEF NoEnd
  <2>2. CASE i = Len(log) + 1
    BY <1>2, <2>2
  <2> QED
    BY <1>2, <1>3, <2>1, <2>2
<1>5. ~pending_close_packet
  BY LiveNoEnd DEF LastInv, Kept, Active
<1> QED
  BY <1>4, <1>5 DEF Kept, ClosedIsLast

(* A step that pushes nothing and leaves ngtcp2 where it is.               *)
LEMMA QuietStep ==
    ASSUME LastInv, UNCHANGED <<log, ngst, closed>>,
           pending_close_packet' => pending_close_packet
    PROVE  Kept' /\ ClosedIsLast'
  BY DEF LastInv, Kept, ClosedIsLast, NoEnd

LEMMA AdmittedLives == ASSUME LastInv, admitted, ngst # "closing" PROVE ~closed
  BY DEF LastInv, Kept, admitted

LEMMA LastNext == TypeOK /\ LastInv /\ [Next]_vars => LastInv'
<1> SUFFICES ASSUME TypeOK, LastInv, [Next]_vars PROVE Kept' /\ ClosedIsLast'
  BY PhasesNext DEF LastInv
<1>1. ASSUME NEW reason \in Reason, NEW st \in NgState \ {"closing"},
             ReceiveEnd(reason, st)
      PROVE  Kept' /\ ClosedIsLast'
  <2>1. ~closed
    BY <1>1, AdmittedLives DEF ReceiveEnd
  <2> QED
    BY <1>1, <2>1, EndIsLast DEF ReceiveEnd, closing
<1>2. ASSUME NEW v \in VerifyOutcome, ReceiveCryptoError(v)
      PROVE  Kept' /\ ClosedIsLast'
  <2>1. ~closed
    BY <1>2, AdmittedLives DEF ReceiveCryptoError, Active
  <2>2. consume_verify_error(remembered(v)) \in Reason
    BY DEF consume_verify_error, Reason
  <2>3. End(consume_verify_error(remembered(v))) /\ ngst' # "closing"
        /\ UNCHANGED pending_close_packet
    BY <1>2 DEF ReceiveCryptoError, closing
  <2> QED
    BY <2>1, <2>2, <2>3, EndIsLast
<1>3. CASE ReceiveHandshakeEnd
  <2>1. ~closed
    BY <1>3, AdmittedLives DEF ReceiveHandshakeEnd
  <2>2. push_event("HandshakeCompleted", "") /\ ngst' # "closing"
        /\ UNCHANGED pending_close_packet
    BY <1>3 DEF ReceiveHandshakeEnd, closing
  <2> QED
    BY <2>1, <2>2, EventIsNotLast DEF EventType, Reason
<1>4. CASE ReceiveEvent
  <2>1. ~closed
    BY <1>4, AdmittedLives DEF ReceiveEvent, Active
  <2>2. push_event("StreamData", "") /\ ngst' # "closing"
        /\ UNCHANGED pending_close_packet
    BY <1>4 DEF ReceiveEvent, closing, Active
  <2> QED
    BY <2>1, <2>2, EventIsNotLast DEF EventType, Reason
<1>5. CASE ReceiveWhileClosing
  <2>1. pending_close_packet
    BY <1>5 DEF ReceiveWhileClosing, admitted, LastInv, Kept
  <2> QED
    BY <1>5, <2>1, QuietStep DEF ReceiveWhileClosing
<1>6. CASE Receive
  <2>1. CASE ReceiveEnd("connection draining", "draining")
    BY <1>1, <2>1 DEF Reason, NgState
  <2>2. ASSUME NEW reason \in {"connection dropped", "retry required", "fatal error"},
               ReceiveEnd(reason, "failed")
        PROVE  Kept' /\ ClosedIsLast'
    BY <1>1, <2>2 DEF Reason, NgState
  <2> QED
    BY <1>2, <1>3, <1>4, <1>5, <1>6, <2>1, <2>2 DEF Receive
<1>7. ASSUME NEW short, NEW moves, SendPacket(short, moves)
      PROVE  Kept' /\ ClosedIsLast'
  <2>1. ~closed /\ ~pending_close_packet' /\ log' = log /\ closed' = closed
        /\ (ngst' = "post" \/ ngst' = ngst)
    BY <1>7 DEF SendPacket, closing
  <2>2. NoEnd /\ ngst # "closing"
    BY <2>1, LiveNoEnd DEF Active
  <2> QED
    BY <2>1, <2>2 DEF Kept, ClosedIsLast, NoEnd
<1>8. ASSUME NEW written \in BOOLEAN, Close(written) PROVE Kept' /\ ClosedIsLast'
  <2>1. ~closed /\ closed' = TRUE /\ log' = log /\ pending_close_packet' = written
        /\ (written => ngst' = "closing")
    BY <1>8 DEF Close
  <2>2. NoEnd
    BY <2>1, LiveNoEnd
  <2> QED
    BY <2>1, <2>2 DEF Kept, ClosedIsLast, NoEnd
<1>9. CASE StreamCallFails
  <2>1. ~closed /\ End("stream shutdown error") /\ ngst' # "closing"
        /\ UNCHANGED pending_close_packet
    BY <1>9 DEF StreamCallFails, closing
  <2> QED
    BY <2>1, EndIsLast DEF Reason
<1>10. ASSUME NEW outcome \in ExpiryOutcome, HandleExpiry(outcome)
       PROVE  Kept' /\ ClosedIsLast'
  <2>1. CASE outcome = "none"
    BY <1>10, <2>1, QuietStep DEF HandleExpiry, closing
  <2>2. CASE outcome # "none"
    <3>1. ~closed /\ End(outcome) /\ ngst' # "closing"
          /\ UNCHANGED pending_close_packet
      BY <1>10, <2>2 DEF HandleExpiry, closing
    <3>2. outcome \in Reason
      BY <2>2 DEF ExpiryOutcome, Reason
    <3> QED
      BY <3>1, <3>2, EndIsLast
  <2> QED
    BY <2>1, <2>2
<1>11. CASE SendFirstClose \/ SendReply \/ InitiateKeyUpdate \/ next_event
            \/ Tick \/ DropClosePacket
  BY <1>11, QuietStep DEF SendFirstClose, SendReply, InitiateKeyUpdate,
     next_event, Tick, DropClosePacket, closing
<1>12. CASE UNCHANGED vars
  BY <1>12, QuietStep DEF vars, closing
<1> QED
  BY <1>6, <1>7, <1>8, <1>9, <1>10, <1>11, <1>12 DEF Next

(* ClosedIsLast: a connection reports its end at most once and nothing     *)
(* after it, and not at all when the application closed it, for every      *)
(* number of events and of packets.                                        *)
THEOREM ClosedAlwaysLast == Spec => []ClosedIsLast
<1>1. Init => LastInv
  BY PhasesInit DEF Init, LastInv, Kept, ClosedIsLast, NoEnd
<1>2. TypeOK /\ LastInv /\ [Next]_vars => (TypeOK /\ LastInv)'
  BY TypeNext, LastNext
<1>3. LastInv => ClosedIsLast
  BY DEF LastInv
<1> QED
  BY <1>1, <1>2, <1>3, TypeInit, PTL DEF Spec

=============================================================================
