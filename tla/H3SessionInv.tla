---------------------------- MODULE H3SessionInv ----------------------------
(***************************************************************************)
(* The inductive invariant of H3Session.  Good says what holds of the      *)
(* H3Session record after each function of the code, also in the middle of *)
(* a call; the rest of Inv relates the record to what has been received.   *)
(***************************************************************************)
EXTENDS H3Session

-----------------------------------------------------------------------------
(* The invariant of the H3Session record, also in the middle of a call.    *)

(* The life of session c.                                                  *)
Life(s, c) ==
    /\ s.ready[c] <= 1 /\ s.over[c] <= 1
    /\ c \in s.session_ids =>
          /\ s.ready[c] = 1 /\ s.over[c] = 0 /\ s.response[c] # "refused"
          /\ s.state[c] = "open" /\ c \notin s.ended
    /\ s.ready[c] = 1 /\ c \notin s.session_ids =>
          s.over[c] = 1 \/ s.response[c] = "refused"
    /\ s.read[c] < HeadersLen \/ c \in s.blocked =>
          /\ s.ready[c] = 0 /\ s.over[c] = 0 /\ s.response[c] = "none"
          /\ c \notin s.ended
    /\ c \in s.confirmed => s.response[c] = "ok" /\ s.ready[c] = 1
    /\ c \in s.confirmed \ s.ended /\ s.state[c] = "open" => c \in s.session_ids
    /\ c \in s.blocked => /\ s.state[c] = "open" /\ s.read[c] = HeadersLen
                          /\ c \in s.pending_headers
    /\ c \in s.pending_headers => s.read[c] < HeadersLen \/ c \in s.blocked
    /\ s.read[c] = HeadersLen - 1 /\ s.state[c] = "open" => c \in s.pending_headers
    /\ s.state[c] = "none" => s.read[c] = 0
    /\ c \in s.accepted => c \in s.session_ids /\ c \in s.confirmed
    /\ c \in s.pending_fin \cup s.stale_2xx \cup s.pre_accept_fin \cup s.fin_accepted =>
          s.ready[c] = 1
    /\ c \in s.stale_2xx => c \notin s.session_ids
    /\ c \in s.pending_fin => c \in s.confirmed
    /\ c \in s.fin_accepted \cup s.written => s.response[c] # "none"

(* Can what is received for session c still be reported?                   *)
Could(s, c) == /\ s.state[c] # "gone" /\ s.over[c] = 0 /\ s.response[c] # "refused"
               /\ c \notin s.pre_accept_fin \cup s.fin_accepted

(* Data stream d.                                                          *)
Stream(s, d) ==
    /\ d \in s.deleted => s.kept[d] = 0 /\ d \in s.named
    /\ d \in s.stream_info \/ s.kept[d] # 0 => d \in s.named
    /\ d \in s.rejected => d \in s.deleted

Counted(s, d) ==
    \/ SessionOf[d] \in s.confirmed
    \/ s.over[SessionOf[d]] > 0 \/ s.response[SessionOf[d]] = "refused"
    \/ s.buffered[d] = s.kept[d] /\ s.kept[d] <= PreAcceptLimit

(* n bytes of d have been handed to nghttp3.                               *)
Reported(s, d, n) ==
    d \notin s.deleted /\ Could(s, SessionOf[d]) => s.got[d] + s.kept[d] = n

NoneKept(s, d) ==
    SessionOf[d] \in s.accepted /\ Could(s, SessionOf[d]) => s.kept[d] = 0

OneStream(s, d, n) ==
    Stream(s, d) /\ Counted(s, d) /\ Reported(s, d, n) /\ NoneKept(s, d)

Good(s, n) ==
    /\ s \in Record
    /\ ~s.out_of_place /\ ~s.mixed
    /\ \A c \in Sessions : Life(s, c)
    /\ \A d \in Remote : OneStream(s, d, n[d])

-----------------------------------------------------------------------------
(* The frame boundary guard of the CONNECT stream c, of which p items have *)
(* been received, and of the data stream d.                                *)

Unparsed(g, q, p) == /\ ~g.header_parsed /\ ~g.is_headers
                     /\ p <= 1 /\ g.prefix = SubSeq(q, 1, p)

Guarded(s, c, p) ==
    LET g == s.guard[c]
    IN  IF ~g.header_parsed
        THEN /\ Unparsed(g, content[c], p) /\ g.forwarded = 0
             /\ g.held = <<>> /\ s.read[c] = 0
        ELSE /\ g.is_headers /\ g.prefix = <<>> /\ g.forwarded = s.read[c]
             /\ s.read[c] < HeadersLen => s.read[c] = p /\ g.held = <<>>

Passed(s, d, p) ==
    LET g == s.guard[d]
    IN  IF d \in s.named THEN d \in Bidi => g.header_parsed /\ ~g.is_headers
        ELSE p <= 1 /\ (d \in Bidi => Unparsed(g, content[d], p))

(* a: streams reset, f: streams ended.                                     *)
Guards(s, p, a, f) ==
    s.closed \/ /\ \A c \in Sessions \ a : s.state[c] # "gone" => Guarded(s, c, p[c])
                /\ \A c \in Sessions \cap a : s.guard[c].held = <<>>
                /\ \A d \in Remote \ (a \cup f) : d \notin s.deleted => Passed(s, d, p[d])

(* Nothing is held that could be fed.                                      *)
Fed(s) == s.closed \/ flushable(s) = {}

-----------------------------------------------------------------------------
(* The FINs that have been received.                                       *)

HeldFin(s, c) == /\ s.guard[c].held # <<>> /\ s.guard[c].held_fin
                 /\ s.guard[c].forwarded = HeadersLen

Ends(s, f) ==
    s.closed \/
    \A c \in f \cap Sessions :
        /\ c \in s.session_ids => c \in s.pre_accept_fin \cup s.fin_accepted
        /\ c \in s.blocked => c \in s.qpack_blocked_fin \/ HeldFin(s, c)

FinsOnly(s, f) ==
    /\ s.pre_accept_fin \cup s.fin_accepted \cup s.qpack_blocked_fin \subseteq f
    /\ \A c \in Sessions : s.guard[c].held_fin => c \in f

Calm(s) == s.pending_fin = {} /\ s.stale_2xx = {} /\ s.error = "none"

Handed == [d \in Remote |-> Bytes(SubSeq(content[d], 1, pos[d]))]

Inv ==
    /\ TypeOK
    /\ content \in Contents
    /\ \A x \in Arriving : pos[x] <= Len(content[x])
    /\ Good(h, Handed)
    /\ Guards(h, pos, aborted, finned)
    /\ Fed(h)
    /\ Ends(h, finned)
    /\ FinsOnly(h, finned)
    /\ Calm(h)

=============================================================================
