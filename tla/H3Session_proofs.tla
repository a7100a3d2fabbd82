-------------------------- MODULE H3Session_proofs --------------------------
(***************************************************************************)
(* Proofs about H3Session: its invariants and ResponseFits, for all        *)
(* numbers of sessions and streams, all contents of the streams and all    *)
(* ways to cut them into chunks.                                           *)
(*                                                                         *)
(* A call of the code is a composition of functions on the H3Session       *)
(* record; H3SessionInv says what holds of the record after each of them.  *)
(* For each function there is a lemma on its shape (the fields it changes) *)
(* and one that it preserves Good, and for the folds over sessions,        *)
(* streams and items there is an induction over subsets.  Mid is what      *)
(* holds between the reads of one call, Received what a call that receives *)
(* leaves, Called what any other leaves.                                   *)
(***************************************************************************)
EXTENDS H3SessionInv, FiniteSetTheorems, SequenceTheorems, TLAPS

-----------------------------------------------------------------------------
(* Folds.  A fold over S takes the members of a subset z of S in an order  *)
(* pk: first pk[z], then the others.  J is the function it computes, by    *)
(* subsets.                                                                *)

LEMMA LeastNat ==
    ASSUME NEW T, T \subseteq Nat, T # {}
    PROVE  \E m \in T : \A k \in T : m <= k
<1>1. PICK m \in T : \A k \in T : ~(<<k, m>> \in OpToRel(<, Nat))
  BY NatLessThanWellFounded, WFMin
<1>2. \A k \in T : ~(k < m)
  BY <1>1, Zenon DEF OpToRel
<1> QED
  BY <1>2

Picks(pk, S) == \A z \in SUBSET S : z # {} => pk[z] \in z

Iterates(F, b, pk, D, J) ==
    J = [z \in D |-> IF z = {} THEN b ELSE F[pk[z]][J[z \ {pk[z]}]]]

UpTo(S, n) == {z \in SUBSET S : Cardinality(z) <= n}

LEMMA PickFacts ==
    ASSUME NEW S, IsFiniteSet(S), NEW pk, Picks(pk, S), NEW z \in SUBSET S, z # {}
    PROVE  /\ pk[z] \in z /\ pk[z] \in S
           /\ z \ {pk[z]} \in SUBSET S
           /\ Cardinality(z) \in Nat /\ Cardinality(z) > 0
           /\ Cardinality(z \ {pk[z]}) = Cardinality(z) - 1
<1>1. pk[z] \in z
  BY DEF Picks
<1>2. IsFiniteSet(z)
  BY FS_Subset
<1>3. Cardinality(z) \in Nat /\ Cardinality(z) # 0
  BY <1>2, FS_CardinalityType, FS_EmptySet
<1>4. Cardinality(z \ {pk[z]}) = Cardinality(z) - 1
  BY <1>1, <1>2, FS_RemoveElement
<1> QED
  BY <1>1, <1>3, <1>4

LEMMA IterStart ==
    ASSUME NEW F, NEW b, NEW S, IsFiniteSet(S), NEW pk, Picks(pk, S)
    PROVE  \E J : Iterates(F, b, pk, UpTo(S, 0), J)
<1> DEFINE J == [z \in UpTo(S, 0) |-> b]
<1>1. ASSUME NEW z \in UpTo(S, 0), z # {} PROVE FALSE
  <2>1. z \in SUBSET S /\ Cardinality(z) <= 0
    BY DEF UpTo
  <2>2. Cardinality(z) \in Nat /\ Cardinality(z) > 0
    BY <1>1, <2>1, PickFacts
  <2> QED
    BY <2>1, <2>2
<1>2. J = [z \in UpTo(S, 0) |-> IF z = {} THEN b ELSE F[pk[z]][J[z \ {pk[z]}]]]
  BY <1>1
<1> HIDE DEF J
<1> QED
  BY <1>2 DEF Iterates

LEMMA IterNext ==
    ASSUME NEW F, NEW b, NEW S, IsFiniteSet(S), NEW pk, Picks(pk, S), NEW n \in Nat,
           NEW J, Iterates(F, b, pk, UpTo(S, n), J)
    PROVE  \E K : Iterates(F, b, pk, UpTo(S, n + 1), K)
<1> DEFINE K == [z \in UpTo(S, n + 1) |->
                   IF z = {} THEN b ELSE F[pk[z]][J[z \ {pk[z]}]]]
<1>1. \A z \in UpTo(S, n + 1) : z # {} => z \ {pk[z]} \in UpTo(S, n)
  BY PickFacts DEF UpTo
<1>2. \A z \in UpTo(S, n) : z \in UpTo(S, n + 1)
  <2> TAKE z \in UpTo(S, n)
  <2>1. z \in SUBSET S /\ Cardinality(z) <= n
    BY DEF UpTo
  <2>2. Cardinality(z) \in Nat
    BY <2>1, FS_Subset, FS_CardinalityType
  <2> QED
    BY <2>1, <2>2 DEF UpTo
<1>3. \A z \in UpTo(S, n) : K[z] = J[z]
  BY <1>2 DEF Iterates
<1>4. K = [z \in UpTo(S, n + 1) |-> IF z = {} THEN b ELSE F[pk[z]][K[z \ {pk[z]}]]]
  BY <1>1, <1>3
<1> HIDE DEF K
<1> QED
  BY <1>4 DEF Iterates

LEMMA IterExists ==
    ASSUME NEW F, NEW b, NEW S, IsFiniteSet(S), NEW pk, Picks(pk, S)
    PROVE  \E J : Iterates(F, b, pk, SUBSET S, J)
<1> DEFINE T == {n \in Nat : ~ \E J : Iterates(F, b, pk, UpTo(S, n), J)}
<1>1. T = {}
  <2> SUFFICES ASSUME T # {} PROVE FALSE
    OBVIOUS
  <2>1. PICK m \in T : \A k \in T : m <= k
    BY LeastNat
  <2>2. m # 0
    BY IterStart
  <2>3. m - 1 \in Nat /\ m - 1 \notin T
    BY <2>1, <2>2
  <2>4. PICK J : Iterates(F, b, pk, UpTo(S, m - 1), J)
    BY <2>3
  <2>5. \E K : Iterates(F, b, pk, UpTo(S, m - 1 + 1), K)
    BY <2>3, <2>4, IterNext
  <2>6. m - 1 + 1 = m
    BY <2>1
  <2> QED
    BY <2>5, <2>6
<1>2. Cardinality(S) \in Nat
  BY FS_CardinalityType
<1>3. UpTo(S, Cardinality(S)) = SUBSET S
  <2>1. \A z \in SUBSET S : Cardinality(z) <= Cardinality(S)
    BY FS_Subset
  <2> QED
    BY <2>1 DEF UpTo
<1>4. \E J : Iterates(F, b, pk, UpTo(S, Cardinality(S)), J)
  BY <1>1, <1>2
<1> QED
  BY <1>3, <1>4

(* Induction over the subsets of S, as a smallest counterexample.          *)
LEMMA SmallestSubset ==
    ASSUME NEW S, IsFiniteSet(S), NEW pk, Picks(pk, S), NEW T, T \subseteq SUBSET S,
           T # {}
    PROVE  \E z \in T : z = {} \/ z \ {pk[z]} \notin T
<1> DEFINE N == {Cardinality(z) : z \in T}
<1>1. \A z \in T : Cardinality(z) \in Nat
  BY FS_Subset, FS_CardinalityType
<1>2. N \subseteq Nat /\ N # {}
  BY <1>1
<1>3. PICK m \in N : \A k \in N : m <= k
  BY <1>2, LeastNat
<1>4. PICK z \in T : m = Cardinality(z)
  BY <1>3
<1>5. ASSUME z # {}, z \ {pk[z]} \in T PROVE FALSE
  <2>1. Cardinality(z \ {pk[z]}) \in N
    BY <1>5
  <2>2. Cardinality(z \ {pk[z]}) = Cardinality(z) - 1 /\ Cardinality(z) \in Nat
    BY <1>5, PickFacts
  <2>3. m <= Cardinality(z \ {pk[z]})
    BY <1>3, <2>1
  <2> QED
    BY <1>4, <2>2, <2>3
<1> QED
  BY <1>5

(* The steps of a fold of F from b, without reference to the fold.         *)
Steps(F, b, pk, S, J) ==
    /\ J[{}] = b
    /\ \A z \in SUBSET S : z # {} => J[z] = F[pk[z]][J[z \ {pk[z]}]]

LEMMA IterTyped ==
    ASSUME NEW F, NEW b, NEW S, IsFiniteSet(S), NEW pk, Picks(pk, S),
           NEW R, b \in R, \A x \in S, r \in R : F[x][r] \in R
    PROVE  \E J \in [SUBSET S -> R] : Steps(F, b, pk, S, J)
<1>1. PICK J : Iterates(F, b, pk, SUBSET S, J)
  BY IterExists
<1>2. /\ J = [z \in SUBSET S |-> J[z]]
      /\ J[{}] = b
      /\ \A z \in SUBSET S : z # {} => J[z] = F[pk[z]][J[z \ {pk[z]}]]
  <2>1. {} \in SUBSET S
    OBVIOUS
  <2> QED
    BY <1>1, <2>1 DEF Iterates
<1> DEFINE T == {z \in SUBSET S : J[z] \notin R}
<1>3. T = {}
  <2> SUFFICES ASSUME T # {} PROVE FALSE
    OBVIOUS
  <2>1. PICK z \in T : z = {} \/ z \ {pk[z]} \notin T
    BY SmallestSubset
  <2>2. z # {}
    BY <1>2, <2>1
  <2>3. pk[z] \in S /\ z \ {pk[z]} \in SUBSET S
    BY <2>1, <2>2, PickFacts
  <2>4. J[z \ {pk[z]}] \in R
    BY <2>1, <2>2, <2>3
  <2>5. J[z] = F[pk[z]][J[z \ {pk[z]}]]
    BY <1>2, <2>1, <2>2
  <2> QED
    BY <2>1, <2>3, <2>4, <2>5
<1>4. \A z \in SUBSET S : J[z] \in R
  BY <1>3
<1> QED
  BY <1>2, <1>4 DEF Steps

-----------------------------------------------------------------------------
(* What each function of the source changes: all fields but those named in *)
(* K keep their values.                                                    *)

Names ==
    {"session_ids", "accepted", "pending_headers", "pending_fin", "pre_accept_fin",
     "fin_accepted", "qpack_blocked_fin", "stale_2xx", "guard", "buffered",
     "rejected", "stream_info", "closed", "state", "read", "blocked", "mixed",
     "response", "written", "confirmed", "ended", "capsules", "named", "kept",
     "deleted", "error", "ready", "over", "why", "out_of_place", "got"}

Keeps(s, t, K) == \A k \in Names \ K : t[k] = s[k]

LEMMA Fields == ASSUME NEW s \in Record PROVE DOMAIN s = Names
BY DEF Record, Names

(* The flag push_event leaves.                                             *)
Misplaced(s, c) == s.out_of_place \/ s.ready[c] = 0 \/ s.over[c] > 0
                                  \/ s.response[c] = "refused"

Displace(s, b) == [s EXCEPT !.out_of_place = b]

LEMMA DisplaceShape ==
    ASSUME NEW s \in Record, NEW b, b \in BOOLEAN
    PROVE  /\ Displace(s, b) \in Record
           /\ Keeps(s, Displace(s, b), {"out_of_place"})
           /\ Displace(s, b).out_of_place = b
<1>1. Displace(s, b) \in Record
  BY DEF Displace, Record
<1>2. Keeps(s, Displace(s, b), {"out_of_place"})
  BY Fields DEF Displace, Keeps
<1>3. Displace(s, b).out_of_place = b
  BY Fields DEF Displace, Names
<1> QED
  BY <1>1, <1>2, <1>3

LEMMA PushEventShape ==
    ASSUME NEW s \in Record, NEW c \in Sessions
    PROVE  /\ push_event(s, c) \in Record
           /\ Keeps(s, push_event(s, c), {"out_of_place"})
           /\ push_event(s, c).out_of_place = Misplaced(s, c)
<1>1. push_event(s, c) = Displace(s, Misplaced(s, c))
  BY Zenon DEF push_event, Displace, Misplaced
<1>2. Misplaced(s, c) \in BOOLEAN
  BY DEF Misplaced
<1> QED
  BY <1>1, <1>2, DisplaceShape

LEMMA PushOverShape ==
    ASSUME NEW s \in Record, NEW c \in Sessions, NEW y \in Why
    PROVE  /\ push_over(s, c, y) \in Record
           /\ Keeps(s, push_over(s, c, y), {"out_of_place", "over", "why"})
           /\ push_over(s, c, y).out_of_place = Misplaced(s, c)
           /\ push_over(s, c, y).over = [s.over EXCEPT ![c] = @ + 1]
           /\ push_over(s, c, y).why = [s.why EXCEPT ![c] = y]
<1> DEFINE t == push_event(s, c)
           f == [t.over EXCEPT ![c] = @ + 1]
           g == [t.why EXCEPT ![c] = y]
           u == [t EXCEPT !.over = f, !.why = g]
<1>1. /\ t \in Record /\ Keeps(s, t, {"out_of_place"})
      /\ t.out_of_place = Misplaced(s, c)
  BY PushEventShape
<1>2. push_over(s, c, y) = u
  BY DEF push_over
<1>3. t.over = s.over /\ t.why = s.why
  BY <1>1 DEF Keeps, Names
<1> HIDE DEF t
<1>4. f \in [Sessions -> Nat] /\ g \in [Sessions -> Why]
  BY <1>1 DEF Record
<1>5. f = [s.over EXCEPT ![c] = @ + 1] /\ g = [s.why EXCEPT ![c] = y]
  BY <1>3
<1> HIDE DEF f, g
<1>6. u \in Record
  BY <1>1, <1>4 DEF Record
<1>7. Keeps(t, u, {"over", "why"}) /\ u.over = f /\ u.why = g
  BY <1>1, Fields DEF Keeps, Names
<1> HIDE DEF u
<1>8. Keeps(s, u, {"out_of_place", "over", "why"}) /\ u.out_of_place = t.out_of_place
  BY <1>1, <1>7 DEF Keeps, Names
<1> QED
  BY <1>1, <1>2, <1>5, <1>6, <1>7, <1>8

LEMMA ForgetSessionShape ==
    ASSUME NEW s \in Record, NEW c \in Sessions
    PROVE  LET t == forget_session(s, c)
           IN  /\ t \in Record
               /\ Keeps(s, t, {"session_ids", "accepted", "stream_info", "buffered"})
               /\ t.session_ids = s.session_ids \ {c}
               /\ t.accepted = s.accepted \ {c}
               /\ t.stream_info = s.stream_info \ StreamsOf(c)
               /\ t.buffered = [d \in Remote |->
                                  IF SessionOf[d] = c THEN 0 ELSE s.buffered[d]]
<1> DEFINE b == [d \in Remote |-> IF SessionOf[d] = c THEN 0 ELSE s.buffered[d]]
           u == [s EXCEPT !.stream_info = @ \ StreamsOf(c), !.session_ids = @ \ {c},
                          !.accepted = @ \ {c}, !.buffered = b]
<1>1. forget_session(s, c) = u
  BY DEF forget_session, forget_pre_accept_session, erase_session_streams, Record
<1>2. b \in [Remote -> Nat]
  BY DEF Record
<1> HIDE DEF b
<1>3. u \in Record
  BY <1>2 DEF Record
<1>4. /\ Keeps(s, u, {"session_ids", "accepted", "stream_info", "buffered"})
      /\ u.session_ids = s.session_ids \ {c} /\ u.accepted = s.accepted \ {c}
      /\ u.stream_info = s.stream_info \ StreamsOf(c) /\ u.buffered = b
  BY Fields DEF Keeps, Names
<1> QED
  BY <1>1, <1>3, <1>4 DEF b

(* Streams of session c lose what nghttp3 has kept.                        *)
Dropped(s, c) == [d \in Remote |-> IF SessionOf[d] = c /\ s.ready[c] > 0 THEN 0
                                                         ELSE s.kept[d]]

LEMMA DeleteSessionShape ==
    ASSUME NEW s \in Record, NEW c \in Sessions
    PROVE  LET t == delete_stream(s, c)
           IN  /\ t \in Record
               /\ Keeps(s, t, {"state", "blocked", "capsules", "kept"})
               /\ s.state[c] # "open" => t = s
               /\ s.state[c] = "open" => /\ t.state = [s.state EXCEPT ![c] = "gone"]
                                         /\ t.blocked = s.blocked \ {c}
                                         /\ t.kept = Dropped(s, c)
<1>1. c \notin s.named
  BY SessionAssumption DEF Record, Streams
<1>2. CASE s.state[c] # "open"
  <2>1. delete_stream(s, c) = s
    BY <1>1, <1>2 DEF delete_stream
  <2> QED
    BY <1>2, <2>1 DEF Keeps
<1>3. CASE s.state[c] = "open"
  <2> DEFINE f == [s.state EXCEPT ![c] = "gone"]
             g == [s.capsules EXCEPT ![c] = <<>>]
             k == Dropped(s, c)
             u == [s EXCEPT !.state = f, !.blocked = @ \ {c}, !.capsules = g, !.kept = k]
  <2>1. delete_stream(s, c) = u
    BY <1>3 DEF delete_stream, Dropped
  <2>2. /\ f \in [Sessions -> {"none", "open", "gone"}]
        /\ g \in [Sessions -> Seq(Item)] /\ k \in [Remote -> Nat]
    BY DEF Record, Dropped
  <2> HIDE DEF f, g, k
  <2>3. u \in Record
    BY <2>2 DEF Record
  <2>4. /\ Keeps(s, u, {"state", "blocked", "capsules", "kept"})
        /\ u.state = f /\ u.blocked = s.blocked \ {c} /\ u.kept = k
    BY Fields DEF Keeps, Names
  <2> QED
    BY <1>3, <2>1, <2>3, <2>4 DEF f, k
<1> QED
  BY <1>2, <1>3

LEMMA DeleteDataShape ==
    ASSUME NEW s \in Record, NEW x, x \notin Sessions
    PROVE  LET t == delete_stream(s, x)
           IN  /\ t \in Record
               /\ Keeps(s, t, {"deleted", "kept", "buffered"})
               /\ x \notin s.named => t = s
               /\ x \in s.named => /\ t.deleted = s.deleted \cup {x}
                                   /\ t.kept = [s.kept EXCEPT ![x] = 0]
                                   /\ t.buffered = [s.buffered EXCEPT ![x] = 0]
<1>1. CASE x \notin s.named
  <2>1. delete_stream(s, x) = s
    BY <1>1 DEF delete_stream
  <2> QED
    BY <1>1, <2>1 DEF Keeps
<1>2. CASE x \in s.named
  <2> DEFINE k == [s.kept EXCEPT ![x] = 0]
             b == [s.buffered EXCEPT ![x] = 0]
             u == [s EXCEPT !.deleted = @ \cup {x}, !.kept = k, !.buffered = b]
  <2>1. delete_stream(s, x) = u
    BY <1>2 DEF delete_stream, forget_pre_accept_stream, Record
  <2>2. k \in [Remote -> Nat] /\ b \in [Remote -> Nat] /\ x \in Remote
    BY <1>2 DEF Record
  <2> HIDE DEF k, b
  <2>3. u \in Record
    BY <2>2, ZenonT(60) DEF Record
  <2>4. /\ Keeps(s, u, {"deleted", "kept", "buffered"})
        /\ u.deleted = s.deleted \cup {x} /\ u.kept = k /\ u.buffered = b
    BY Fields DEF Keeps, Names
  <2> QED
    BY <1>2, <2>1, <2>3, <2>4 DEF k, b
<1> QED
  BY <1>1, <1>2

(* The first part of close_stream, common to all streams.                  *)
Unguard(s, x) == [z \in Arriving |-> IF z = x THEN NoGuard ELSE s.guard[z]]

Cleared(s, x) ==
    [s EXCEPT !.qpack_blocked_fin = @ \ {x},
              !.guard = [z \in Arriving |-> IF z = x THEN NoGuard ELSE @[z]],
              !.pending_headers = @ \ {x}]

LEMMA NoGuardTyped == NoGuard \in Guard
BY DEF NoGuard, Guard, HeadersLen

LEMMA ClearedShape ==
    ASSUME NEW s \in Record, NEW x
    PROVE  LET t == Cleared(s, x)
           IN  /\ t \in Record
               /\ Keeps(s, t, {"qpack_blocked_fin", "guard", "pending_headers"})
               /\ t.qpack_blocked_fin = s.qpack_blocked_fin \ {x}
               /\ t.guard = Unguard(s, x)
               /\ t.pending_headers = s.pending_headers \ {x}
<1> DEFINE g == Unguard(s, x)
           u == [s EXCEPT !.qpack_blocked_fin = @ \ {x}, !.guard = g,
                          !.pending_headers = @ \ {x}]
<1>1. Cleared(s, x) = u
  BY DEF Cleared, Unguard
<1>2. g \in [Arriving -> Guard]
  BY NoGuardTyped DEF Record, Unguard
<1> HIDE DEF g
<1>3. u \in Record
  BY <1>2 DEF Record
<1>4. /\ Keeps(s, u, {"qpack_blocked_fin", "guard", "pending_headers"})
      /\ u.qpack_blocked_fin = s.qpack_blocked_fin \ {x}
      /\ u.guard = g /\ u.pending_headers = s.pending_headers \ {x}
  BY Fields DEF Keeps, Names
<1> QED
  BY <1>1, <1>3, <1>4 DEF g

(* close_stream for a session that is open, for a CONNECT stream that is   *)
(* not one, and for a data stream.                                         *)
EndsSession(s, t, c, y) ==
    /\ Keeps(s, t, {"qpack_blocked_fin", "guard", "pending_headers", "state",
                    "blocked", "capsules", "kept", "session_ids", "accepted",
                    "stream_info", "buffered", "out_of_place", "over", "why"})
    /\ t.qpack_blocked_fin = s.qpack_blocked_fin \ {c}
    /\ t.guard = Unguard(s, c)
    /\ t.pending_headers = s.pending_headers \ {c}
    /\ t.state = [s.state EXCEPT ![c] = "gone"]
    /\ t.blocked = s.blocked \ {c}
    /\ t.kept = Dropped(s, c)
    /\ t.session_ids = s.session_ids \ {c}
    /\ t.accepted = s.accepted \ {c}
    /\ t.stream_info = s.stream_info \ StreamsOf(c)
    /\ t.buffered = [d \in Remote |-> IF SessionOf[d] = c THEN 0 ELSE s.buffered[d]]
    /\ t.out_of_place = Misplaced(s, c)
    /\ t.over = [s.over EXCEPT ![c] = @ + 1]
    /\ t.why = [s.why EXCEPT ![c] = y]

DropsSession(s, t, c) ==
    /\ Keeps(s, t, {"qpack_blocked_fin", "guard", "pending_headers", "state",
                    "blocked", "capsules", "kept"})
    /\ t.qpack_blocked_fin = s.qpack_blocked_fin \ {c}
    /\ t.guard = Unguard(s, c)
    /\ t.pending_headers = s.pending_headers \ {c}
    /\ s.state[c] # "open" =>
          t.state = s.state /\ t.blocked = s.blocked /\ t.kept = s.kept
    /\ s.state[c] = "open" => /\ t.state = [s.state EXCEPT ![c] = "gone"]
                              /\ t.blocked = s.blocked \ {c}
                              /\ t.kept = Dropped(s, c)

DropsStream(s, t, x) ==
    /\ Keeps(s, t, {"guard", "deleted", "kept", "buffered", "stream_info"})
    /\ t.guard = Unguard(s, x)
    /\ t.stream_info = s.stream_info \ {x}
    /\ x \notin s.named => /\ t.deleted = s.deleted
                           /\ t.kept = s.kept /\ t.buffered = s.buffered
    /\ x \in s.named => /\ t.deleted = s.deleted \cup {x}
                        /\ t.kept = [s.kept EXCEPT ![x] = 0]
                        /\ t.buffered = [s.buffered EXCEPT ![x] = 0]

LEMMA CloseIs ==
    ASSUME NEW s, NEW x, NEW y
    PROVE  close_stream(s, x, y) =
             IF x \in s.session_ids
             THEN push_over(forget_session(delete_stream(Cleared(s, x), x), x), x, y)
             ELSE [delete_stream(Cleared(s, x), x) EXCEPT !.stream_info = @ \ {x}]
BY Zenon DEF close_stream, Cleared

LEMMA CloseEnds ==
    ASSUME NEW s \in Record, NEW c \in s.session_ids, s.state[c] = "open",
           NEW y \in Why
    PROVE  /\ close_stream(s, c, y) \in Record
           /\ EndsSession(s, close_stream(s, c, y), c, y)
<1> DEFINE r == Cleared(s, c)
           t == delete_stream(r, c)
           u == forget_session(t, c)
           v == push_over(u, c, y)
<1>0. c \in Sessions
  BY DEF Record
<1>1. /\ r \in Record
      /\ Keeps(s, r, {"qpack_blocked_fin", "guard", "pending_headers"})
      /\ r.qpack_blocked_fin = s.qpack_blocked_fin \ {c}
      /\ r.guard = Unguard(s, c)
      /\ r.pending_headers = s.pending_headers \ {c}
  BY ClearedShape
<1> HIDE DEF r
<1>2. r.state = s.state /\ r.ready = s.ready /\ r.kept = s.kept /\ r.blocked = s.blocked
  BY <1>1 DEF Keeps, Names
<1>a. /\ t \in Record /\ Keeps(r, t, {"state", "blocked", "capsules", "kept"})
      /\ r.state[c] = "open" => /\ t.state = [r.state EXCEPT ![c] = "gone"]
                                /\ t.blocked = r.blocked \ {c}
                                /\ t.kept = Dropped(r, c)
  BY <1>0, <1>1, DeleteSessionShape
<1>b. Dropped(r, c) = Dropped(s, c)
  BY <1>2 DEF Dropped
<1> HIDE DEF t
<1>3. /\ t \in Record /\ Keeps(r, t, {"state", "blocked", "capsules", "kept"})
      /\ t.state = [s.state EXCEPT ![c] = "gone"] /\ t.blocked = s.blocked \ {c}
      /\ t.kept = Dropped(s, c)
  BY <1>2, <1>a, <1>b
<1>4. /\ u \in Record
      /\ Keeps(t, u, {"session_ids", "accepted", "stream_info", "buffered"})
      /\ u.session_ids = t.session_ids \ {c}
      /\ u.accepted = t.accepted \ {c}
      /\ u.stream_info = t.stream_info \ StreamsOf(c)
      /\ u.buffered = [d \in Remote |-> IF SessionOf[d] = c THEN 0 ELSE t.buffered[d]]
  BY <1>0, <1>3, ForgetSessionShape
<1> HIDE DEF u
<1>5. /\ v \in Record /\ Keeps(u, v, {"out_of_place", "over", "why"})
      /\ v.out_of_place = Misplaced(u, c)
      /\ v.over = [u.over EXCEPT ![c] = @ + 1] /\ v.why = [u.why EXCEPT ![c] = y]
  BY <1>0, <1>4, PushOverShape
<1> HIDE DEF v
<1>6. close_stream(s, c, y) = v
  BY CloseIs DEF v, u, t, r
<1>7. Keeps(s, t, {"qpack_blocked_fin", "guard", "pending_headers", "state",
                   "blocked", "capsules", "kept"})
  BY <1>1, <1>3 DEF Keeps
<1>8. Keeps(s, u, {"qpack_blocked_fin", "guard", "pending_headers", "state", "blocked",
            "capsules", "kept", "session_ids", "accepted", "stream_info", "buffered"})
  BY <1>4, <1>7 DEF Keeps
<1>9. Keeps(s, v, {"qpack_blocked_fin", "guard", "pending_headers", "state", "blocked",
            "capsules", "kept", "session_ids", "accepted", "stream_info", "buffered",
            "out_of_place", "over", "why"})
  BY <1>5, <1>8 DEF Keeps
<1>10. Misplaced(u, c) = Misplaced(s, c)
  BY <1>8 DEF Misplaced, Keeps, Names
<1>11. /\ v.qpack_blocked_fin = s.qpack_blocked_fin \ {c}
       /\ v.guard = Unguard(s, c)
       /\ v.pending_headers = s.pending_headers \ {c}
  BY <1>1, <1>3, <1>4, <1>5 DEF Keeps, Names
<1>12. /\ v.state = [s.state EXCEPT ![c] = "gone"] /\ v.blocked = s.blocked \ {c}
       /\ v.kept = Dropped(s, c)
  BY <1>3, <1>4, <1>5 DEF Keeps, Names
<1>13. /\ v.session_ids = s.session_ids \ {c} /\ v.accepted = s.accepted \ {c}
       /\ v.stream_info = s.stream_info \ StreamsOf(c)
       /\ v.buffered = [d \in Remote |-> IF SessionOf[d] = c THEN 0 ELSE s.buffered[d]]
  BY <1>4, <1>5, <1>7 DEF Keeps, Names
<1>14. v.over = [s.over EXCEPT ![c] = @ + 1] /\ v.why = [s.why EXCEPT ![c] = y]
  BY <1>5, <1>8 DEF Keeps, Names
<1>15. EndsSession(s, v, c, y)
  BY <1>5, <1>9, <1>10, <1>11, <1>12, <1>13, <1>14 DEF EndsSession
<1> QED
  BY <1>5, <1>6, <1>15

LEMMA CloseDrops ==
    ASSUME NEW s \in Record, NEW c \in Sessions, c \notin s.session_ids, NEW y
    PROVE  /\ close_stream(s, c, y) \in Record
           /\ DropsSession(s, close_stream(s, c, y), c)
<1> DEFINE r == Cleared(s, c)
           t == delete_stream(r, c)
           v == [t EXCEPT !.stream_info = @ \ {c}]
<1>1. /\ r \in Record
      /\ Keeps(s, r, {"qpack_blocked_fin", "guard", "pending_headers"})
      /\ r.qpack_blocked_fin = s.qpack_blocked_fin \ {c}
      /\ r.guard = Unguard(s, c)
      /\ r.pending_headers = s.pending_headers \ {c}
  BY ClearedShape
<1> HIDE DEF r
<1>2. r.state = s.state /\ r.ready = s.ready /\ r.kept = s.kept /\ r.blocked = s.blocked
  BY <1>1 DEF Keeps, Names
<1>a. /\ t \in Record /\ Keeps(r, t, {"state", "blocked", "capsules", "kept"})
      /\ r.state[c] # "open" => t = r
      /\ r.state[c] = "open" => /\ t.state = [r.state EXCEPT ![c] = "gone"]
                                /\ t.blocked = r.blocked \ {c}
                                /\ t.kept = Dropped(r, c)
  BY <1>1, DeleteSessionShape
<1>b. Dropped(r, c) = Dropped(s, c)
  BY <1>2 DEF Dropped
<1> HIDE DEF t
<1>3. /\ t \in Record /\ Keeps(r, t, {"state", "blocked", "capsules", "kept"})
      /\ s.state[c] # "open" => t = r
      /\ s.state[c] = "open" => /\ t.state = [s.state EXCEPT ![c] = "gone"]
                                /\ t.blocked = s.blocked \ {c}
                                /\ t.kept = Dropped(s, c)
  BY <1>2, <1>a, <1>b
<1>4a. v \in Record
  BY <1>3 DEF Record
<1>4b. Keeps(t, v, {"stream_info"})
  BY <1>3, Fields DEF Keeps
<1>4. v \in Record /\ Keeps(t, v, {"stream_info"})
  BY <1>4a, <1>4b
<1>5. v.stream_info = t.stream_info
  BY <1>3, Fields, SessionAssumption DEF Record, Names
<1> HIDE DEF v
<1>6. close_stream(s, c, y) = v
  BY CloseIs DEF v, t, r
<1>7. Keeps(s, v, {"qpack_blocked_fin", "guard", "pending_headers", "state",
                   "blocked", "capsules", "kept"})
  BY <1>1, <1>3, <1>4, <1>5 DEF Keeps, Names
<1>8. /\ v.qpack_blocked_fin = s.qpack_blocked_fin \ {c}
      /\ v.guard = Unguard(s, c)
      /\ v.pending_headers = s.pending_headers \ {c}
  BY <1>1, <1>3, <1>4 DEF Keeps, Names
<1>9. /\ s.state[c] # "open" => /\ v.state = s.state /\ v.blocked = s.blocked
                                /\ v.kept = s.kept
      /\ s.state[c] = "open" => /\ v.state = [s.state EXCEPT ![c] = "gone"]
                                /\ v.blocked = s.blocked \ {c}
                                /\ v.kept = Dropped(s, c)
  BY <1>2, <1>3, <1>4 DEF Keeps, Names
<1>10. DropsSession(s, v, c)
  BY <1>7, <1>8, <1>9 DEF DropsSession
<1> QED
  BY <1>4, <1>6, <1>10

LEMMA CloseStreamDrops ==
    ASSUME NEW s \in Record, NEW x, x \notin Sessions, NEW y
    PROVE  /\ close_stream(s, x, y) \in Record
           /\ DropsStream(s, close_stream(s, x, y), x)
<1> DEFINE r == Cleared(s, x)
           t == delete_stream(r, x)
           v == [t EXCEPT !.stream_info = @ \ {x}]
<1>0. x \notin s.session_ids /\ x \notin s.qpack_blocked_fin /\ x \notin s.pending_headers
  BY DEF Record
<1>1. /\ r \in Record
      /\ Keeps(s, r, {"qpack_blocked_fin", "guard", "pending_headers"})
      /\ r.qpack_blocked_fin = s.qpack_blocked_fin \ {x}
      /\ r.guard = Unguard(s, x)
      /\ r.pending_headers = s.pending_headers \ {x}
  BY ClearedShape
<1> HIDE DEF r
<1>2. Keeps(s, r, {"guard"})
  BY <1>0, <1>1 DEF Keeps, Names
<1>3. /\ t \in Record /\ Keeps(r, t, {"deleted", "kept", "buffered"})
      /\ x \notin r.named => t = r
      /\ x \in r.named => /\ t.deleted = r.deleted \cup {x}
                          /\ t.kept = [r.kept EXCEPT ![x] = 0]
                          /\ t.buffered = [r.buffered EXCEPT ![x] = 0]
  BY <1>1, DeleteDataShape
<1> HIDE DEF t
<1>4. /\ v \in Record /\ Keeps(t, v, {"stream_info"})
      /\ v.stream_info = t.stream_info \ {x}
  BY <1>3, Fields DEF Record, Keeps, Names
<1> HIDE DEF v
<1>5. close_stream(s, x, y) = v
  BY <1>0, CloseIs DEF v, t, r
<1>6. Keeps(s, v, {"guard", "deleted", "kept", "buffered", "stream_info"})
  BY <1>2, <1>3, <1>4 DEF Keeps, Names
<1>7. v.guard = Unguard(s, x) /\ v.stream_info = s.stream_info \ {x}
  BY <1>1, <1>2, <1>3, <1>4 DEF Keeps, Names
<1>8. /\ x \notin s.named => /\ v.deleted = s.deleted
                             /\ v.kept = s.kept /\ v.buffered = s.buffered
      /\ x \in s.named => /\ v.deleted = s.deleted \cup {x}
                          /\ v.kept = [s.kept EXCEPT ![x] = 0]
                          /\ v.buffered = [s.buffered EXCEPT ![x] = 0]
  BY <1>2, <1>3, <1>4 DEF Keeps, Names
<1>9. DropsStream(s, v, x)
  BY <1>6, <1>7, <1>8 DEF DropsStream
<1> QED
  BY <1>4, <1>5, <1>9

-----------------------------------------------------------------------------
(* They keep the invariant.                                                *)

LEMMA EndsLife ==
    ASSUME NEW s \in Record, NEW t \in Record, NEW c \in s.session_ids, NEW y,
           EndsSession(s, t, c, y), NEW z \in Sessions, Life(s, z)
    PROVE  Life(t, z)
<1>1. c \in Sessions /\ s.over \in [Sessions -> Nat] /\ s.state \in [Sessions -> {"none", "open", "gone"}]
  BY DEF Record
<1>2. CASE z = c
  <2>1. /\ s.ready[c] = 1 /\ s.over[c] = 0 /\ s.response[c] # "refused"
        /\ s.state[c] = "open" /\ c \notin s.ended /\ c \notin s.blocked
        /\ ~(s.read[c] < HeadersLen) /\ c \notin s.pending_headers
        /\ c \notin s.stale_2xx
    BY <1>2 DEF Life
  <2>2. /\ t.ready = s.ready /\ t.response = s.response /\ t.ended = s.ended
        /\ t.read = s.read /\ t.confirmed = s.confirmed /\ t.written = s.written
        /\ t.fin_accepted = s.fin_accepted /\ t.stale_2xx = s.stale_2xx
        /\ t.pending_fin = s.pending_fin /\ t.pre_accept_fin = s.pre_accept_fin
    BY DEF EndsSession, Keeps, Names
  <2>3. /\ t.over[c] = 1 /\ t.state[c] = "gone" /\ c \notin t.session_ids
        /\ c \notin t.accepted /\ c \notin t.blocked /\ c \notin t.pending_headers
    BY <1>1, <2>1 DEF EndsSession
  <2> QED
    BY <1>2, <2>1, <2>2, <2>3 DEF Life
<1>3. CASE z # c
  BY <1>1, <1>3 DEF Life, EndsSession, Keeps, Names
<1> QED
  BY <1>2, <1>3

(* Nothing more is to be reported of session c.                            *)
Settled(s, c) == s.over[c] > 0 \/ s.response[c] = "refused"

(* What a call that is not about d may change around it.                   *)
Around(s, t, d) ==
    LET c == SessionOf[d]
    IN  /\ d \in t.deleted <=> d \in s.deleted
        /\ d \in t.named <=> d \in s.named
        /\ d \in t.rejected => d \in s.rejected
        /\ d \in t.stream_info => d \in s.stream_info
        /\ \/ Settled(t, c) /\ (t.kept[d] = s.kept[d] \/ t.kept[d] = 0)
           \/ /\ t.kept[d] = s.kept[d] /\ t.buffered[d] = s.buffered[d]
              /\ t.got[d] = s.got[d]
              /\ Could(t, c) => Could(s, c)
              /\ c \in t.confirmed <=> c \in s.confirmed
              /\ c \in t.accepted => c \in s.accepted
              /\ Settled(s, c) => Settled(t, c)

LEMMA AroundGood ==
    ASSUME NEW s, NEW t \in Record, NEW n, NEW d \in Remote, OneStream(s, d, n),
           Around(s, t, d)
    PROVE  OneStream(t, d, n)
<1> DEFINE c == SessionOf[d]
<1>1. Stream(t, d)
  BY DEF OneStream, Stream, Around
<1>2. Counted(t, d)
  BY DEF OneStream, Counted, Around, Settled
<1>3. Settled(t, c) => ~Could(t, c)
  <2>1. t.over[c] \in Nat
    BY SessionAssumption DEF Record, Streams
  <2> QED
    BY <2>1 DEF Settled, Could
<1>4. Reported(t, d, n)
  BY <1>3 DEF OneStream, Reported, Around
<1>5. NoneKept(t, d)
  BY <1>3 DEF OneStream, NoneKept, Around
<1> QED
  BY <1>1, <1>2, <1>4, <1>5 DEF OneStream

LEMMA SessionOfStream == ASSUME NEW d \in Streams PROVE SessionOf[d] \in Sessions
BY SessionAssumption

LEMMA EndsAround ==
    ASSUME NEW s \in Record, NEW t \in Record, NEW c \in s.session_ids, NEW y,
           EndsSession(s, t, c, y), NEW d \in Remote
    PROVE  Around(s, t, d)
<1> DEFINE z == SessionOf[d]
<1>0. c \in Sessions /\ z \in Sessions
  BY SessionOfStream DEF Record, Streams
<1>1. /\ t.response = s.response /\ t.confirmed = s.confirmed
      /\ t.pre_accept_fin = s.pre_accept_fin /\ t.fin_accepted = s.fin_accepted
      /\ t.got = s.got /\ t.deleted = s.deleted /\ t.named = s.named
      /\ t.rejected = s.rejected
  BY DEF EndsSession, Keeps, Names
<1>2. t.over[c] > 0 /\ t.stream_info \subseteq s.stream_info /\ t.accepted \subseteq s.accepted
  BY <1>0, SMTT(40) DEF EndsSession, Record
<1>3. z # c => t.over[z] = s.over[z] /\ t.state[z] = s.state[z]
  BY <1>0 DEF EndsSession, Record
<1>4. /\ z # c => t.kept[d] = s.kept[d] /\ t.buffered[d] = s.buffered[d]
      /\ t.kept[d] = s.kept[d] \/ t.kept[d] = 0
  BY DEF EndsSession, Dropped
<1>5. CASE z = c
  BY <1>1, <1>2, <1>4, <1>5 DEF Around, Settled
<1>6. CASE z # c
  BY <1>1, <1>2, <1>3, <1>4, <1>6 DEF Around, Settled, Could
<1> QED
  BY <1>5, <1>6

LEMMA GoodFacts ==
    ASSUME NEW n, NEW s, Good(s, n)
    PROVE  /\ s \in Record /\ ~s.out_of_place /\ ~s.mixed
           /\ \A c \in Sessions : Life(s, c)
           /\ \A c \in s.session_ids : c \in Sessions /\ Life(s, c)
BY DEF Good, Record

LEMMA EndsGood ==
    ASSUME NEW n, NEW s, Good(s, n), NEW t \in Record, NEW c \in s.session_ids, NEW y,
           EndsSession(s, t, c, y)
    PROVE  Good(t, n)
<1>1. s \in Record /\ c \in Sessions /\ Life(s, c) /\ ~s.out_of_place /\ ~s.mixed
  BY GoodFacts
<1>2. \A z \in Sessions : Life(t, z)
  BY <1>1, EndsLife DEF Good
<1>3. ~t.out_of_place /\ ~t.mixed
  <2>1. ~Misplaced(s, c)
    BY <1>1 DEF Misplaced, Life
  <2>2. t.out_of_place = Misplaced(s, c) /\ t.mixed = s.mixed
    BY DEF EndsSession, Keeps, Names
  <2> QED
    BY <1>1, <2>1, <2>2
<1>4. \A d \in Remote : OneStream(t, d, n[d])
  BY <1>1, EndsAround, AroundGood DEF Good
<1> QED
  BY <1>2, <1>3, <1>4 DEF Good

(* A CONNECT stream that is not a session.                                 *)
LEMMA DropsLife ==
    ASSUME NEW s \in Record, NEW t \in Record, NEW c \in Sessions,
           c \notin s.session_ids, DropsSession(s, t, c), NEW z \in Sessions, Life(s, z)
    PROVE  Life(t, z)
<1>0. s.state \in [Sessions -> {"none", "open", "gone"}]
  BY DEF Record
<1>1. /\ t.ready = s.ready /\ t.response = s.response /\ t.ended = s.ended
      /\ t.read = s.read /\ t.confirmed = s.confirmed /\ t.written = s.written
      /\ t.fin_accepted = s.fin_accepted /\ t.stale_2xx = s.stale_2xx
      /\ t.pending_fin = s.pending_fin /\ t.pre_accept_fin = s.pre_accept_fin
      /\ t.over = s.over /\ t.session_ids = s.session_ids /\ t.accepted = s.accepted
  BY DEF DropsSession, Keeps, Names
<1>2. CASE z # c
  <2>1. /\ t.state[z] = s.state[z]
        /\ z \in t.blocked <=> z \in s.blocked
        /\ z \in t.pending_headers <=> z \in s.pending_headers
    BY <1>0, <1>2 DEF DropsSession
  <2> QED
    BY <1>1, <2>1 DEF Life
<1>3. CASE z = c
  <2>1. /\ t.state[c] = IF s.state[c] = "open" THEN "gone" ELSE s.state[c]
        /\ c \notin t.pending_headers
        /\ c \in t.blocked => c \in s.blocked /\ s.state[c] # "open"
    BY <1>0 DEF DropsSession
  <2> QED
    BY <1>1, <1>3, <2>1 DEF Life
<1> QED
  BY <1>2, <1>3

LEMMA DropsAround ==
    ASSUME NEW s \in Record, NEW t \in Record, NEW c \in Sessions, Life(s, c),
           c \notin s.session_ids, DropsSession(s, t, c), NEW d \in Remote
    PROVE  Around(s, t, d)
<1> DEFINE z == SessionOf[d]
<1>0. z \in Sessions /\ s.state \in [Sessions -> {"none", "open", "gone"}]
      /\ s.over \in [Sessions -> Nat] /\ s.ready \in [Sessions -> Nat]
  BY SessionOfStream DEF Record, Streams
<1>1. /\ t.response = s.response /\ t.confirmed = s.confirmed /\ t.over = s.over
      /\ t.pre_accept_fin = s.pre_accept_fin /\ t.fin_accepted = s.fin_accepted
      /\ t.got = s.got /\ t.deleted = s.deleted /\ t.named = s.named
      /\ t.rejected = s.rejected /\ t.stream_info = s.stream_info
      /\ t.buffered = s.buffered /\ t.accepted = s.accepted
  BY DEF DropsSession, Keeps, Names
<1>2. t.state[z] = s.state[z] \/ t.state[z] = "gone"
  BY <1>0 DEF DropsSession
<1>3. t.kept[d] = s.kept[d] \/ (t.kept[d] = 0 /\ z = c /\ s.ready[c] > 0)
  BY DEF DropsSession, Dropped
<1>4. z = c /\ s.ready[c] > 0 => Settled(s, c)
  BY <1>0 DEF Life, Settled
<1>5. Settled(t, z) <=> Settled(s, z)
  BY <1>1 DEF Settled
<1>6. Could(t, z) => Could(s, z)
  BY <1>1, <1>2 DEF Could
<1> QED
  BY <1>1, <1>3, <1>4, <1>5, <1>6 DEF Around

LEMMA DropsGood ==
    ASSUME NEW n, NEW s, Good(s, n), NEW t \in Record, NEW c \in Sessions,
           c \notin s.session_ids, DropsSession(s, t, c)
    PROVE  Good(t, n)
<1>1. s \in Record /\ Life(s, c) /\ ~s.out_of_place /\ ~s.mixed
  BY GoodFacts
<1>2. \A z \in Sessions : Life(t, z)
  BY <1>1, DropsLife DEF Good
<1>3. t.out_of_place = s.out_of_place /\ t.mixed = s.mixed
  BY DEF DropsSession, Keeps, Names
<1>4. \A d \in Remote : OneStream(t, d, n[d])
  BY <1>1, DropsAround, AroundGood DEF Good
<1> QED
  BY <1>1, <1>2, <1>3, <1>4 DEF Good

(* A data stream.                                                          *)
LEMMA DropsStreamGood ==
    ASSUME NEW n, NEW s, Good(s, n), NEW t \in Record, NEW x, x \notin Sessions,
           DropsStream(s, t, x)
    PROVE  Good(t, n)
<1>1. s \in Record /\ ~s.out_of_place /\ ~s.mixed
  BY GoodFacts
<1>2. /\ t.ready = s.ready /\ t.response = s.response /\ t.ended = s.ended
      /\ t.read = s.read /\ t.confirmed = s.confirmed /\ t.written = s.written
      /\ t.fin_accepted = s.fin_accepted /\ t.stale_2xx = s.stale_2xx
      /\ t.pending_fin = s.pending_fin /\ t.pre_accept_fin = s.pre_accept_fin
      /\ t.over = s.over /\ t.session_ids = s.session_ids /\ t.accepted = s.accepted
      /\ t.state = s.state /\ t.blocked = s.blocked
      /\ t.pending_headers = s.pending_headers
  BY DEF DropsStream, Keeps, Names
<1>3. \A z \in Sessions : Life(t, z)
  BY <1>2 DEF Good, Life
<1>4. /\ t.out_of_place = s.out_of_place /\ t.mixed = s.mixed
      /\ t.rejected = s.rejected /\ t.named = s.named /\ t.got = s.got
  BY DEF DropsStream, Keeps, Names
<1>5. ASSUME NEW d \in Remote PROVE OneStream(t, d, n[d])
  <2>0. OneStream(s, d, n[d])
    BY DEF Good
  <2>1. CASE d # x \/ d \notin s.named
    <3>1. /\ t.kept[d] = s.kept[d] /\ t.buffered[d] = s.buffered[d]
          /\ d \in t.deleted <=> d \in s.deleted
          /\ d \in t.stream_info => d \in s.stream_info
      BY <1>1, <2>1 DEF DropsStream, Record
    <3>2. Around(s, t, d)
      BY <1>2, <1>4, <3>1 DEF Around, Could, Settled
    <3> QED
      BY <2>0, <3>2, AroundGood
  <2>2. CASE d = x /\ d \in s.named
    <3>1. /\ t.kept[d] = 0 /\ t.buffered[d] = 0 /\ d \in t.deleted
          /\ d \notin t.stream_info
      BY <1>1, <2>2 DEF DropsStream, Record
    <3>2. 0 <= PreAcceptLimit
      BY SessionAssumption
    <3> QED
      BY <1>2, <1>4, <2>2, <3>1, <3>2
         DEF OneStream, Stream, Counted, Reported, NoneKept
  <2> QED
    BY <2>1, <2>2
<1> QED
  BY <1>1, <1>3, <1>4, <1>5 DEF Good

LEMMA CloseGood ==
    ASSUME NEW n, NEW s, Good(s, n), NEW x, NEW y \in Why
    PROVE  Good(close_stream(s, x, y), n)
<1>1. s \in Record
  BY DEF Good
<1>2. CASE x \in s.session_ids
  <2>1. s.state[x] = "open"
    BY <1>2, GoodFacts DEF Life
  <2> QED
    BY <1>1, <1>2, <2>1, CloseEnds, EndsGood
<1>3. CASE x \notin s.session_ids /\ x \in Sessions
  BY <1>1, <1>3, CloseDrops, DropsGood
<1>4. CASE x \notin Sessions
  BY <1>1, <1>4, CloseStreamDrops, DropsStreamGood
<1> QED
  BY <1>2, <1>3, <1>4

-----------------------------------------------------------------------------
(* WT_CLOSE_SESSION received, or sent by close_session.                    *)

ClosesSession(s, t, c, y) ==
    /\ Keeps(s, t, {"session_ids", "accepted", "stream_info", "buffered",
                    "stale_2xx", "ended", "out_of_place", "over", "why"})
    /\ t.session_ids = s.session_ids \ {c}
    /\ t.accepted = s.accepted \ {c}
    /\ t.stream_info = s.stream_info \ StreamsOf(c)
    /\ t.buffered = [d \in Remote |-> IF SessionOf[d] = c THEN 0 ELSE s.buffered[d]]
    /\ t.stale_2xx \subseteq s.stale_2xx \cup {c}
    /\ s.stale_2xx \subseteq t.stale_2xx
    /\ t.ended = s.ended \cup {c}
    /\ t.out_of_place = Misplaced(s, c)
    /\ t.over = [s.over EXCEPT ![c] = @ + 1]
    /\ t.why = [s.why EXCEPT ![c] = y]

Marked(s, a, c) == [s EXCEPT !.stale_2xx = a, !.ended = @ \cup {c}]

LEMMA ClosesShape ==
    ASSUME NEW s \in Record, NEW c \in Sessions, NEW y \in Why,
           NEW a, a \subseteq s.stale_2xx \cup {c}, s.stale_2xx \subseteq a,
           NEW t, t = push_over(Marked(forget_session(s, c), a, c), c, y)
    PROVE  t \in Record /\ ClosesSession(s, t, c, y) /\ t.stale_2xx = a
<1> DEFINE u == forget_session(s, c)
           v == Marked(u, a, c)
<1>1. /\ u \in Record
      /\ Keeps(s, u, {"session_ids", "accepted", "stream_info", "buffered"})
      /\ u.session_ids = s.session_ids \ {c}
      /\ u.accepted = s.accepted \ {c}
      /\ u.stream_info = s.stream_info \ StreamsOf(c)
      /\ u.buffered = [d \in Remote |-> IF SessionOf[d] = c THEN 0 ELSE s.buffered[d]]
  BY ForgetSessionShape
<1> HIDE DEF u
<1>2. v \in Record
  <2>1. a \subseteq Sessions /\ u.ended \cup {c} \subseteq Sessions
    BY <1>1 DEF Record
  <2>2. [u EXCEPT !.stale_2xx = a, !.ended = u.ended \cup {c}] \in Record
    <3> DEFINE b == u.ended \cup {c}
    <3> HIDE DEF b
    <3>1. [u EXCEPT !.stale_2xx = a, !.ended = b] \in Record
      BY <1>1, <2>1 DEF Record, b
    <3> QED
      BY <3>1 DEF b
  <2> QED
    BY <2>2 DEF Marked
<1>3. /\ Keeps(u, v, {"stale_2xx", "ended"}) /\ v.stale_2xx = a
      /\ v.ended = u.ended \cup {c}
  BY <1>1, Fields, ZenonT(60) DEF Keeps, Names, Marked
<1>4. t = push_over(v, c, y)
  BY DEF u
<1> HIDE DEF v
<1>5. /\ t \in Record /\ Keeps(v, t, {"out_of_place", "over", "why"})
      /\ t.out_of_place = Misplaced(v, c)
      /\ t.over = [v.over EXCEPT ![c] = @ + 1] /\ t.why = [v.why EXCEPT ![c] = y]
  BY <1>2, <1>4, PushOverShape
<1>6. Keeps(s, v, {"session_ids", "accepted", "stream_info", "buffered",
                   "stale_2xx", "ended"})
  BY <1>1, <1>3 DEF Keeps
<1>7. Keeps(s, t, {"session_ids", "accepted", "stream_info", "buffered",
                   "stale_2xx", "ended", "out_of_place", "over", "why"})
  BY <1>5, <1>6 DEF Keeps
<1>8. Misplaced(v, c) = Misplaced(s, c)
  BY <1>6 DEF Misplaced, Keeps, Names
<1>9. /\ t.session_ids = s.session_ids \ {c} /\ t.accepted = s.accepted \ {c}
      /\ t.stream_info = s.stream_info \ StreamsOf(c)
      /\ t.buffered = [d \in Remote |-> IF SessionOf[d] = c THEN 0 ELSE s.buffered[d]]
  BY <1>1, <1>3, <1>5 DEF Keeps, Names
<1>10. t.stale_2xx = a /\ t.ended = s.ended \cup {c}
  BY <1>1, <1>3, <1>5 DEF Keeps, Names
<1>11. t.over = [s.over EXCEPT ![c] = @ + 1] /\ t.why = [s.why EXCEPT ![c] = y]
  BY <1>5, <1>6 DEF Keeps, Names
<1>12. ClosesSession(s, t, c, y)
  BY <1>5, <1>7, <1>8, <1>9, <1>10, <1>11 DEF ClosesSession
<1> QED
  BY <1>5, <1>10, <1>12

LEMMA RecvCloseShape ==
    ASSUME NEW s \in Record, NEW c \in Sessions, NEW a, a \in BOOLEAN
    PROVE  LET t == recv_wt_close_session_cb(s, c, a)
           IN  /\ t \in Record /\ ClosesSession(s, t, c, "capsule")
               /\ c \in t.stale_2xx <=> c \in s.stale_2xx \cup s.fin_accepted \/ a
<1> DEFINE b == IF c \in s.fin_accepted \/ a THEN s.stale_2xx \cup {c} ELSE s.stale_2xx
           t == recv_wt_close_session_cb(s, c, a)
           u == forget_session(s, c)
<1>1. b \subseteq s.stale_2xx \cup {c} /\ s.stale_2xx \subseteq b
  OBVIOUS
<1>2. u.stale_2xx = s.stale_2xx
  <2>1. Keeps(s, u, {"session_ids", "accepted", "stream_info", "buffered"})
    BY ForgetSessionShape
  <2> HIDE DEF u
  <2> QED
    BY <2>1 DEF Keeps, Names
<1>3. t = push_over(Marked(u, IF c \in s.fin_accepted \/ a THEN u.stale_2xx \cup {c}
                                                         ELSE u.stale_2xx, c),
                    c, "capsule")
  BY Zenon DEF recv_wt_close_session_cb, Marked
<1>4. t = push_over(Marked(u, b, c), c, "capsule")
  BY <1>2, <1>3
<1>5. "capsule" \in Why
  BY DEF Why
<1>6. c \in b <=> c \in s.stale_2xx \cup s.fin_accepted \/ a
  OBVIOUS
<1> HIDE DEF b, t
<1>7. t \in Record /\ ClosesSession(s, t, c, "capsule") /\ t.stale_2xx = b
  BY <1>1, <1>4, <1>5, ClosesShape
<1> QED
  BY <1>6, <1>7 DEF t

LEMMA CloseSessionShape ==
    ASSUME NEW s \in Record, NEW c \in Sessions
    PROVE  LET t == close_session(s, c)
           IN  t \in Record /\ ClosesSession(s, t, c, "app") /\ t.stale_2xx = s.stale_2xx
<1> DEFINE t == close_session(s, c)
           u == forget_session(s, c)
<1>1. u \in Record /\ u.stale_2xx = s.stale_2xx
  <2>1. u \in Record /\ Keeps(s, u, {"session_ids", "accepted", "stream_info", "buffered"})
    BY ForgetSessionShape
  <2> HIDE DEF u
  <2> QED
    BY <2>1 DEF Keeps, Names
<1>2. t = push_over([u EXCEPT !.ended = @ \cup {c}], c, "app")
  BY DEF close_session
<1>3. [u EXCEPT !.ended = @ \cup {c}] = Marked(u, s.stale_2xx, c)
  <2> HIDE DEF u
  <2> QED
    BY <1>1 DEF Record, Marked
<1>4. "app" \in Why
  BY DEF Why
<1> HIDE DEF t
<1>5. t = push_over(Marked(u, s.stale_2xx, c), c, "app")
  BY <1>2, <1>3
<1>6. t \in Record /\ ClosesSession(s, t, c, "app") /\ t.stale_2xx = s.stale_2xx
  BY <1>4, <1>5, ClosesShape
<1> QED
  BY <1>6 DEF t

LEMMA ClosesLife ==
    ASSUME NEW s \in Record, NEW t \in Record, NEW c \in s.session_ids, NEW y,
           ClosesSession(s, t, c, y), NEW z \in Sessions, Life(s, z)
    PROVE  Life(t, z)
<1>1. c \in Sessions /\ s.over \in [Sessions -> Nat]
  BY DEF Record
<1>2. /\ t.ready = s.ready /\ t.response = s.response /\ t.state = s.state
      /\ t.read = s.read /\ t.confirmed = s.confirmed /\ t.written = s.written
      /\ t.fin_accepted = s.fin_accepted /\ t.blocked = s.blocked
      /\ t.pending_fin = s.pending_fin /\ t.pre_accept_fin = s.pre_accept_fin
      /\ t.pending_headers = s.pending_headers
  BY DEF ClosesSession, Keeps, Names
<1>3. CASE z = c
  <2>1. /\ s.ready[c] = 1 /\ s.over[c] = 0 /\ s.response[c] # "refused"
        /\ s.state[c] = "open" /\ c \notin s.ended /\ c \notin s.blocked
        /\ ~(s.read[c] < HeadersLen) /\ c \notin s.pending_headers
    BY <1>3 DEF Life
  <2>2. /\ t.over[c] = 1 /\ c \notin t.session_ids
        /\ c \notin t.accepted /\ c \in t.ended
    BY <1>1, <2>1 DEF ClosesSession
  <2> QED
    BY <1>2, <1>3, <2>1, <2>2 DEF Life
<1>4. CASE z # c
  <2>1. /\ t.over[z] = s.over[z]
        /\ z \in t.session_ids <=> z \in s.session_ids
        /\ z \in t.accepted <=> z \in s.accepted
        /\ z \in t.stale_2xx <=> z \in s.stale_2xx
        /\ z \in t.ended <=> z \in s.ended
    BY <1>1, <1>4 DEF ClosesSession
  <2> QED
    BY <1>2, <2>1 DEF Life
<1> QED
  BY <1>3, <1>4

LEMMA ClosesGood ==
    ASSUME NEW n, NEW s, Good(s, n), NEW t \in Record, NEW c \in s.session_ids, NEW y,
           ClosesSession(s, t, c, y)
    PROVE  Good(t, n)
<1>1. s \in Record /\ c \in Sessions /\ Life(s, c) /\ ~s.out_of_place /\ ~s.mixed
  BY GoodFacts
<1>2. \A z \in Sessions : Life(t, z)
  BY <1>1, ClosesLife DEF Good
<1>3. ~t.out_of_place /\ ~t.mixed
  <2>1. ~Misplaced(s, c)
    BY <1>1 DEF Misplaced, Life
  <2>2. t.out_of_place = Misplaced(s, c) /\ t.mixed = s.mixed
    BY DEF ClosesSession, Keeps, Names
  <2> QED
    BY <1>1, <2>1, <2>2
<1>4. ASSUME NEW d \in Remote PROVE Around(s, t, d)
  <2> DEFINE z == SessionOf[d]
  <2>0. z \in Sessions
    BY SessionOfStream DEF Streams
  <2>1. /\ t.response = s.response /\ t.confirmed = s.confirmed
        /\ t.pre_accept_fin = s.pre_accept_fin /\ t.fin_accepted = s.fin_accepted
        /\ t.got = s.got /\ t.deleted = s.deleted /\ t.named = s.named
        /\ t.rejected = s.rejected /\ t.state = s.state /\ t.kept = s.kept
    BY DEF ClosesSession, Keeps, Names
  <2>2. /\ t.over[c] > 0 /\ t.stream_info \subseteq s.stream_info
        /\ t.accepted \subseteq s.accepted
    BY <1>1 DEF ClosesSession, Record
  <2>3. z # c => t.over[z] = s.over[z] /\ t.buffered[d] = s.buffered[d]
    BY <1>1, <2>0 DEF ClosesSession, Record
  <2>4. CASE z = c
    BY <2>1, <2>2, <2>4 DEF Around, Settled
  <2>5. CASE z # c
    BY <2>1, <2>2, <2>3, <2>5 DEF Around, Settled, Could
  <2> QED
    BY <2>4, <2>5
<1>5. \A d \in Remote : OneStream(t, d, n[d])
  BY <1>4, AroundGood DEF Good
<1> QED
  BY <1>2, <1>3, <1>5 DEF Good

-----------------------------------------------------------------------------
(* What a function does not touch: session z and data stream d.            *)

Same(s, t, z) ==
    /\ z \in t.session_ids <=> z \in s.session_ids
    /\ z \in t.accepted <=> z \in s.accepted
    /\ z \in t.pending_headers <=> z \in s.pending_headers
    /\ z \in t.pending_fin <=> z \in s.pending_fin
    /\ z \in t.pre_accept_fin <=> z \in s.pre_accept_fin
    /\ z \in t.fin_accepted <=> z \in s.fin_accepted
    /\ z \in t.qpack_blocked_fin <=> z \in s.qpack_blocked_fin
    /\ z \in t.stale_2xx <=> z \in s.stale_2xx
    /\ z \in t.blocked <=> z \in s.blocked
    /\ z \in t.written <=> z \in s.written
    /\ z \in t.confirmed <=> z \in s.confirmed
    /\ z \in t.ended <=> z \in s.ended
    /\ t.guard[z] = s.guard[z] /\ t.state[z] = s.state[z] /\ t.read[z] = s.read[z]
    /\ t.response[z] = s.response[z] /\ t.ready[z] = s.ready[z]
    /\ t.over[z] = s.over[z] /\ t.why[z] = s.why[z]

SameStream(s, t, d) ==
    /\ d \in t.named <=> d \in s.named
    /\ d \in t.deleted <=> d \in s.deleted
    /\ t.guard[d] = s.guard[d]

OnlySession(s, t, c) ==
    /\ \A z \in Sessions : z # c => Same(s, t, z)
    /\ \A d \in Remote : SameStream(s, t, d)

LEMMA LifeSame ==
    ASSUME NEW s, NEW t, NEW z \in Sessions, Same(s, t, z), Life(s, z)
    PROVE  Life(t, z)
BY DEF Same, Life

LEMMA SameAfter ==
    ASSUME NEW s, NEW t, NEW u, NEW z, Same(s, t, z), Same(t, u, z)
    PROVE  Same(s, u, z)
BY DEF Same

LEMMA OnlyAfter ==
    ASSUME NEW s, NEW t, NEW u, NEW c, OnlySession(s, t, c), OnlySession(t, u, c)
    PROVE  OnlySession(s, u, c)
<1>1. ASSUME NEW z \in Sessions, z # c PROVE Same(s, u, z)
  BY <1>1, SameAfter DEF OnlySession
<1>2. ASSUME NEW d \in Remote PROVE SameStream(s, u, d)
  BY DEF OnlySession, SameStream
<1> QED
  BY <1>1, <1>2 DEF OnlySession

LEMMA OnlyNone == ASSUME NEW s, NEW c PROVE OnlySession(s, s, c)
BY DEF OnlySession, Same, SameStream

(* Fields that the invariant of the record does not speak of.              *)
Aside == {"error", "closed", "guard", "qpack_blocked_fin", "why", "capsules"}

LEMMA AsideGood ==
    ASSUME NEW n, NEW s, Good(s, n), NEW t \in Record, Keeps(s, t, Aside)
    PROVE  Good(t, n)
<1>1. /\ t.ready = s.ready /\ t.response = s.response /\ t.ended = s.ended
      /\ t.read = s.read /\ t.confirmed = s.confirmed /\ t.written = s.written
      /\ t.fin_accepted = s.fin_accepted /\ t.stale_2xx = s.stale_2xx
      /\ t.pending_fin = s.pending_fin /\ t.pre_accept_fin = s.pre_accept_fin
      /\ t.over = s.over /\ t.session_ids = s.session_ids /\ t.accepted = s.accepted
      /\ t.state = s.state /\ t.blocked = s.blocked
      /\ t.pending_headers = s.pending_headers
  BY DEF Keeps, Names, Aside
<1>2. /\ t.out_of_place = s.out_of_place /\ t.mixed = s.mixed
      /\ t.rejected = s.rejected /\ t.named = s.named /\ t.got = s.got
      /\ t.kept = s.kept /\ t.buffered = s.buffered /\ t.deleted = s.deleted
      /\ t.stream_info = s.stream_info
  BY DEF Keeps, Names, Aside
<1>3. \A z \in Sessions : Life(t, z)
  BY <1>1 DEF Good, Life
<1>4. \A d \in Remote : Around(s, t, d)
  BY <1>1, <1>2 DEF Around, Could, Settled
<1>5. \A d \in Remote : OneStream(t, d, n[d])
  BY <1>4, AroundGood DEF Good
<1> QED
  BY <1>2, <1>3, <1>5 DEF Good

-----------------------------------------------------------------------------
(* end_headers_cb and reject_session.                                      *)

RejectsSession(s, t, c) ==
    /\ Keeps(s, t, {"response", "session_ids", "pre_accept_fin", "accepted", "buffered"})
    /\ t.response = [s.response EXCEPT ![c] = "refused"]
    /\ t.session_ids = s.session_ids \ {c}
    /\ t.pre_accept_fin = s.pre_accept_fin \ {c}
    /\ t.accepted = s.accepted \ {c}
    /\ t.buffered = [d \in Remote |-> IF SessionOf[d] = c THEN 0 ELSE s.buffered[d]]

LEMMA RejectShape ==
    ASSUME NEW s \in Record, NEW c \in Sessions
    PROVE  reject_session(s, c) \in Record /\ RejectsSession(s, reject_session(s, c), c)
<1> DEFINE f == [s.response EXCEPT ![c] = "refused"]
           b == [d \in Remote |-> IF SessionOf[d] = c THEN 0 ELSE s.buffered[d]]
           t == [s EXCEPT !.response = f, !.session_ids = @ \ {c},
                          !.pre_accept_fin = @ \ {c}, !.accepted = @ \ {c}, !.buffered = b]
<1>1. reject_session(s, c) = t
  BY DEF reject_session, forget_pre_accept_session, Record
<1>2. f \in [Sessions -> {"none", "ok", "refused"}] /\ b \in [Remote -> Nat]
  BY DEF Record
<1> HIDE DEF f, b
<1>3. t \in Record
  BY <1>2 DEF Record
<1>4. /\ Keeps(s, t, {"response", "session_ids", "pre_accept_fin", "accepted", "buffered"})
      /\ t.response = f /\ t.session_ids = s.session_ids \ {c}
      /\ t.pre_accept_fin = s.pre_accept_fin \ {c} /\ t.accepted = s.accepted \ {c}
      /\ t.buffered = b
  BY Fields DEF Keeps, Names
<1>5. RejectsSession(s, t, c)
  BY <1>4 DEF RejectsSession, f, b
<1> QED
  BY <1>1, <1>3, <1>5

ReadiesSession(s, t, c) ==
    /\ Keeps(s, t, {"pending_headers", "session_ids", "ready", "out_of_place"})
    /\ t.pending_headers = s.pending_headers \ {c}
    /\ t.session_ids = s.session_ids \cup {c}
    /\ t.ready = [s.ready EXCEPT ![c] = @ + 1]
    /\ ~s.out_of_place /\ s.over[c] = 0 => ~t.out_of_place

Unpend(s, c) == [s EXCEPT !.pending_headers = @ \ {c}]

LEMMA UnpendShape ==
    ASSUME NEW s \in Record, NEW c
    PROVE  /\ Unpend(s, c) \in Record /\ Keeps(s, Unpend(s, c), {"pending_headers"})
           /\ Unpend(s, c).pending_headers = s.pending_headers \ {c}
<1>1. Unpend(s, c) \in Record
  BY DEF Unpend, Record
<1>2. Keeps(s, Unpend(s, c), {"pending_headers"})
  BY Fields DEF Unpend, Keeps
<1>3. Unpend(s, c).pending_headers = s.pending_headers \ {c}
  BY Fields DEF Unpend, Names
<1> QED
  BY <1>1, <1>2, <1>3

LEMMA ReadyShape ==
    ASSUME NEW s \in Record, NEW c \in Sessions, c \in wanted
    PROVE  end_headers_cb(s, c) \in Record /\ ReadiesSession(s, end_headers_cb(s, c), c)
<1> DEFINE u == Unpend(s, c)
           b == u.out_of_place \/ u.over[c] > 0
           f == [u.ready EXCEPT ![c] = @ + 1]
           g == u.session_ids \cup {c}
           t == [u EXCEPT !.session_ids = g, !.ready = f]
           v == Displace(t, b)
<1>1. /\ u \in Record /\ Keeps(s, u, {"pending_headers"})
      /\ u.pending_headers = s.pending_headers \ {c}
  BY UnpendShape
<1>2. end_headers_cb(s, c) = push_ready([Unpend(s, c) EXCEPT !.session_ids = @ \cup {c}], c)
  BY Zenon DEF end_headers_cb, Unpend
<1> HIDE DEF u
<1>3. push_ready([u EXCEPT !.session_ids = @ \cup {c}], c) = v
  BY <1>1, Fields DEF push_ready, Displace, Names
<1>4. f \in [Sessions -> Nat] /\ g \subseteq Sessions /\ b \in BOOLEAN
  BY <1>1 DEF Record
<1> HIDE DEF f, g, b
<1>5. t \in Record
  BY <1>1, <1>4 DEF Record
<1>6. Keeps(u, t, {"session_ids", "ready"}) /\ t.session_ids = g /\ t.ready = f
  BY <1>1, Fields DEF Keeps, Names
<1> HIDE DEF t
<1>7. v \in Record /\ Keeps(t, v, {"out_of_place"}) /\ v.out_of_place = b
  BY <1>4, <1>5, DisplaceShape
<1> HIDE DEF v
<1>8. Keeps(s, v, {"pending_headers", "session_ids", "ready", "out_of_place"})
  BY <1>1, <1>6, <1>7 DEF Keeps
<1>9. /\ v.pending_headers = s.pending_headers \ {c}
      /\ v.session_ids = g /\ v.ready = f
  BY <1>1, <1>6, <1>7 DEF Keeps, Names
<1>10. u.session_ids = s.session_ids /\ u.ready = s.ready /\ u.over = s.over
       /\ u.out_of_place = s.out_of_place
  BY <1>1 DEF Keeps, Names
<1>11. g = s.session_ids \cup {c} /\ f = [s.ready EXCEPT ![c] = @ + 1]
  BY <1>10 DEF f, g
<1>12. ~s.out_of_place /\ s.over[c] = 0 => ~b
  BY <1>10 DEF b
<1>13. ReadiesSession(s, v, c)
  BY <1>7, <1>8, <1>9, <1>11, <1>12 DEF ReadiesSession
<1> QED
  BY <1>2, <1>3, <1>7, <1>13 DEF u

RefusesSession(s, t, c) ==
    /\ Keeps(s, t, {"pending_headers", "qpack_blocked_fin", "response", "session_ids",
                    "pre_accept_fin", "accepted", "buffered"})
    /\ t.pending_headers = s.pending_headers \ {c}
    /\ t.qpack_blocked_fin = s.qpack_blocked_fin \ {c}
    /\ t.response = [s.response EXCEPT ![c] = "refused"]
    /\ t.session_ids = s.session_ids \ {c}
    /\ t.pre_accept_fin = s.pre_accept_fin \ {c}
    /\ t.accepted = s.accepted \ {c}
    /\ t.buffered = [d \in Remote |-> IF SessionOf[d] = c THEN 0 ELSE s.buffered[d]]

LEMMA RefuseShape ==
    ASSUME NEW s \in Record, NEW c \in Sessions, c \notin wanted
    PROVE  end_headers_cb(s, c) \in Record /\ RefusesSession(s, end_headers_cb(s, c), c)
<1> DEFINE u == Unpend(s, c)
           v == [u EXCEPT !.qpack_blocked_fin = @ \ {c}]
           t == reject_session(v, c)
<1>1. /\ u \in Record /\ Keeps(s, u, {"pending_headers"})
      /\ u.pending_headers = s.pending_headers \ {c}
  BY UnpendShape
<1>2. end_headers_cb(s, c) = t
  BY Zenon DEF end_headers_cb, Unpend
<1> HIDE DEF u
<1>3. v \in Record
  BY <1>1 DEF Record
<1>4. /\ Keeps(u, v, {"qpack_blocked_fin"})
      /\ v.qpack_blocked_fin = u.qpack_blocked_fin \ {c}
  BY <1>1, Fields DEF Keeps, Names
<1> HIDE DEF v
<1>5. t \in Record /\ RejectsSession(v, t, c)
  BY <1>3, RejectShape
<1> HIDE DEF t
<1>6. Keeps(s, v, {"pending_headers", "qpack_blocked_fin"})
  BY <1>1, <1>4 DEF Keeps
<1>7. Keeps(v, t, {"response", "session_ids", "pre_accept_fin", "accepted", "buffered"})
  BY <1>5 DEF RejectsSession
<1>8. Keeps(s, t, {"pending_headers", "qpack_blocked_fin", "response", "session_ids",
                   "pre_accept_fin", "accepted", "buffered"})
  BY <1>6, <1>7 DEF Keeps
<1>9. /\ t.pending_headers = s.pending_headers \ {c}
      /\ t.qpack_blocked_fin = s.qpack_blocked_fin \ {c}
  BY <1>1, <1>4, <1>7 DEF Keeps, Names
<1>10. /\ v.response = s.response /\ v.session_ids = s.session_ids
       /\ v.pre_accept_fin = s.pre_accept_fin /\ v.accepted = s.accepted
       /\ v.buffered = s.buffered
  BY <1>6 DEF Keeps, Names
<1>11. RefusesSession(s, t, c)
  BY <1>5, <1>8, <1>9, <1>10 DEF RefusesSession, RejectsSession
<1> QED
  BY <1>2, <1>5, <1>11

(* A request whose field section is about to be decoded.                   *)
Fresh(s, c) ==
    /\ s.ready[c] = 0 /\ s.over[c] = 0 /\ s.response[c] = "none"
    /\ s.state[c] = "open" /\ s.read[c] = HeadersLen
    /\ c \notin s.session_ids \cup s.accepted \cup s.blocked \cup s.confirmed \cup s.ended
    /\ c \notin s.pending_fin \cup s.stale_2xx \cup s.pre_accept_fin \cup s.fin_accepted
    /\ c \notin s.written

(* As Good, for all sessions but c.                                        *)
GoodBut(s, n, c) ==
    /\ s \in Record /\ ~s.out_of_place /\ ~s.mixed
    /\ \A z \in Sessions : z # c => Life(s, z)
    /\ \A d \in Remote : OneStream(s, d, n[d])

LEMMA ReadyGood ==
    ASSUME NEW n, NEW s, NEW c \in Sessions, GoodBut(s, n, c), Fresh(s, c),
           NEW t \in Record, ReadiesSession(s, t, c)
    PROVE  Good(t, n) /\ OnlySession(s, t, c)
<1>0. s \in Record /\ ~s.out_of_place /\ ~s.mixed /\ s.ready \in [Sessions -> Nat]
  BY DEF GoodBut, Record
<1>1. /\ t.response = s.response /\ t.ended = s.ended
      /\ t.read = s.read /\ t.confirmed = s.confirmed /\ t.written = s.written
      /\ t.fin_accepted = s.fin_accepted /\ t.stale_2xx = s.stale_2xx
      /\ t.pending_fin = s.pending_fin /\ t.pre_accept_fin = s.pre_accept_fin
      /\ t.over = s.over /\ t.accepted = s.accepted
      /\ t.state = s.state /\ t.blocked = s.blocked
      /\ t.why = s.why /\ t.guard = s.guard /\ t.qpack_blocked_fin = s.qpack_blocked_fin
  BY DEF ReadiesSession, Keeps, Names
<1>2. /\ t.mixed = s.mixed
      /\ t.rejected = s.rejected /\ t.named = s.named /\ t.got = s.got
      /\ t.kept = s.kept /\ t.buffered = s.buffered /\ t.deleted = s.deleted
      /\ t.stream_info = s.stream_info
  BY DEF ReadiesSession, Keeps, Names
<1>3. ~t.out_of_place
  BY <1>0 DEF ReadiesSession, Fresh
<1>4. \A z \in Sessions : z # c => Same(s, t, z)
  <2>1. \A z \in Sessions : z # c => /\ t.ready[z] = s.ready[z]
                                     /\ z \in t.session_ids <=> z \in s.session_ids
                                     /\ z \in t.pending_headers <=> z \in s.pending_headers
    BY <1>0 DEF ReadiesSession
  <2> QED
    BY <1>1, <2>1 DEF Same
<1>5. Life(t, c)
  <2>1. t.ready[c] = 1 /\ c \in t.session_ids /\ c \notin t.pending_headers
    BY <1>0 DEF ReadiesSession, Fresh
  <2> QED
    BY <1>1, <2>1 DEF Life, Fresh, HeadersLen
<1>6. \A z \in Sessions : Life(t, z)
  BY <1>4, <1>5, LifeSame DEF GoodBut
<1>7. \A d \in Remote : Around(s, t, d) /\ SameStream(s, t, d)
  BY <1>1, <1>2 DEF Around, Could, Settled, SameStream
<1>8. \A d \in Remote : OneStream(t, d, n[d])
  BY <1>7, AroundGood DEF GoodBut
<1> QED
  BY <1>0, <1>2, <1>3, <1>4, <1>6, <1>7, <1>8 DEF Good, OnlySession

LEMMA RefuseGood ==
    ASSUME NEW n, NEW s, NEW c \in Sessions, GoodBut(s, n, c), Fresh(s, c),
           NEW t \in Record, RefusesSession(s, t, c)
    PROVE  Good(t, n) /\ OnlySession(s, t, c)
<1>0. s \in Record /\ ~s.out_of_place /\ ~s.mixed
      /\ s.response \in [Sessions -> {"none", "ok", "refused"}]
  BY DEF GoodBut, Record
<1>1. /\ t.ready = s.ready /\ t.ended = s.ended
      /\ t.read = s.read /\ t.confirmed = s.confirmed /\ t.written = s.written
      /\ t.fin_accepted = s.fin_accepted /\ t.stale_2xx = s.stale_2xx
      /\ t.pending_fin = s.pending_fin /\ t.over = s.over
      /\ t.state = s.state /\ t.blocked = s.blocked
      /\ t.why = s.why /\ t.guard = s.guard
  BY DEF RefusesSession, Keeps, Names
<1>2. /\ t.mixed = s.mixed /\ t.out_of_place = s.out_of_place
      /\ t.rejected = s.rejected /\ t.named = s.named /\ t.got = s.got
      /\ t.kept = s.kept /\ t.deleted = s.deleted /\ t.stream_info = s.stream_info
  BY DEF RefusesSession, Keeps, Names
<1>3. \A z \in Sessions : z # c =>
          /\ t.response[z] = s.response[z]
          /\ z \in t.session_ids <=> z \in s.session_ids
          /\ z \in t.accepted <=> z \in s.accepted
          /\ z \in t.qpack_blocked_fin <=> z \in s.qpack_blocked_fin
          /\ z \in t.pre_accept_fin <=> z \in s.pre_accept_fin
          /\ z \in t.pending_headers <=> z \in s.pending_headers
  BY <1>0 DEF RefusesSession
<1>4. \A z \in Sessions : z # c => Same(s, t, z)
  BY <1>1, <1>3 DEF Same
<1>5. /\ t.response[c] = "refused" /\ c \notin t.session_ids /\ c \notin t.accepted
      /\ c \notin t.pre_accept_fin /\ c \notin t.pending_headers
  BY <1>0 DEF RefusesSession
<1>6. Life(t, c)
  BY <1>1, <1>5 DEF Life, Fresh, HeadersLen
<1>7. \A z \in Sessions : Life(t, z)
  BY <1>4, <1>6, LifeSame DEF GoodBut
<1>8. ASSUME NEW d \in Remote PROVE Around(s, t, d)
  <2> DEFINE z == SessionOf[d]
  <2>1. z \in Sessions
    BY SessionOfStream DEF Streams
  <2>2. CASE z = c
    BY <1>2, <1>5, <2>2 DEF Around, Settled
  <2>3. CASE z # c
    <3>1. t.buffered[d] = s.buffered[d]
      BY <2>3 DEF RefusesSession
    <3> QED
      BY <1>1, <1>2, <1>3, <2>1, <2>3, <3>1 DEF Around, Settled, Could
  <2> QED
    BY <2>2, <2>3
<1>9. \A d \in Remote : OneStream(t, d, n[d])
  BY <1>8, AroundGood DEF GoodBut
<1>10. \A d \in Remote : SameStream(s, t, d)
  BY <1>1, <1>2 DEF SameStream
<1> QED
  BY <1>0, <1>2, <1>4, <1>7, <1>9, <1>10 DEF Good, OnlySession

(* reject_session, called by the application.                              *)
LEMMA RejectGood ==
    ASSUME NEW n, NEW s, Good(s, n), NEW c \in s.session_ids, s.response[c] = "none",
           NEW t \in Record, RejectsSession(s, t, c)
    PROVE  Good(t, n) /\ OnlySession(s, t, c)
<1>a. s \in Record /\ c \in Sessions /\ Life(s, c) /\ ~s.out_of_place /\ ~s.mixed
  BY GoodFacts
<1>0. s.response \in [Sessions -> {"none", "ok", "refused"}]
  BY <1>a DEF Record
<1>1. /\ t.ready = s.ready /\ t.ended = s.ended
      /\ t.read = s.read /\ t.confirmed = s.confirmed /\ t.written = s.written
      /\ t.fin_accepted = s.fin_accepted /\ t.stale_2xx = s.stale_2xx
      /\ t.pending_fin = s.pending_fin /\ t.over = s.over
      /\ t.state = s.state /\ t.blocked = s.blocked
      /\ t.why = s.why /\ t.guard = s.guard
      /\ t.pending_headers = s.pending_headers /\ t.qpack_blocked_fin = s.qpack_blocked_fin
  BY DEF RejectsSession, Keeps, Names
<1>2. /\ t.mixed = s.mixed /\ t.out_of_place = s.out_of_place
      /\ t.rejected = s.rejected /\ t.named = s.named /\ t.got = s.got
      /\ t.kept = s.kept /\ t.deleted = s.deleted /\ t.stream_info = s.stream_info
  BY DEF RejectsSession, Keeps, Names
<1>3. \A z \in Sessions : z # c =>
          /\ t.response[z] = s.response[z]
          /\ z \in t.session_ids <=> z \in s.session_ids
          /\ z \in t.accepted <=> z \in s.accepted
          /\ z \in t.pre_accept_fin <=> z \in s.pre_accept_fin
  BY <1>0 DEF RejectsSession
<1>4. \A z \in Sessions : z # c => Same(s, t, z)
  BY <1>1, <1>3 DEF Same
<1>5. /\ t.response[c] = "refused" /\ c \notin t.session_ids /\ c \notin t.accepted
      /\ c \notin t.pre_accept_fin
  BY <1>0, <1>a DEF RejectsSession
<1>6. Life(t, c)
  BY <1>1, <1>5, <1>a DEF Life
<1>7. \A z \in Sessions : Life(t, z)
  BY <1>4, <1>6, LifeSame DEF Good
<1>8. ASSUME NEW d \in Remote PROVE Around(s, t, d)
  <2> DEFINE z == SessionOf[d]
  <2>1. z \in Sessions
    BY SessionOfStream DEF Streams
  <2>2. CASE z = c
    BY <1>2, <1>5, <2>2 DEF Around, Settled
  <2>3. CASE z # c
    <3>1. t.buffered[d] = s.buffered[d]
      BY <2>3 DEF RejectsSession
    <3> QED
      BY <1>1, <1>2, <1>3, <2>1, <2>3, <3>1 DEF Around, Settled, Could
  <2> QED
    BY <2>2, <2>3
<1>9. \A d \in Remote : OneStream(t, d, n[d])
  BY <1>8, AroundGood DEF Good
<1>10. \A d \in Remote : SameStream(s, t, d)
  BY <1>1, <1>2 DEF SameStream
<1> QED
  BY <1>2, <1>4, <1>7, <1>9, <1>10, <1>a DEF Good, OnlySession

-----------------------------------------------------------------------------
(* What close_stream does to the session itself.                           *)

Global(s, t) ==
    /\ t.closed = s.closed /\ t.error = s.error
    /\ t.pending_fin = s.pending_fin /\ t.stale_2xx = s.stale_2xx
    /\ t.confirmed = s.confirmed /\ t.written = s.written

ClosedAt(s, t, c, y) ==
    /\ c \notin t.session_ids \cup t.accepted \cup t.blocked
    /\ c \notin t.pending_headers \cup t.qpack_blocked_fin
    /\ t.state[c] = IF s.state[c] = "none" THEN "none" ELSE "gone"
    /\ t.guard[c] = NoGuard /\ t.read[c] = s.read[c]
    /\ t.response[c] = s.response[c] /\ t.ready[c] = s.ready[c]
    /\ c \in t.pre_accept_fin <=> c \in s.pre_accept_fin
    /\ c \in t.fin_accepted <=> c \in s.fin_accepted
    /\ c \in s.session_ids => t.over[c] = 1 /\ t.why[c] = y
    /\ c \notin s.session_ids => t.over[c] = s.over[c] /\ t.why[c] = s.why[c]

(* A ResetStream or a StopSending that is in its place changes nothing.    *)
LEMMA ResetInPlace ==
    ASSUME NEW s \in Record, NEW c, ~s.out_of_place, s.over[c] = 1, s.why[c] = "bad"
    PROVE  push_reset(s, c) = s
BY Fields DEF push_reset, Record

LEMMA StopInPlace ==
    ASSUME NEW s \in Record, NEW d, ~s.out_of_place, SessionOf[d] \notin s.confirmed
    PROVE  push_stop(s, d) = s
BY Fields DEF push_stop, Record

LEMMA SessionNotStream ==
    ASSUME NEW c \in Sessions PROVE c \in Arriving /\ c \notin Remote /\ c \notin Streams
BY SessionAssumption DEF Streams, Arriving

LEMMA UnguardElsewhere ==
    ASSUME NEW s, NEW x, NEW z \in Arriving
    PROVE  Unguard(s, x)[z] = IF z = x THEN NoGuard ELSE s.guard[z]
BY DEF Unguard

LEMMA EndsOnly ==
    ASSUME NEW s \in Record, NEW t \in Record, NEW c \in s.session_ids, NEW y,
           EndsSession(s, t, c, y), Life(s, c)
    PROVE  Global(s, t) /\ OnlySession(s, t, c) /\ ClosedAt(s, t, c, y)
<1>0. c \in Sessions /\ s.over \in [Sessions -> Nat] /\ s.why \in [Sessions -> Why]
      /\ s.state \in [Sessions -> {"none", "open", "gone"}]
  BY DEF Record
<1>1. /\ t.response = s.response /\ t.ready = s.ready /\ t.read = s.read
      /\ t.confirmed = s.confirmed /\ t.ended = s.ended /\ t.written = s.written
      /\ t.pre_accept_fin = s.pre_accept_fin /\ t.fin_accepted = s.fin_accepted
      /\ t.stale_2xx = s.stale_2xx /\ t.pending_fin = s.pending_fin
      /\ t.named = s.named /\ t.deleted = s.deleted
      /\ t.closed = s.closed /\ t.error = s.error
  BY DEF EndsSession, Keeps, Names
<1>2. \A z \in Arriving : t.guard[z] = IF z = c THEN NoGuard ELSE s.guard[z]
  BY UnguardElsewhere DEF EndsSession
<1>3. ASSUME NEW z \in Sessions, z # c PROVE Same(s, t, z)
  <2>1. /\ t.over[z] = s.over[z] /\ t.why[z] = s.why[z] /\ t.state[z] = s.state[z]
        /\ z \in t.session_ids <=> z \in s.session_ids
        /\ z \in t.accepted <=> z \in s.accepted
        /\ z \in t.pending_headers <=> z \in s.pending_headers
        /\ z \in t.qpack_blocked_fin <=> z \in s.qpack_blocked_fin
        /\ z \in t.blocked <=> z \in s.blocked
    BY <1>0, <1>3 DEF EndsSession
  <2>2. t.guard[z] = s.guard[z]
    BY <1>2, <1>3, SessionNotStream
  <2> QED
    BY <1>1, <2>1, <2>2 DEF Same
<1>4. \A d \in Remote : SameStream(s, t, d)
  <2>1. \A d \in Remote : d \in Arriving /\ d # c
    BY <1>0, SessionNotStream DEF Arriving
  <2> QED
    BY <1>1, <1>2, <2>1 DEF SameStream
<1>5. ClosedAt(s, t, c, y)
  <2>1. s.over[c] = 0 /\ s.state[c] = "open"
    BY DEF Life
  <2>2. /\ t.over[c] = 1 /\ t.why[c] = y /\ t.state[c] = "gone"
        /\ c \notin t.session_ids \cup t.accepted \cup t.blocked
        /\ c \notin t.pending_headers \cup t.qpack_blocked_fin
    BY <1>0, <2>1 DEF EndsSession
  <2>3. t.guard[c] = NoGuard
    BY <1>0, <1>2, SessionNotStream
  <2> QED
    BY <1>1, <2>1, <2>2, <2>3 DEF ClosedAt
<1> QED
  BY <1>1, <1>3, <1>4, <1>5 DEF OnlySession, Global

LEMMA DropsOnly ==
    ASSUME NEW s \in Record, NEW t \in Record, NEW c \in Sessions, NEW y,
           c \notin s.session_ids, DropsSession(s, t, c), Life(s, c)
    PROVE  Global(s, t) /\ OnlySession(s, t, c) /\ ClosedAt(s, t, c, y)
<1>0. s.state \in [Sessions -> {"none", "open", "gone"}]
  BY DEF Record
<1>1. /\ t.response = s.response /\ t.ready = s.ready /\ t.read = s.read
      /\ t.confirmed = s.confirmed /\ t.ended = s.ended /\ t.written = s.written
      /\ t.pre_accept_fin = s.pre_accept_fin /\ t.fin_accepted = s.fin_accepted
      /\ t.stale_2xx = s.stale_2xx /\ t.pending_fin = s.pending_fin
      /\ t.named = s.named /\ t.deleted = s.deleted /\ t.over = s.over /\ t.why = s.why
      /\ t.closed = s.closed /\ t.error = s.error
      /\ t.session_ids = s.session_ids /\ t.accepted = s.accepted
  BY DEF DropsSession, Keeps, Names
<1>2. \A z \in Arriving : t.guard[z] = IF z = c THEN NoGuard ELSE s.guard[z]
  BY UnguardElsewhere DEF DropsSession
<1>3. ASSUME NEW z \in Sessions, z # c PROVE Same(s, t, z)
  <2>1. /\ t.state[z] = s.state[z]
        /\ z \in t.pending_headers <=> z \in s.pending_headers
        /\ z \in t.qpack_blocked_fin <=> z \in s.qpack_blocked_fin
        /\ z \in t.blocked <=> z \in s.blocked
    BY <1>0, <1>3 DEF DropsSession
  <2>2. t.guard[z] = s.guard[z]
    BY <1>2, <1>3, SessionNotStream
  <2> QED
    BY <1>1, <2>1, <2>2 DEF Same
<1>4. \A d \in Remote : SameStream(s, t, d)
  <2>1. \A d \in Remote : d \in Arriving /\ d # c
    BY SessionNotStream DEF Arriving
  <2> QED
    BY <1>1, <1>2, <2>1 DEF SameStream
<1>5. ClosedAt(s, t, c, y)
  <2>1. c \notin s.accepted /\ (c \in s.blocked => s.state[c] = "open")
    BY DEF Life
  <2>2. /\ t.state[c] = IF s.state[c] = "none" THEN "none" ELSE "gone"
        /\ c \notin t.blocked
        /\ c \notin t.pending_headers \cup t.qpack_blocked_fin
    BY <1>0, <2>1 DEF DropsSession
  <2>3. t.guard[c] = NoGuard
    BY <1>2, SessionNotStream
  <2> QED
    BY <1>1, <2>1, <2>2, <2>3 DEF ClosedAt
<1> QED
  BY <1>1, <1>3, <1>4, <1>5 DEF OnlySession, Global

LEMMA CloseOnly ==
    ASSUME NEW n, NEW s, Good(s, n), NEW c \in Sessions, NEW y \in Why
    PROVE  LET t == close_stream(s, c, y)
           IN  /\ Good(t, n) /\ Global(s, t)
               /\ OnlySession(s, t, c) /\ ClosedAt(s, t, c, y)
<1> DEFINE t == close_stream(s, c, y)
<1>1. s \in Record /\ Life(s, c) /\ Good(t, n)
  BY CloseGood DEF Good
<1>2. CASE c \in s.session_ids
  <2>1. s.state[c] = "open"
    BY <1>1, <1>2 DEF Life
  <2>2. t \in Record /\ EndsSession(s, t, c, y)
    BY <1>1, <1>2, <2>1, CloseEnds
  <2> HIDE DEF t
  <2>3. Global(s, t) /\ OnlySession(s, t, c) /\ ClosedAt(s, t, c, y)
    BY <1>1, <1>2, <2>2, EndsOnly
  <2> QED
    BY <1>1, <2>3 DEF t
<1>3. CASE c \notin s.session_ids
  <2>2. t \in Record /\ DropsSession(s, t, c)
    BY <1>1, <1>3, CloseDrops
  <2> HIDE DEF t
  <2>3. Global(s, t) /\ OnlySession(s, t, c) /\ ClosedAt(s, t, c, y)
    BY <1>1, <1>3, <2>2, DropsOnly
  <2> QED
    BY <1>1, <2>3 DEF t
<1> QED
  BY <1>2, <1>3

(* A data stream.                                                          *)
NoSession(s, t) == \A z \in Sessions : Same(s, t, z)

LEMMA CloseStreamOnly ==
    ASSUME NEW n, NEW s, Good(s, n), NEW x \in Streams, NEW y \in Why
    PROVE  LET t == close_stream(s, x, y)
           IN  /\ Good(t, n) /\ Global(s, t) /\ NoSession(s, t)
               /\ \A d \in Remote : d # x => SameStream(s, t, d)
               /\ x \in t.named <=> x \in s.named
               /\ x \in t.deleted <=> x \in s.named \cup s.deleted
<1> DEFINE t == close_stream(s, x, y)
<1>1. s \in Record /\ Good(t, n)
  BY CloseGood DEF Good
<1>2. x \notin Sessions
  BY SessionAssumption
<1>3. t \in Record /\ DropsStream(s, t, x)
  BY <1>1, <1>2, CloseStreamDrops
<1> HIDE DEF t
<1>4. /\ t.response = s.response /\ t.ready = s.ready /\ t.read = s.read
      /\ t.confirmed = s.confirmed /\ t.ended = s.ended /\ t.written = s.written
      /\ t.pre_accept_fin = s.pre_accept_fin /\ t.fin_accepted = s.fin_accepted
      /\ t.stale_2xx = s.stale_2xx /\ t.pending_fin = s.pending_fin
      /\ t.named = s.named /\ t.over = s.over /\ t.why = s.why
      /\ t.closed = s.closed /\ t.error = s.error
      /\ t.session_ids = s.session_ids /\ t.accepted = s.accepted
      /\ t.state = s.state /\ t.pending_headers = s.pending_headers
      /\ t.qpack_blocked_fin = s.qpack_blocked_fin /\ t.blocked = s.blocked
  BY <1>3 DEF DropsStream, Keeps, Names
<1>5. \A z \in Arriving : t.guard[z] = IF z = x THEN NoGuard ELSE s.guard[z]
  BY <1>3, UnguardElsewhere DEF DropsStream
<1>6. \A z \in Sessions : t.guard[z] = s.guard[z]
  BY <1>2, <1>5, SessionNotStream
<1>7. NoSession(s, t)
  BY <1>4, <1>6 DEF NoSession, Same
<1>8. \A d \in Remote : d # x => SameStream(s, t, d)
  <2>1. \A d \in Remote : d # x => (d \in t.deleted <=> d \in s.deleted)
    BY <1>3 DEF DropsStream
  <2> QED
    BY <1>4, <1>5, <2>1 DEF SameStream, Arriving
<1>9. x \in t.deleted <=> x \in s.named \cup s.deleted
  BY <1>3 DEF DropsStream
<1> QED
  BY <1>1, <1>4, <1>7, <1>8, <1>9 DEF t, Global

-----------------------------------------------------------------------------
(* Closing a stream whose FIN or WT_CLOSE_SESSION came before the response *)
(* was written.                                                            *)

Undefer(s, c) == [s EXCEPT !.fin_accepted = @ \ {c}]

LEMMA UndeferShape ==
    ASSUME NEW s \in Record, NEW c
    PROVE  /\ Undefer(s, c) \in Record /\ Keeps(s, Undefer(s, c), {"fin_accepted"})
           /\ Undefer(s, c).fin_accepted = s.fin_accepted \ {c}
<1>1. Undefer(s, c) \in Record
  BY DEF Undefer, Record
<1>2. Keeps(s, Undefer(s, c), {"fin_accepted"})
  BY Fields DEF Undefer, Keeps
<1>3. Undefer(s, c).fin_accepted = s.fin_accepted \ {c}
  BY Fields DEF Undefer, Names
<1> QED
  BY <1>1, <1>2, <1>3

Finish(s, c, y) == close_stream(Undefer(s, c), c, y)

LEMMA FinishAsClose ==
    ASSUME NEW s \in Record, NEW c \in Sessions, Life(s, c), NEW y \in Why
    PROVE  LET w == close_stream(s, c, y)
               t == Finish(s, c, y)
           IN  /\ t \in Record /\ Keeps(w, t, {"fin_accepted", "capsules"})
               /\ t.fin_accepted = w.fin_accepted \ {c}
<1> DEFINE u == Undefer(s, c)
           w == close_stream(s, c, y)
           t == close_stream(u, c, y)
<1>1. /\ u \in Record /\ Keeps(s, u, {"fin_accepted"})
      /\ u.fin_accepted = s.fin_accepted \ {c}
  BY UndeferShape
<1> HIDE DEF u
<1>2. /\ u.session_ids = s.session_ids /\ u.state = s.state
      /\ u.qpack_blocked_fin = s.qpack_blocked_fin /\ u.guard = s.guard
      /\ u.pending_headers = s.pending_headers /\ u.blocked = s.blocked
      /\ u.kept = s.kept /\ u.ready = s.ready /\ u.over = s.over /\ u.why = s.why
      /\ u.accepted = s.accepted /\ u.stream_info = s.stream_info
      /\ u.buffered = s.buffered /\ u.out_of_place = s.out_of_place
      /\ u.response = s.response
  BY <1>1 DEF Keeps, Names
<1>3. Unguard(u, c) = Unguard(s, c) /\ Dropped(u, c) = Dropped(s, c)
  BY <1>2 DEF Unguard, Dropped
<1>4. Misplaced(u, c) = Misplaced(s, c)
  BY <1>2 DEF Misplaced
<1>5. CASE c \in s.session_ids
  <2>1. s.state[c] = "open"
    BY <1>5 DEF Life
  <2>2. w \in Record /\ EndsSession(s, w, c, y)
    BY <1>5, <2>1, CloseEnds
  <2>3. t \in Record /\ EndsSession(u, t, c, y)
    BY <1>1, <1>2, <1>5, <2>1, CloseEnds
  <2> HIDE DEF t, w
  <2>4. /\ t.qpack_blocked_fin = w.qpack_blocked_fin /\ t.guard = w.guard
        /\ t.pending_headers = w.pending_headers /\ t.state = w.state
        /\ t.blocked = w.blocked /\ t.kept = w.kept
    BY <1>2, <1>3, <2>2, <2>3 DEF EndsSession
  <2>5. /\ t.session_ids = w.session_ids
        /\ t.accepted = w.accepted /\ t.stream_info = w.stream_info
        /\ t.buffered = w.buffered /\ t.over = w.over /\ t.why = w.why
    BY <1>2, <2>2, <2>3 DEF EndsSession
  <2>6. t.out_of_place = w.out_of_place
    BY <1>4, <2>2, <2>3 DEF EndsSession
  <2>7. /\ Keeps(s, w, {"qpack_blocked_fin", "guard", "pending_headers", "state",
                    "blocked", "capsules", "kept", "session_ids", "accepted",
                    "stream_info", "buffered", "out_of_place", "over", "why"})
        /\ Keeps(u, t, {"qpack_blocked_fin", "guard", "pending_headers", "state",
                    "blocked", "capsules", "kept", "session_ids", "accepted",
                    "stream_info", "buffered", "out_of_place", "over", "why"})
    BY <2>2, <2>3 DEF EndsSession
  <2>8. /\ w.fin_accepted = s.fin_accepted
        /\ t.fin_accepted = u.fin_accepted
    BY <2>7 DEF Keeps, Names
  <2>9. Keeps(w, t, {"fin_accepted", "capsules"})
    BY <1>1, <2>4, <2>5, <2>6, <2>7 DEF Keeps
  <2> QED
    BY <1>1, <2>3, <2>8, <2>9 DEF t, w, u, Finish
<1>6. CASE c \notin s.session_ids
  <2>2. w \in Record /\ DropsSession(s, w, c)
    BY <1>6, CloseDrops
  <2>3. t \in Record /\ DropsSession(u, t, c)
    BY <1>1, <1>2, <1>6, CloseDrops
  <2> HIDE DEF t, w
  <2>4. /\ t.qpack_blocked_fin = w.qpack_blocked_fin /\ t.guard = w.guard
        /\ t.pending_headers = w.pending_headers /\ t.state = w.state
        /\ t.blocked = w.blocked /\ t.kept = w.kept
    BY <1>2, <1>3, <2>2, <2>3 DEF DropsSession
  <2>7. /\ Keeps(s, w, {"qpack_blocked_fin", "guard", "pending_headers", "state",
                        "blocked", "capsules", "kept"})
        /\ Keeps(u, t, {"qpack_blocked_fin", "guard", "pending_headers", "state",
                        "blocked", "capsules", "kept"})
    BY <2>2, <2>3 DEF DropsSession
  <2>8. /\ w.fin_accepted = s.fin_accepted
        /\ t.fin_accepted = u.fin_accepted
    BY <2>7 DEF Keeps, Names
  <2>9. Keeps(w, t, {"fin_accepted", "capsules"})
    BY <1>1, <2>4, <2>7 DEF Keeps
  <2> QED
    BY <1>1, <2>3, <2>8, <2>9 DEF t, w, u, Finish
<1> QED
  BY <1>5, <1>6

(* As ClosedAt, with the mark of an earlier FIN removed.                   *)
FinishedAt(s, t, c, y) ==
    /\ c \notin t.session_ids \cup t.accepted \cup t.blocked \cup t.fin_accepted
    /\ c \notin t.pending_headers \cup t.qpack_blocked_fin
    /\ t.state[c] = IF s.state[c] = "none" THEN "none" ELSE "gone"
    /\ t.guard[c] = NoGuard /\ t.read[c] = s.read[c]
    /\ t.response[c] = s.response[c] /\ t.ready[c] = s.ready[c]
    /\ c \in t.pre_accept_fin <=> c \in s.pre_accept_fin
    /\ c \in s.session_ids => t.over[c] = 1 /\ t.why[c] = y
    /\ c \notin s.session_ids => t.over[c] = s.over[c] /\ t.why[c] = s.why[c]

LEMMA FinishOnly ==
    ASSUME NEW n, NEW s, Good(s, n), NEW c \in Sessions, NEW y \in Why
    PROVE  LET t == Finish(s, c, y)
           IN  /\ Good(t, n) /\ Global(s, t)
               /\ OnlySession(s, t, c) /\ FinishedAt(s, t, c, y)
<1> DEFINE w == close_stream(s, c, y)
           t == Finish(s, c, y)
<1>1. s \in Record /\ Life(s, c)
  BY DEF Good
<1>2. /\ t \in Record /\ Keeps(w, t, {"fin_accepted", "capsules"})
      /\ t.fin_accepted = w.fin_accepted \ {c}
  BY <1>1, FinishAsClose
<1>3. Good(w, n) /\ Global(s, w) /\ OnlySession(s, w, c) /\ ClosedAt(s, w, c, y)
  BY CloseOnly
<1> HIDE DEF w, t
<1>4. /\ t.response = w.response /\ t.ready = w.ready /\ t.read = w.read
      /\ t.confirmed = w.confirmed /\ t.ended = w.ended /\ t.written = w.written
      /\ t.pre_accept_fin = w.pre_accept_fin
      /\ t.stale_2xx = w.stale_2xx /\ t.pending_fin = w.pending_fin
      /\ t.over = w.over /\ t.why = w.why
      /\ t.closed = w.closed /\ t.error = w.error
      /\ t.session_ids = w.session_ids /\ t.accepted = w.accepted
      /\ t.state = w.state /\ t.pending_headers = w.pending_headers
      /\ t.qpack_blocked_fin = w.qpack_blocked_fin /\ t.blocked = w.blocked
      /\ t.guard = w.guard
  BY <1>2 DEF Keeps, Names
<1>5. /\ t.out_of_place = w.out_of_place /\ t.mixed = w.mixed
      /\ t.rejected = w.rejected /\ t.named = w.named /\ t.got = w.got
      /\ t.kept = w.kept /\ t.buffered = w.buffered /\ t.deleted = w.deleted
      /\ t.stream_info = w.stream_info
  BY <1>2 DEF Keeps, Names
<1>6. FinishedAt(s, t, c, y)
  BY <1>2, <1>3, <1>4 DEF FinishedAt, ClosedAt
<1>7. OnlySession(w, t, c)
  BY <1>2, <1>4, <1>5 DEF OnlySession, Same, SameStream
<1>8. \A z \in Sessions : Life(w, z)
  BY <1>3 DEF Good
<1>9. \A z \in Sessions : Life(t, z)
  BY <1>2, <1>4, <1>8 DEF Life
<1>10. ASSUME NEW d \in Remote PROVE Around(w, t, d)
  <2> DEFINE z == SessionOf[d]
  <2>1. Could(t, z) => Could(w, z)
    <3>1. CASE z # c \/ c \notin w.fin_accepted
      BY <1>2, <1>4, <3>1 DEF Could
    <3>2. CASE z = c /\ c \in w.fin_accepted
      <4>1. w.ready[c] = 1
        BY <1>8, <3>2 DEF Life
      <4>2. w.state[c] # "none"
        BY <1>8, <4>1 DEF Life, HeadersLen
      <4>3. w.state[c] = "gone"
        BY <1>3, <4>2 DEF ClosedAt
      <4> QED
        BY <1>4, <3>2, <4>3 DEF Could
    <3> QED
      BY <3>1, <3>2
  <2> QED
    BY <1>4, <1>5, <2>1 DEF Around, Settled
<1>11. \A d \in Remote : OneStream(t, d, n[d])
  BY <1>2, <1>3, <1>10, AroundGood DEF Good
<1>12. Good(t, n)
  BY <1>2, <1>3, <1>5, <1>9, <1>11 DEF Good
<1>13. OnlySession(s, t, c)
  BY <1>3, <1>7, OnlyAfter
<1> QED
  BY <1>3, <1>4, <1>6, <1>12, <1>13 DEF t, Global

-----------------------------------------------------------------------------
(* The folds of the community modules take Pick(z) of the set z first.     *)

Pick(z) == CHOOSE x \in z : TRUE

Picking(S) == [z \in SUBSET S |-> Pick(z)]

LEMMA PickingPicks == ASSUME NEW S PROVE Picks(Picking(S), S)
BY DEF Picks, Picking, Pick

LEMMA PickingIs ==
    ASSUME NEW S, NEW z \in SUBSET S, z # {}
    PROVE  /\ Picking(S)[z] = Pick(z) /\ Pick(z) \in z /\ Pick(z) \in S
           /\ z \ {Pick(z)} \in SUBSET S
BY DEF Picking, Pick

Picked(F, b, S, R, I) ==
    /\ I[{}] = b
    /\ \A z \in SUBSET S : z # {} => /\ Pick(z) \in S /\ I[z \ {Pick(z)}] \in R
                                    /\ I[z] = F[Pick(z)][I[z \ {Pick(z)}]]

LEMMA PickTyped ==
    ASSUME NEW F, NEW b, NEW S, IsFiniteSet(S), NEW R, b \in R,
           \A x \in S, r \in R : F[x][r] \in R
    PROVE  \E I \in [SUBSET S -> R] : Picked(F, b, S, R, I)
<1>1. PICK I \in [SUBSET S -> R] : Steps(F, b, Picking(S), S, I)
  BY PickingPicks, IterTyped
<1>2. ASSUME NEW z \in SUBSET S, z # {}
      PROVE  /\ Pick(z) \in S /\ I[z \ {Pick(z)}] \in R
             /\ I[z] = F[Pick(z)][I[z \ {Pick(z)}]]
  <2>1. /\ Picking(S)[z] = Pick(z) /\ Pick(z) \in S
        /\ z \ {Pick(z)} \in SUBSET S
    BY <1>2, PickingIs
  <2> QED
    BY <1>1, <1>2, <2>1 DEF Steps
<1> QED
  BY <1>1, <1>2 DEF Steps, Picked

(* Induction over the subsets of S.                                        *)
LEMMA SubsetInduction ==
    ASSUME NEW S, IsFiniteSet(S), NEW G, {} \in G,
           \A z \in SUBSET S : z # {} /\ z \ {Pick(z)} \in G => z \in G
    PROVE  \A z \in SUBSET S : z \in G
<1> DEFINE T == (SUBSET S) \ G
<1> SUFFICES ASSUME T # {} PROVE FALSE
  OBVIOUS
<1>1. PICK z \in T : z = {} \/ z \ {Picking(S)[z]} \notin T
  BY SmallestSubset, PickingPicks
<1>2. z \in SUBSET S /\ z \notin G
  BY <1>1
<1>3. z # {}
  BY <1>2
<1>4. z \ {Pick(z)} \in SUBSET S /\ Picking(S)[z] = Pick(z)
  BY <1>2, <1>3, PickingIs
<1>5. z \ {Pick(z)} \in G
  BY <1>1, <1>3, <1>4
<1> QED
  BY <1>2, <1>3, <1>5

LEMMA PickStays ==
    ASSUME NEW S, IsFiniteSet(S), NEW R, NEW J, J[{}] \in R,
           \A z \in SUBSET S : z # {} /\ J[z \ {Pick(z)}] \in R => J[z] \in R
    PROVE  \A z \in SUBSET S : J[z] \in R
<1> DEFINE G == {z \in SUBSET S : J[z] \in R}
<1>1. {} \in G
  OBVIOUS
<1>2. \A z \in SUBSET S : z # {} /\ z \ {Pick(z)} \in G => z \in G
  OBVIOUS
<1> HIDE DEF G
<1>3. \A z \in SUBSET S : z \in G
  BY <1>1, <1>2, SubsetInduction
<1> QED
  BY <1>3 DEF G

(* The folds of close_finished, discard_stale_2xx and close_deferred.      *)
TheClosing(b, S) ==
    CHOOSE I : I = [z \in SUBSET S |->
        IF z = {} THEN b ELSE close_stream(I[z \ {Pick(z)}], Pick(z), "fin")]

LEMMA ClosingIs ==
    ASSUME NEW b, NEW S
    PROVE  FoldSet(LAMBDA c, t : close_stream(t, c, "fin"), b, S)
             = TheClosing(b, S)[S]
BY Zenon DEF FoldSet, MapThenFoldSet, TheClosing, Pick

LEMMA ClosingSteps ==
    ASSUME NEW b, NEW S, IsFiniteSet(S), NEW R, b \in R,
           \A x \in S, r \in R : close_stream(r, x, "fin") \in R
    PROVE  LET J == TheClosing(b, S)
           IN  /\ \A z \in SUBSET S : J[z] \in R
               /\ J[{}] = b
               /\ \A z \in SUBSET S : z # {} =>
                     J[z] = close_stream(J[z \ {Pick(z)}], Pick(z), "fin")
<1> DEFINE F == [x \in S |-> [r \in R |-> close_stream(r, x, "fin")]]
           J == TheClosing(b, S)
<1>1. \A x \in S, r \in R : F[x][r] \in R /\ F[x][r] = close_stream(r, x, "fin")
  OBVIOUS
<1> HIDE DEF F, J
<1>2. PICK I \in [SUBSET S -> R] : Picked(F, b, S, R, I)
  BY <1>1, PickTyped
<1>3. I = [z \in SUBSET S |->
            IF z = {} THEN b ELSE close_stream(I[z \ {Pick(z)}], Pick(z), "fin")]
  <2>1. ASSUME NEW z \in SUBSET S, z # {}
        PROVE  I[z] = close_stream(I[z \ {Pick(z)}], Pick(z), "fin")
    BY <1>1, <1>2, <2>1 DEF Picked
  <2> QED
    BY <1>2, <2>1 DEF Picked
<1>4. J = [z \in SUBSET S |->
            IF z = {} THEN b ELSE close_stream(J[z \ {Pick(z)}], Pick(z), "fin")]
  BY <1>3, Zenon DEF J, TheClosing
<1>5. /\ J[{}] = b
      /\ \A z \in SUBSET S : z # {} =>
            J[z] = close_stream(J[z \ {Pick(z)}], Pick(z), "fin")
  <2>1. {} \in SUBSET S
    OBVIOUS
  <2>2. \A z \in SUBSET S : J[z] =
          IF z = {} THEN b ELSE close_stream(J[z \ {Pick(z)}], Pick(z), "fin")
    BY <1>4
  <2> QED
    BY <2>1, <2>2
<1>6. ASSUME NEW z \in SUBSET S, z # {}, J[z \ {Pick(z)}] \in R PROVE J[z] \in R
  <2>1. Pick(z) \in S
    BY <1>6, PickingIs
  <2> QED
    BY <1>5, <1>6, <2>1, ZenonT(60)
<1>7. \A z \in SUBSET S : J[z] \in R
  BY <1>5, <1>6, PickStays
<1> QED
  BY <1>5, <1>7 DEF J

TheFinishing(y, b, S) ==
    CHOOSE I : I = [z \in SUBSET S |->
        IF z = {} THEN b ELSE Finish(I[z \ {Pick(z)}], Pick(z), y)]

LEMMA FinishingIs ==
    ASSUME NEW y, NEW b, NEW S
    PROVE  FoldSet(LAMBDA c, t : close_stream([t EXCEPT !.fin_accepted = @ \ {c}], c, y), b, S)
             = TheFinishing(y, b, S)[S]
BY Zenon DEF FoldSet, MapThenFoldSet, TheFinishing, Pick, Finish, Undefer

LEMMA FinishingSteps ==
    ASSUME NEW y, NEW b, NEW S, IsFiniteSet(S), NEW R, b \in R,
           \A x \in S, r \in R : Finish(r, x, y) \in R
    PROVE  LET J == TheFinishing(y, b, S)
           IN  /\ \A z \in SUBSET S : J[z] \in R
               /\ J[{}] = b
               /\ \A z \in SUBSET S : z # {} =>
                     J[z] = Finish(J[z \ {Pick(z)}], Pick(z), y)
<1> DEFINE F == [x \in S |-> [r \in R |-> Finish(r, x, y)]]
           J == TheFinishing(y, b, S)
<1>1. \A x \in S, r \in R : F[x][r] \in R /\ F[x][r] = Finish(r, x, y)
  OBVIOUS
<1> HIDE DEF F, J
<1>2. PICK I \in [SUBSET S -> R] : Picked(F, b, S, R, I)
  BY <1>1, PickTyped
<1>3. I = [z \in SUBSET S |->
            IF z = {} THEN b ELSE Finish(I[z \ {Pick(z)}], Pick(z), y)]
  <2>1. ASSUME NEW z \in SUBSET S, z # {}
        PROVE  I[z] = Finish(I[z \ {Pick(z)}], Pick(z), y)
    BY <1>1, <1>2, <2>1 DEF Picked
  <2> QED
    BY <1>2, <2>1 DEF Picked
<1>4. J = [z \in SUBSET S |->
            IF z = {} THEN b ELSE Finish(J[z \ {Pick(z)}], Pick(z), y)]
  BY <1>3, Zenon DEF J, TheFinishing
<1>5. /\ J[{}] = b
      /\ \A z \in SUBSET S : z # {} =>
            J[z] = Finish(J[z \ {Pick(z)}], Pick(z), y)
  <2>1. {} \in SUBSET S
    OBVIOUS
  <2>2. \A z \in SUBSET S : J[z] =
          IF z = {} THEN b ELSE Finish(J[z \ {Pick(z)}], Pick(z), y)
    BY <1>4
  <2> QED
    BY <2>1, <2>2
<1>6. ASSUME NEW z \in SUBSET S, z # {}, J[z \ {Pick(z)}] \in R PROVE J[z] \in R
  <2>1. Pick(z) \in S
    BY <1>6, PickingIs
  <2> QED
    BY <1>5, <1>6, <2>1, ZenonT(60)
<1>7. \A z \in SUBSET S : J[z] \in R
  BY <1>5, <1>6, PickStays
<1> QED
  BY <1>5, <1>7 DEF J

-----------------------------------------------------------------------------
(* The sessions of Z are closed one by one.                                *)

Streamwise(s, t) == \A d \in Remote : SameStream(s, t, d)

AllClosed(s, t, Z, y) ==
    /\ \A c \in Z : ClosedAt(s, t, c, y)
    /\ \A c \in Sessions \ Z : Same(s, t, c)

AllFinished(s, t, Z, y) ==
    /\ \A c \in Z : FinishedAt(s, t, c, y)
    /\ \A c \in Sessions \ Z : Same(s, t, c)

LEMMA ClosedFrom ==
    ASSUME NEW s, NEW r, NEW t, NEW c, NEW y, Same(s, r, c), ClosedAt(r, t, c, y)
    PROVE  ClosedAt(s, t, c, y)
BY DEF Same, ClosedAt

LEMMA ClosedThen ==
    ASSUME NEW s, NEW r, NEW t, NEW c, NEW y, ClosedAt(s, r, c, y), Same(r, t, c)
    PROVE  ClosedAt(s, t, c, y)
BY DEF Same, ClosedAt

LEMMA FinishedFrom ==
    ASSUME NEW s, NEW r, NEW t, NEW c, NEW y, Same(s, r, c), FinishedAt(r, t, c, y)
    PROVE  FinishedAt(s, t, c, y)
BY DEF Same, FinishedAt

LEMMA FinishedThen ==
    ASSUME NEW s, NEW r, NEW t, NEW c, NEW y, FinishedAt(s, r, c, y), Same(r, t, c)
    PROVE  FinishedAt(s, t, c, y)
BY DEF Same, FinishedAt

LEMMA AllClosedNext ==
    ASSUME NEW s, NEW r, NEW t, NEW Z \in SUBSET Sessions, NEW c \in Sessions, c \notin Z,
           NEW y, AllClosed(s, r, Z, y), OnlySession(r, t, c), ClosedAt(r, t, c, y)
    PROVE  AllClosed(s, t, Z \cup {c}, y)
<1>1. ClosedAt(s, t, c, y)
  BY ClosedFrom DEF AllClosed
<1>2. \A z \in Z : ClosedAt(s, t, z, y)
  BY ClosedThen DEF AllClosed, OnlySession
<1>3. \A z \in Sessions \ (Z \cup {c}) : Same(s, t, z)
  BY SameAfter DEF AllClosed, OnlySession
<1> QED
  BY <1>1, <1>2, <1>3 DEF AllClosed

LEMMA AllFinishedNext ==
    ASSUME NEW s, NEW r, NEW t, NEW Z \in SUBSET Sessions, NEW c \in Sessions, c \notin Z,
           NEW y, AllFinished(s, r, Z, y), OnlySession(r, t, c), FinishedAt(r, t, c, y)
    PROVE  AllFinished(s, t, Z \cup {c}, y)
<1>1. FinishedAt(s, t, c, y)
  BY FinishedFrom DEF AllFinished
<1>2. \A z \in Z : FinishedAt(s, t, z, y)
  BY FinishedThen DEF AllFinished, OnlySession
<1>3. \A z \in Sessions \ (Z \cup {c}) : Same(s, t, z)
  BY SameAfter DEF AllFinished, OnlySession
<1> QED
  BY <1>1, <1>2, <1>3 DEF AllFinished

LEMMA GlobalAfter ==
    ASSUME NEW s, NEW t, NEW u, Global(s, t), Global(t, u) PROVE Global(s, u)
BY DEF Global

LEMMA StreamwiseAfter ==
    ASSUME NEW s, NEW t, NEW u, Streamwise(s, t), Streamwise(t, u) PROVE Streamwise(s, u)
BY DEF Streamwise, SameStream

LEMMA ClosingAll ==
    ASSUME NEW n, NEW s, Good(s, n), NEW Z \in SUBSET Sessions
    PROVE  LET t == FoldSet(LAMBDA c, r : close_stream(r, c, "fin"), s, Z)
           IN  /\ Good(t, n) /\ Global(s, t) /\ Streamwise(s, t)
               /\ AllClosed(s, t, Z, "fin")
<1> DEFINE R == {r \in Record : Good(r, n) /\ Global(s, r) /\ Streamwise(s, r)}
           J == TheClosing(s, Z)
<1>0. IsFiniteSet(Z) /\ "fin" \in Why
  BY SessionAssumption, FS_Subset DEF Why
<1>1. s \in R
  BY DEF Good, Global, Streamwise, SameStream
<1>2. ASSUME NEW c \in Z, NEW r \in R
      PROVE  LET t == close_stream(r, c, "fin")
             IN  t \in R /\ OnlySession(r, t, c) /\ ClosedAt(r, t, c, "fin")
  <2> DEFINE t == close_stream(r, c, "fin")
  <2>1. Good(t, n) /\ Global(r, t) /\ OnlySession(r, t, c) /\ ClosedAt(r, t, c, "fin")
    BY <1>0, CloseOnly
  <2> HIDE DEF t
  <2>2. Global(s, t)
    BY <2>1, GlobalAfter
  <2>3. Streamwise(s, t)
    BY <2>1, StreamwiseAfter DEF Streamwise, OnlySession
  <2>4. t \in R
    BY <2>1, <2>2, <2>3 DEF Good
  <2> QED
    BY <2>1, <2>4 DEF t
<1> HIDE DEF R
<1>3. /\ \A z \in SUBSET Z : J[z] \in R
      /\ J[{}] = s
      /\ \A z \in SUBSET Z : z # {} => J[z] = close_stream(J[z \ {Pick(z)}], Pick(z), "fin")
  BY <1>0, <1>1, <1>2, ClosingSteps
<1> HIDE DEF J
<1> DEFINE G == {z \in SUBSET Z : AllClosed(s, J[z], z, "fin")}
<1>4. {} \in G
  BY <1>3 DEF AllClosed, Same
<1>5. ASSUME NEW z \in SUBSET Z, z # {}, z \ {Pick(z)} \in G PROVE z \in G
  <2> DEFINE p == Pick(z)
             r == J[z \ {p}]
             t == close_stream(r, p, "fin")
  <2>1. p \in z /\ p \in Z /\ z \ {p} \in SUBSET Z
    BY <1>5, PickingIs
  <2>2. J[z] = t /\ r \in R
    BY <1>3, <1>5, <2>1
  <2>3. OnlySession(r, t, p) /\ ClosedAt(r, t, p, "fin")
    BY <1>2, <2>1, <2>2
  <2>4. AllClosed(s, r, z \ {p}, "fin")
    BY <1>5
  <2> HIDE DEF p, r, t
  <2>5. AllClosed(s, t, (z \ {p}) \cup {p}, "fin")
    BY <2>1, <2>3, <2>4, AllClosedNext
  <2>6. (z \ {p}) \cup {p} = z
    BY <2>1
  <2> QED
    BY <2>2, <2>5, <2>6
<1> HIDE DEF G
<1>6. Z \in G
  BY <1>0, <1>4, <1>5, SubsetInduction
<1>7. J[Z] \in R /\ AllClosed(s, J[Z], Z, "fin")
  BY <1>3, <1>6 DEF G
<1>8. FoldSet(LAMBDA c, r : close_stream(r, c, "fin"), s, Z) = J[Z]
  BY ClosingIs DEF J
<1> QED
  BY <1>7, <1>8 DEF R

LEMMA FinishingAll ==
    ASSUME NEW n, NEW s, Good(s, n), NEW Z \in SUBSET Sessions, NEW y \in Why
    PROVE  LET t == FoldSet(LAMBDA c, r : close_stream(
                                [r EXCEPT !.fin_accepted = @ \ {c}], c, y), s, Z)
           IN  /\ Good(t, n) /\ Global(s, t) /\ Streamwise(s, t)
               /\ AllFinished(s, t, Z, y)
<1> DEFINE R == {r \in Record : Good(r, n) /\ Global(s, r) /\ Streamwise(s, r)}
           J == TheFinishing(y, s, Z)
<1>0. IsFiniteSet(Z)
  BY SessionAssumption, FS_Subset
<1>1. s \in R
  BY DEF Good, Global, Streamwise, SameStream
<1>2. ASSUME NEW c \in Z, NEW r \in R
      PROVE  LET t == Finish(r, c, y)
             IN  t \in R /\ OnlySession(r, t, c) /\ FinishedAt(r, t, c, y)
  <2> DEFINE t == Finish(r, c, y)
  <2>1. Good(t, n) /\ Global(r, t) /\ OnlySession(r, t, c) /\ FinishedAt(r, t, c, y)
    BY FinishOnly
  <2> HIDE DEF t
  <2>2. Global(s, t)
    BY <2>1, GlobalAfter
  <2>3. Streamwise(s, t)
    BY <2>1, StreamwiseAfter DEF Streamwise, OnlySession
  <2>4. t \in R
    BY <2>1, <2>2, <2>3 DEF Good
  <2> QED
    BY <2>1, <2>4 DEF t
<1> HIDE DEF R
<1>3. /\ \A z \in SUBSET Z : J[z] \in R
      /\ J[{}] = s
      /\ \A z \in SUBSET Z : z # {} => J[z] = Finish(J[z \ {Pick(z)}], Pick(z), y)
  BY <1>0, <1>1, <1>2, FinishingSteps
<1> HIDE DEF J
<1> DEFINE G == {z \in SUBSET Z : AllFinished(s, J[z], z, y)}
<1>4. {} \in G
  BY <1>3 DEF AllFinished, Same
<1>5. ASSUME NEW z \in SUBSET Z, z # {}, z \ {Pick(z)} \in G PROVE z \in G
  <2> DEFINE p == Pick(z)
             r == J[z \ {p}]
             t == Finish(r, p, y)
  <2>1. p \in z /\ p \in Z /\ z \ {p} \in SUBSET Z
    BY <1>5, PickingIs
  <2>2. J[z] = t /\ r \in R
    BY <1>3, <1>5, <2>1
  <2>3. OnlySession(r, t, p) /\ FinishedAt(r, t, p, y)
    BY <1>2, <2>1, <2>2
  <2>4. AllFinished(s, r, z \ {p}, y)
    BY <1>5
  <2> HIDE DEF p, r, t
  <2>5. AllFinished(s, t, (z \ {p}) \cup {p}, y)
    BY <2>1, <2>3, <2>4, AllFinishedNext
  <2>6. (z \ {p}) \cup {p} = z
    BY <2>1
  <2> QED
    BY <2>2, <2>5, <2>6
<1> HIDE DEF G
<1>6. Z \in G
  BY <1>0, <1>4, <1>5, SubsetInduction
<1>7. J[Z] \in R /\ AllFinished(s, J[Z], Z, y)
  BY <1>3, <1>6 DEF G
<1>8. FoldSet(LAMBDA c, r : close_stream([r EXCEPT !.fin_accepted = @ \ {c}], c, y), s, Z)
        = J[Z]
  BY FinishingIs DEF J
<1> QED
  BY <1>7, <1>8 DEF R

-----------------------------------------------------------------------------
(* What process_after_read does.                                           *)

NoPending(s) == [s EXCEPT !.pending_fin = {}]
NoStale(s) == [s EXCEPT !.stale_2xx = {}]

LEMMA NoPendingShape ==
    ASSUME NEW s \in Record
    PROVE  /\ NoPending(s) \in Record /\ Keeps(s, NoPending(s), {"pending_fin"})
           /\ NoPending(s).pending_fin = {}
<1>1. NoPending(s) \in Record
  BY DEF NoPending, Record
<1>2. Keeps(s, NoPending(s), {"pending_fin"})
  BY Fields DEF NoPending, Keeps
<1>3. NoPending(s).pending_fin = {}
  BY Fields DEF NoPending, Names
<1> QED
  BY <1>1, <1>2, <1>3

LEMMA NoStaleShape ==
    ASSUME NEW s \in Record
    PROVE  /\ NoStale(s) \in Record /\ Keeps(s, NoStale(s), {"stale_2xx"})
           /\ NoStale(s).stale_2xx = {}
<1>1. NoStale(s) \in Record
  BY DEF NoStale, Record
<1>2. Keeps(s, NoStale(s), {"stale_2xx"})
  BY Fields DEF NoStale, Keeps
<1>3. NoStale(s).stale_2xx = {}
  BY Fields DEF NoStale, Names
<1> QED
  BY <1>1, <1>2, <1>3

(* Editing the two sets.                                                   *)
LEMMA MarksGood ==
    ASSUME NEW n, NEW s, Good(s, n), NEW t \in Record,
           Keeps(s, t, {"pending_fin", "stale_2xx"}),
           t.pending_fin \subseteq s.pending_fin, t.stale_2xx \subseteq s.stale_2xx
    PROVE  Good(t, n)
<1>1. /\ t.ready = s.ready /\ t.response = s.response /\ t.ended = s.ended
      /\ t.read = s.read /\ t.confirmed = s.confirmed /\ t.written = s.written
      /\ t.fin_accepted = s.fin_accepted /\ t.pre_accept_fin = s.pre_accept_fin
      /\ t.over = s.over /\ t.session_ids = s.session_ids /\ t.accepted = s.accepted
      /\ t.state = s.state /\ t.blocked = s.blocked
      /\ t.pending_headers = s.pending_headers
  BY DEF Keeps, Names
<1>2. /\ t.out_of_place = s.out_of_place /\ t.mixed = s.mixed
      /\ t.rejected = s.rejected /\ t.named = s.named /\ t.got = s.got
      /\ t.kept = s.kept /\ t.buffered = s.buffered /\ t.deleted = s.deleted
      /\ t.stream_info = s.stream_info
  BY DEF Keeps, Names
<1>3. \A z \in Sessions : Life(s, z)
  BY DEF Good
<1>4. \A z \in Sessions : Life(t, z)
  BY <1>1, <1>3 DEF Life
<1>5. \A d \in Remote : Around(s, t, d)
  BY <1>1, <1>2 DEF Around, Could, Settled
<1>6. \A d \in Remote : OneStream(t, d, n[d])
  BY <1>5, AroundGood DEF Good
<1> QED
  BY <1>2, <1>4, <1>6 DEF Good

(* close_finished.                                                         *)
LEMMA CloseFinished ==
    ASSUME NEW n, NEW s, Good(s, n)
    PROVE  LET t == close_finished(s)
           IN  /\ Good(t, n) /\ Streamwise(s, t)
               /\ t.closed = s.closed /\ t.error = s.error
               /\ t.confirmed = s.confirmed /\ t.written = s.written
               /\ t.pending_fin = {} /\ t.stale_2xx = s.stale_2xx
               /\ AllClosed(s, t, s.pending_fin, "fin")
<1> DEFINE r == FoldSet(LAMBDA c, t : close_stream(t, c, "fin"), s, s.pending_fin)
           t == NoPending(r)
<1>0. s.pending_fin \in SUBSET Sessions
  BY DEF Good, Record
<1>1. /\ Good(r, n) /\ Global(s, r) /\ Streamwise(s, r)
      /\ AllClosed(s, r, s.pending_fin, "fin")
  BY <1>0, ClosingAll
<1>2. close_finished(s) = t
  BY Zenon DEF close_finished, NoPending
<1> HIDE DEF r
<1>3. t \in Record /\ Keeps(r, t, {"pending_fin"}) /\ t.pending_fin = {}
  BY <1>1, NoPendingShape DEF Good
<1> HIDE DEF t
<1>4. Keeps(r, t, {"pending_fin", "stale_2xx"})
  BY <1>3 DEF Keeps
<1>5. /\ t.closed = r.closed /\ t.error = r.error
      /\ t.confirmed = r.confirmed /\ t.written = r.written
      /\ t.stale_2xx = r.stale_2xx
  BY <1>3 DEF Keeps, Names
<1>6. Good(t, n)
  <2>1. t.pending_fin \subseteq r.pending_fin /\ t.stale_2xx \subseteq r.stale_2xx
    BY <1>3, <1>5
  <2> QED
    BY <1>1, <1>3, <1>4, <2>1, MarksGood
<1>7. /\ t.session_ids = r.session_ids /\ t.accepted = r.accepted
      /\ t.pending_headers = r.pending_headers /\ t.pre_accept_fin = r.pre_accept_fin
      /\ t.fin_accepted = r.fin_accepted /\ t.qpack_blocked_fin = r.qpack_blocked_fin
      /\ t.blocked = r.blocked /\ t.ended = r.ended /\ t.guard = r.guard
      /\ t.state = r.state /\ t.read = r.read /\ t.response = r.response
      /\ t.ready = r.ready /\ t.over = r.over /\ t.why = r.why
      /\ t.named = r.named /\ t.deleted = r.deleted
  BY <1>3 DEF Keeps, Names
<1>8. Streamwise(s, t)
  BY <1>1, <1>7 DEF Streamwise, SameStream
<1>9. \A c \in s.pending_fin : ClosedAt(s, t, c, "fin")
  BY <1>1, <1>7 DEF AllClosed, ClosedAt
<1>10. \A c \in Sessions \ s.pending_fin : Same(s, t, c)
  <2>1. \A c \in Sessions \ s.pending_fin : Same(s, r, c)
    BY <1>1 DEF AllClosed
  <2> QED
    BY <1>3, <1>5, <1>7, <2>1 DEF Same
<1> QED
  BY <1>1, <1>2, <1>3, <1>5, <1>6, <1>8, <1>9, <1>10 DEF AllClosed, Global

(* discard_stale_2xx.                                                      *)
LEMMA DiscardStale ==
    ASSUME NEW n, NEW s, Good(s, n)
    PROVE  LET t == discard_stale_2xx(s)
           IN  /\ Good(t, n) /\ Streamwise(s, t)
               /\ t.closed = s.closed /\ t.error = s.error
               /\ t.confirmed = s.confirmed /\ t.written = s.written
               /\ t.pending_fin = s.pending_fin /\ t.stale_2xx = {}
               /\ AllFinished(s, t, s.stale_2xx, "capsule")
<1> DEFINE r == FoldSet(LAMBDA c, t : close_stream(
                            [t EXCEPT !.fin_accepted = @ \ {c}], c, "capsule"),
                        s, s.stale_2xx)
           t == NoStale(r)
<1>0. s.stale_2xx \in SUBSET Sessions /\ "capsule" \in Why
  BY DEF Good, Record, Why
<1>1. /\ Good(r, n) /\ Global(s, r) /\ Streamwise(s, r)
      /\ AllFinished(s, r, s.stale_2xx, "capsule")
  BY <1>0, FinishingAll
<1>2. discard_stale_2xx(s) = t
  BY Zenon DEF discard_stale_2xx, NoStale
<1> HIDE DEF r
<1>3. t \in Record /\ Keeps(r, t, {"stale_2xx"}) /\ t.stale_2xx = {}
  BY <1>1, NoStaleShape DEF Good
<1> HIDE DEF t
<1>4. Keeps(r, t, {"pending_fin", "stale_2xx"})
  BY <1>3 DEF Keeps
<1>5. /\ t.closed = r.closed /\ t.error = r.error
      /\ t.confirmed = r.confirmed /\ t.written = r.written
      /\ t.pending_fin = r.pending_fin
  BY <1>3 DEF Keeps, Names
<1>6. Good(t, n)
  <2>1. t.pending_fin \subseteq r.pending_fin /\ t.stale_2xx \subseteq r.stale_2xx
    BY <1>3, <1>5
  <2> QED
    BY <1>1, <1>3, <1>4, <2>1, MarksGood
<1>7. /\ t.session_ids = r.session_ids /\ t.accepted = r.accepted
      /\ t.pending_headers = r.pending_headers /\ t.pre_accept_fin = r.pre_accept_fin
      /\ t.fin_accepted = r.fin_accepted /\ t.qpack_blocked_fin = r.qpack_blocked_fin
      /\ t.blocked = r.blocked /\ t.ended = r.ended /\ t.guard = r.guard
      /\ t.state = r.state /\ t.read = r.read /\ t.response = r.response
      /\ t.ready = r.ready /\ t.over = r.over /\ t.why = r.why
      /\ t.named = r.named /\ t.deleted = r.deleted
  BY <1>3 DEF Keeps, Names
<1>8. Streamwise(s, t)
  BY <1>1, <1>7 DEF Streamwise, SameStream
<1>9. \A c \in s.stale_2xx : FinishedAt(s, t, c, "capsule")
  BY <1>1, <1>7 DEF AllFinished, FinishedAt
<1>10. \A c \in Sessions \ s.stale_2xx : Same(s, t, c)
  <2>1. \A c \in Sessions \ s.stale_2xx : Same(s, r, c)
    BY <1>1 DEF AllFinished
  <2> QED
    BY <1>3, <1>5, <1>7, <2>1 DEF Same
<1> QED
  BY <1>1, <1>2, <1>3, <1>5, <1>6, <1>8, <1>9, <1>10 DEF AllFinished, Global

(* note_unreported_fin, for fin, and migrate_blocked_fin.                  *)
Noted(s, t, x, fin) ==
    /\ Keeps(s, t, {"pre_accept_fin", "qpack_blocked_fin"})
    /\ \A z \in Sessions :
          /\ z \in t.pre_accept_fin <=>
                \/ z \in s.pre_accept_fin \/ z \in s.session_ids \cap s.qpack_blocked_fin
                \/ fin /\ z = x /\ z \in s.session_ids \ s.pending_fin
          /\ z \in t.qpack_blocked_fin <=>
                /\ z \notin s.session_ids
                /\ z \in s.qpack_blocked_fin \/ (fin /\ z = x /\ z \in s.pending_headers)

Mark(s, p, q) == [s EXCEPT !.pre_accept_fin = p, !.qpack_blocked_fin = q]

LEMMA MarkShape ==
    ASSUME NEW s \in Record, NEW p \in SUBSET Sessions, NEW q \in SUBSET Sessions
    PROVE  /\ Mark(s, p, q) \in Record
           /\ Keeps(s, Mark(s, p, q), {"pre_accept_fin", "qpack_blocked_fin"})
           /\ Mark(s, p, q).pre_accept_fin = p
           /\ Mark(s, p, q).qpack_blocked_fin = q
<1>1. Mark(s, p, q) \in Record
  BY DEF Mark, Record
<1>2. Keeps(s, Mark(s, p, q), {"pre_accept_fin", "qpack_blocked_fin"})
  BY Fields DEF Mark, Keeps
<1>3. Mark(s, p, q).pre_accept_fin = p /\ Mark(s, p, q).qpack_blocked_fin = q
  BY Fields DEF Mark, Names
<1> QED
  BY <1>1, <1>2, <1>3

LEMMA NotedShape ==
    ASSUME NEW s \in Record, NEW x, NEW fin
    PROVE  LET t == migrate_blocked_fin(IF fin THEN note_unreported_fin(s, x) ELSE s)
           IN  t \in Record /\ Noted(s, t, x, fin)
<1> DEFINE p == IF x \in s.session_ids \ s.pending_fin
                THEN s.pre_accept_fin \cup {x} ELSE s.pre_accept_fin
           q == IF x \in s.pending_headers \ s.session_ids
                THEN s.qpack_blocked_fin \cup {x} ELSE s.qpack_blocked_fin
           u == IF fin THEN note_unreported_fin(s, x) ELSE s
           t == migrate_blocked_fin(u)
<1>0. /\ s.pre_accept_fin \subseteq Sessions /\ s.qpack_blocked_fin \subseteq Sessions
      /\ s.session_ids \subseteq Sessions /\ s.pending_headers \subseteq Sessions
  BY DEF Record
<1>1. note_unreported_fin(s, x) = Mark(s, p, q)
  BY Zenon DEF note_unreported_fin, Mark
<1>2. p \in SUBSET Sessions /\ q \in SUBSET Sessions
  BY <1>0
<1>3. /\ u \in Record /\ Keeps(s, u, {"pre_accept_fin", "qpack_blocked_fin"})
      /\ u.pre_accept_fin = IF fin THEN p ELSE s.pre_accept_fin
      /\ u.qpack_blocked_fin = IF fin THEN q ELSE s.qpack_blocked_fin
  <2> HIDE DEF p, q
  <2>1. CASE fin
    <3>1. u = Mark(s, p, q)
      BY <1>1, <2>1
    <3> HIDE DEF u
    <3> QED
      BY <1>2, <2>1, <3>1, MarkShape
  <2>2. CASE ~fin
    BY <2>2 DEF Keeps
  <2> QED
    BY <2>1, <2>2
<1>4. u.session_ids = s.session_ids
  BY <1>3 DEF Keeps, Names
<1> HIDE DEF u
<1> DEFINE p2 == u.pre_accept_fin \cup (u.qpack_blocked_fin \cap u.session_ids)
           q2 == u.qpack_blocked_fin \ u.session_ids
<1>5. t = Mark(u, p2, q2)
  BY Zenon DEF migrate_blocked_fin, Mark
<1>6. p2 \in SUBSET Sessions /\ q2 \in SUBSET Sessions
  BY <1>3 DEF Record
<1>7. \A z \in Sessions :
        /\ z \in p2 <=>
              \/ z \in s.pre_accept_fin \/ z \in s.session_ids \cap s.qpack_blocked_fin
              \/ fin /\ z = x /\ z \in s.session_ids \ s.pending_fin
        /\ z \in q2 <=>
              /\ z \notin s.session_ids
              /\ z \in s.qpack_blocked_fin \/ (fin /\ z = x /\ z \in s.pending_headers)
  BY <1>3, <1>4
<1> HIDE DEF p2, q2, t
<1>8. /\ t \in Record /\ Keeps(u, t, {"pre_accept_fin", "qpack_blocked_fin"})
      /\ t.pre_accept_fin = p2 /\ t.qpack_blocked_fin = q2
  BY <1>3, <1>5, <1>6, MarkShape
<1>9. Keeps(s, t, {"pre_accept_fin", "qpack_blocked_fin"})
  BY <1>3, <1>8 DEF Keeps
<1>10. Noted(s, t, x, fin)
  BY <1>7, <1>8, <1>9 DEF Noted
<1> QED
  BY <1>8, <1>10 DEF t, u

LEMMA NotedGood ==
    ASSUME NEW n, NEW s, Good(s, n), NEW t \in Record, NEW x, NEW fin, Noted(s, t, x, fin)
    PROVE  Good(t, n)
<1>1. /\ t.ready = s.ready /\ t.response = s.response /\ t.ended = s.ended
      /\ t.read = s.read /\ t.confirmed = s.confirmed /\ t.written = s.written
      /\ t.fin_accepted = s.fin_accepted /\ t.stale_2xx = s.stale_2xx
      /\ t.pending_fin = s.pending_fin
      /\ t.over = s.over /\ t.session_ids = s.session_ids /\ t.accepted = s.accepted
      /\ t.state = s.state /\ t.blocked = s.blocked
      /\ t.pending_headers = s.pending_headers
  BY DEF Noted, Keeps, Names
<1>2. /\ t.out_of_place = s.out_of_place /\ t.mixed = s.mixed
      /\ t.rejected = s.rejected /\ t.named = s.named /\ t.got = s.got
      /\ t.kept = s.kept /\ t.buffered = s.buffered /\ t.deleted = s.deleted
      /\ t.stream_info = s.stream_info
  BY DEF Noted, Keeps, Names
<1>3. \A z \in Sessions : /\ z \in s.pre_accept_fin => z \in t.pre_accept_fin
                          /\ z \in t.pre_accept_fin =>
                                z \in s.pre_accept_fin \/ z \in s.session_ids
  BY DEF Noted
<1>4. \A z \in Sessions : Life(s, z)
  BY DEF Good
<1>5. \A z \in Sessions : Life(t, z)
  BY <1>1, <1>3, <1>4 DEF Life
<1>6. \A d \in Remote : SessionOf[d] \in Sessions
  BY SessionOfStream DEF Streams
<1>7. \A d \in Remote : Around(s, t, d)
  BY <1>1, <1>2, <1>3, <1>6 DEF Around, Could, Settled
<1>8. \A d \in Remote : OneStream(t, d, n[d])
  BY <1>7, AroundGood DEF Good
<1> QED
  BY <1>2, <1>5, <1>8 DEF Good

(* Session z after process_after_read; e: its FIN has just been received.  *)
Tidy(s, t, z, e) ==
    /\ z \in t.session_ids => z \in s.session_ids /\ z \notin s.pending_fin
    /\ z \in t.blocked => z \in s.blocked
    /\ z \in t.blocked /\ (z \in s.qpack_blocked_fin \/ e) => z \in t.qpack_blocked_fin
    /\ z \in t.session_ids
          /\ (z \in s.pre_accept_fin \cup s.fin_accepted \cup s.qpack_blocked_fin \/ e)
       => z \in t.pre_accept_fin \cup t.fin_accepted
    /\ z \in t.pre_accept_fin \cup t.fin_accepted \cup t.qpack_blocked_fin =>
          z \in s.pre_accept_fin \cup s.fin_accepted \cup s.qpack_blocked_fin \/ e
    /\ t.read[z] = s.read[z]
    /\ t.state[z] = "gone" \/ (t.state[z] = s.state[z] /\ t.guard[z] = s.guard[z])
    /\ s.state[z] = "gone" => t.state[z] = "gone"
    /\ \/ t.guard[z] = NoGuard
       \/ /\ t.guard[z] = s.guard[z]
          /\ z \in t.pending_headers <=> z \in s.pending_headers
    /\ z \notin s.pending_fin => t.over[z] = s.over[z]

Processed(s, t, x, fin) ==
    /\ \A z \in Sessions : Tidy(s, t, z, fin /\ z = x)
    /\ Streamwise(s, t)
    /\ t.closed = s.closed /\ t.error = s.error
    /\ t.confirmed = s.confirmed
    /\ t.pending_fin = {} /\ t.stale_2xx = {}

LEMMA ProcessAfterRead ==
    ASSUME NEW n, NEW s, Good(s, n), NEW x, NEW fin
    PROVE  LET t == process_after_read(s, x, fin)
           IN  Good(t, n) /\ Processed(s, t, x, fin)
<1> DEFINE u == migrate_blocked_fin(IF fin THEN note_unreported_fin(s, x) ELSE s)
           v == close_finished(u)
           t == discard_stale_2xx(v)
<1>1. u \in Record /\ Noted(s, u, x, fin)
  BY NotedShape DEF Good
<1>2. process_after_read(s, x, fin) = t
  BY Zenon DEF process_after_read
<1> HIDE DEF u
<1>3. Good(u, n)
  BY <1>1, NotedGood
<1>4. /\ Good(v, n) /\ Streamwise(u, v)
      /\ v.closed = u.closed /\ v.error = u.error
      /\ v.confirmed = u.confirmed /\ v.written = u.written
      /\ v.pending_fin = {} /\ v.stale_2xx = u.stale_2xx
      /\ AllClosed(u, v, u.pending_fin, "fin")
  BY <1>3, CloseFinished
<1> HIDE DEF v
<1>5. /\ Good(t, n) /\ Streamwise(v, t)
      /\ t.closed = v.closed /\ t.error = v.error
      /\ t.confirmed = v.confirmed /\ t.written = v.written
      /\ t.pending_fin = v.pending_fin /\ t.stale_2xx = {}
      /\ AllFinished(v, t, v.stale_2xx, "capsule")
  BY <1>4, DiscardStale
<1> HIDE DEF t
<1>6. /\ u.closed = s.closed /\ u.error = s.error /\ u.confirmed = s.confirmed
      /\ u.pending_fin = s.pending_fin /\ u.stale_2xx = s.stale_2xx
      /\ u.named = s.named /\ u.deleted = s.deleted /\ u.guard = s.guard
      /\ u.session_ids = s.session_ids /\ u.blocked = s.blocked
      /\ u.fin_accepted = s.fin_accepted /\ u.read = s.read /\ u.state = s.state
      /\ u.pending_headers = s.pending_headers /\ u.over = s.over /\ u.ready = s.ready
  BY <1>1 DEF Noted, Keeps, Names
<1>7. Streamwise(s, t)
  <2>1. Streamwise(s, u)
    BY <1>6 DEF Streamwise, SameStream
  <2> QED
    BY <1>4, <1>5, <2>1, StreamwiseAfter
<1>8. ASSUME NEW z \in Sessions PROVE Tidy(s, t, z, fin /\ z = x)
  <2>1. Life(s, z) /\ Life(u, z) /\ Life(v, z) /\ Life(t, z)
    BY <1>3, <1>4, <1>5 DEF Good
  <2>2. /\ z \in u.pre_accept_fin <=>
              \/ z \in s.pre_accept_fin \/ z \in s.session_ids \cap s.qpack_blocked_fin
              \/ fin /\ z = x /\ z \in s.session_ids \ s.pending_fin
        /\ z \in u.qpack_blocked_fin <=>
              /\ z \notin s.session_ids
              /\ z \in s.qpack_blocked_fin \/ (fin /\ z = x /\ z \in s.pending_headers)
    BY <1>1 DEF Noted
  <2>3. CASE z \in s.stale_2xx
    <3>1. FinishedAt(v, t, z, "capsule")
      BY <1>4, <1>5, <1>6, <2>3 DEF AllFinished
    <3>2. t.ready[z] = 1
      <4>1. v.ready[z] = 1
        BY <1>4, <1>6, <2>1, <2>3 DEF Life
      <4> QED
        BY <3>1, <4>1 DEF FinishedAt
    <3>3. t.state[z] # "none"
      BY <2>1, <3>2 DEF Life, HeadersLen
    <3>4. t.state[z] = "gone"
      BY <3>1, <3>3 DEF FinishedAt
    <3>5. z \notin v.session_ids
      BY <1>4, <1>6, <2>1, <2>3 DEF Life
    <3>6. CASE z \in s.pending_fin
      <4>1. ClosedAt(u, v, z, "fin")
        BY <1>4, <1>6, <3>6 DEF AllClosed
      <4> QED
        BY <1>6, <2>2, <3>1, <3>4, <3>6, <4>1 DEF Tidy, FinishedAt, ClosedAt
    <3>7. CASE z \notin s.pending_fin
      <4>1. Same(u, v, z)
        BY <1>4, <1>6, <3>7 DEF AllClosed
      <4> QED
        BY <1>6, <2>2, <3>1, <3>4, <3>5, <3>7, <4>1 DEF Tidy, FinishedAt, Same
    <3> QED
      BY <3>6, <3>7
  <2>4. CASE z \notin s.stale_2xx
    <3>1. Same(v, t, z)
      BY <1>4, <1>5, <1>6, <2>4 DEF AllFinished
    <3>2. CASE z \in s.pending_fin
      <4>1. ClosedAt(u, v, z, "fin")
        BY <1>4, <1>6, <3>2 DEF AllClosed
      <4>2. u.ready[z] = 1
        BY <1>6, <2>1, <3>2 DEF Life
      <4>3. u.state[z] # "none"
        BY <2>1, <4>2 DEF Life, HeadersLen
      <4>4. v.state[z] = "gone"
        BY <4>1, <4>3 DEF ClosedAt
      <4> QED
        BY <1>6, <2>2, <3>1, <3>2, <4>1, <4>4 DEF Tidy, Same, ClosedAt
    <3>3. CASE z \notin s.pending_fin
      <4>1. Same(u, v, z)
        BY <1>4, <1>6, <3>3 DEF AllClosed
      <4>2. Same(u, t, z)
        BY <3>1, <4>1, SameAfter
      <4>3. z \in s.blocked => z \in s.pending_headers /\ z \notin s.session_ids
        BY <2>1 DEF Life
      <4> QED
        BY <1>6, <2>2, <3>3, <4>2, <4>3 DEF Tidy, Same
    <3> QED
      BY <3>2, <3>3
  <2> QED
    BY <2>3, <2>4
<1> QED
  BY <1>2, <1>4, <1>5, <1>6, <1>7, <1>8 DEF Processed

-----------------------------------------------------------------------------
(* Reading the CONNECT stream c.                                           *)

Reads(s, t, c) ==
    /\ OnlySession(s, t, c)
    /\ t.closed = s.closed /\ t.confirmed = s.confirmed
    /\ t.guard = s.guard
    /\ t.state[c] = "gone" <=> s.state[c] = "gone"
    /\ c \in t.pre_accept_fin <=> c \in s.pre_accept_fin
    /\ c \in t.fin_accepted <=> c \in s.fin_accepted
    /\ c \in t.qpack_blocked_fin => c \in s.qpack_blocked_fin
    /\ s.read[c] <= t.read[c]
    /\ s.read[c] = HeadersLen =>
          /\ c \in t.session_ids => c \in s.session_ids
          /\ c \in t.blocked <=> c \in s.blocked
          /\ c \in t.qpack_blocked_fin <=> c \in s.qpack_blocked_fin
          /\ c \in t.pending_headers <=> c \in s.pending_headers
    /\ c \notin s.confirmed => t.over[c] = s.over[c]

LEMMA ReadsAfter ==
    ASSUME NEW s \in Record, NEW t \in Record, NEW u \in Record, NEW c \in Sessions,
           Reads(s, t, c), Reads(t, u, c)
    PROVE  Reads(s, u, c)
<1>1. OnlySession(s, u, c)
  BY OnlyAfter DEF Reads
<1>2. s.read[c] \in 0 .. HeadersLen /\ t.read[c] \in 0 .. HeadersLen /\ u.read[c] \in 0 .. HeadersLen
  BY DEF Record
<1>3. s.read[c] <= u.read[c]
  BY <1>2 DEF Reads, HeadersLen
<1>4. s.read[c] = HeadersLen => t.read[c] = HeadersLen
  BY <1>2 DEF Reads, HeadersLen
<1> QED
  BY <1>1, <1>3, <1>4 DEF Reads

LEMMA ReadsNone == ASSUME NEW s \in Record, NEW c \in Sessions PROVE Reads(s, s, c)
<1>1. s.read[c] \in 0 .. HeadersLen
  BY DEF Record
<1> QED
  BY <1>1, OnlyNone DEF Reads, HeadersLen

(* The first part of read_item for an item of the HEADERS frame.           *)
Advance(s, c) == [s EXCEPT !.read[c] = @ + 1, !.state[c] = "open"]

LEMMA AdvanceShape ==
    ASSUME NEW s \in Record, NEW c \in Sessions, s.read[c] < HeadersLen
    PROVE  LET t == Advance(s, c)
           IN  /\ t \in Record /\ Keeps(s, t, {"read", "state"})
               /\ t.read = [s.read EXCEPT ![c] = @ + 1]
               /\ t.state = [s.state EXCEPT ![c] = "open"]
<1> DEFINE f == [s.read EXCEPT ![c] = @ + 1]
           g == [s.state EXCEPT ![c] = "open"]
           t == [s EXCEPT !.read = f, !.state = g]
<1>1. Advance(s, c) = t
  BY DEF Advance, Record
<1>a. /\ s.read \in [Sessions -> 0 .. HeadersLen]
      /\ s.state \in [Sessions -> {"none", "open", "gone"}]
  BY DEF Record
<1>b. s.read[c] + 1 \in 0 .. HeadersLen
  BY <1>a DEF HeadersLen
<1>2. /\ f \in [Sessions -> 0 .. HeadersLen]
      /\ g \in [Sessions -> {"none", "open", "gone"}]
  BY <1>a, <1>b
<1> HIDE DEF f, g
<1>3. t \in Record
  BY <1>2 DEF Record
<1>4. Keeps(s, t, {"read", "state"}) /\ t.read = f /\ t.state = g
  BY Fields DEF Keeps, Names
<1> QED
  BY <1>1, <1>3, <1>4 DEF f, g

(* The request as it is after an item of its HEADERS frame, before the     *)
(* callback.                                                               *)
Advanced(s, t, c) ==
    /\ Reads(s, t, c)
    /\ t.read[c] = s.read[c] + 1 /\ t.state[c] = "open"
    /\ t.ready[c] = 0 /\ t.over[c] = 0 /\ t.response[c] = "none"
    /\ c \notin t.session_ids \cup t.accepted \cup t.blocked \cup t.confirmed \cup t.ended
    /\ c \notin t.pending_fin \cup t.stale_2xx \cup t.pre_accept_fin \cup t.fin_accepted
    /\ c \notin t.written
    /\ c \in t.pending_headers <=> c \in s.pending_headers
    /\ s.read[c] = HeadersLen - 1 => c \in t.pending_headers
    /\ t.error = s.error /\ t.over = s.over

LEMMA AdvanceGood ==
    ASSUME NEW n, NEW s, Good(s, n), NEW c \in Sessions, s.read[c] < HeadersLen,
           s.state[c] # "gone"
    PROVE  LET t == Advance(s, c) IN GoodBut(t, n, c) /\ Advanced(s, t, c)
<1> DEFINE t == Advance(s, c)
<1>0. s \in Record /\ Life(s, c) /\ s.read[c] \in 0 .. HeadersLen
      /\ s.read \in [Sessions -> 0 .. HeadersLen]
      /\ s.state \in [Sessions -> {"none", "open", "gone"}]
  BY DEF Good, Record
<1>1. /\ t \in Record /\ Keeps(s, t, {"read", "state"})
      /\ t.read = [s.read EXCEPT ![c] = @ + 1]
      /\ t.state = [s.state EXCEPT ![c] = "open"]
  BY <1>0, AdvanceShape
<1> HIDE DEF t
<1>2. /\ t.ready = s.ready /\ t.response = s.response /\ t.ended = s.ended
      /\ t.confirmed = s.confirmed /\ t.written = s.written
      /\ t.fin_accepted = s.fin_accepted /\ t.stale_2xx = s.stale_2xx
      /\ t.pending_fin = s.pending_fin /\ t.pre_accept_fin = s.pre_accept_fin
      /\ t.over = s.over /\ t.why = s.why
      /\ t.session_ids = s.session_ids /\ t.accepted = s.accepted
      /\ t.blocked = s.blocked /\ t.qpack_blocked_fin = s.qpack_blocked_fin
      /\ t.pending_headers = s.pending_headers
      /\ t.guard = s.guard /\ t.closed = s.closed /\ t.error = s.error
  BY <1>1 DEF Keeps, Names
<1>3. /\ t.out_of_place = s.out_of_place /\ t.mixed = s.mixed
      /\ t.rejected = s.rejected /\ t.named = s.named /\ t.got = s.got
      /\ t.kept = s.kept /\ t.buffered = s.buffered /\ t.deleted = s.deleted
      /\ t.stream_info = s.stream_info
  BY <1>1 DEF Keeps, Names
<1>4. t.read[c] = s.read[c] + 1 /\ t.state[c] = "open"
  BY <1>0, <1>1
<1>5. \A z \in Sessions : z # c => t.read[z] = s.read[z] /\ t.state[z] = s.state[z]
  BY <1>0, <1>1
<1>6. OnlySession(s, t, c)
  <2>1. \A z \in Sessions : z # c => Same(s, t, z)
    BY <1>2, <1>5 DEF Same
  <2>2. \A d \in Remote : SameStream(s, t, d)
    BY <1>2, <1>3 DEF SameStream
  <2> QED
    BY <2>1, <2>2 DEF OnlySession
<1>7. Reads(s, t, c)
  BY <1>0, <1>2, <1>4, <1>6 DEF Reads
<1>8. /\ s.ready[c] = 0 /\ s.over[c] = 0 /\ s.response[c] = "none"
      /\ c \notin s.ended /\ c \notin s.session_ids /\ c \notin s.confirmed
      /\ c \notin s.blocked /\ c \notin s.accepted
  BY <1>0 DEF Life, HeadersLen
<1>9. c \notin s.pending_fin \cup s.stale_2xx \cup s.pre_accept_fin \cup s.fin_accepted
      /\ c \notin s.written
  BY <1>0, <1>8 DEF Life
<1>10. s.read[c] = HeadersLen - 1 => c \in s.pending_headers
  BY <1>0 DEF Life, HeadersLen
<1>11. Advanced(s, t, c)
  BY <1>2, <1>4, <1>7, <1>8, <1>9, <1>10 DEF Advanced
<1>12. \A z \in Sessions : z # c => Life(t, z)
  BY <1>6, LifeSame DEF OnlySession, Good
<1>13. \A d \in Remote : Around(s, t, d)
  <2>1. \A z \in Sessions : t.state[z] # "gone" => s.state[z] # "gone"
    BY <1>4, <1>5
  <2>2. \A d \in Remote : SessionOf[d] \in Sessions
    BY SessionOfStream DEF Streams
  <2> QED
    BY <1>2, <1>3, <2>1, <2>2 DEF Around, Could, Settled
<1>14. \A d \in Remote : OneStream(t, d, n[d])
  BY <1>1, <1>13, AroundGood DEF Good
<1>15. GoodBut(t, n, c)
  BY <1>1, <1>3, <1>12, <1>14 DEF GoodBut, Good
<1> QED
  BY <1>11, <1>15 DEF t

(* An item that is not the last of the frame.                              *)
LEMMA WithinFrame ==
    ASSUME NEW n, NEW s, NEW c \in Sessions, NEW t, GoodBut(t, n, c), Advanced(s, t, c),
           s \in Record, s.read[c] < HeadersLen - 1,
           s.read[c] = HeadersLen - 2 => c \in t.pending_headers
    PROVE  Good(t, n)
<1>1. Life(t, c)
  <2>1. s.read[c] \in 0 .. HeadersLen
    BY DEF Record
  <2> QED
    BY <2>1 DEF Life, Advanced, HeadersLen
<1> QED
  BY <1>1 DEF Good, GoodBut

Begin(s, c) == [s EXCEPT !.pending_headers = @ \cup {c}]
Block(s, c) == [s EXCEPT !.blocked = @ \cup {c}]

LEMMA BeginShape ==
    ASSUME NEW s \in Record, NEW c \in Sessions
    PROVE  /\ Begin(s, c) \in Record /\ Keeps(s, Begin(s, c), {"pending_headers"})
           /\ Begin(s, c).pending_headers = s.pending_headers \cup {c}
<1>1. Begin(s, c) \in Record
  <2> DEFINE b == s.pending_headers \cup {c}
  <2>1. b \subseteq Sessions
    BY DEF Record
  <2> HIDE DEF b
  <2>2. [s EXCEPT !.pending_headers = b] \in Record
    BY <2>1 DEF Record
  <2> QED
    BY <2>2 DEF b, Begin
<1>2. Keeps(s, Begin(s, c), {"pending_headers"})
  BY Fields DEF Begin, Keeps
<1>3. Begin(s, c).pending_headers = s.pending_headers \cup {c}
  BY Fields DEF Begin, Names
<1> QED
  BY <1>1, <1>2, <1>3

LEMMA BlockShape ==
    ASSUME NEW s \in Record, NEW c \in Sessions
    PROVE  /\ Block(s, c) \in Record /\ Keeps(s, Block(s, c), {"blocked"})
           /\ Block(s, c).blocked = s.blocked \cup {c}
<1>1. Block(s, c) \in Record
  <2> DEFINE b == s.blocked \cup {c}
  <2>1. b \subseteq Sessions
    BY DEF Record
  <2> HIDE DEF b
  <2>2. [s EXCEPT !.blocked = b] \in Record
    BY <2>1 DEF Record
  <2> QED
    BY <2>2 DEF b, Block
<1>2. Keeps(s, Block(s, c), {"blocked"})
  BY Fields DEF Block, Keeps
<1>3. Block(s, c).blocked = s.blocked \cup {c}
  BY Fields DEF Block, Names
<1> QED
  BY <1>1, <1>2, <1>3

(* K, which begins the field section.                                      *)
LEMMA BeginGood ==
    ASSUME NEW n, NEW s \in Record, NEW c \in Sessions, NEW t, GoodBut(t, n, c),
           Advanced(s, t, c), s.read[c] = 1
    PROVE  LET u == Begin(t, c)
           IN  Good(u, n) /\ Reads(s, u, c) /\ u.read[c] = t.read[c] /\ u.state[c] = "open"
               /\ u.error = s.error
<1> DEFINE u == Begin(t, c)
<1>1. /\ u \in Record /\ Keeps(t, u, {"pending_headers"})
      /\ u.pending_headers = t.pending_headers \cup {c}
  BY BeginShape DEF GoodBut
<1> HIDE DEF u
<1>2. /\ u.ready = t.ready /\ u.response = t.response /\ u.ended = t.ended
      /\ u.confirmed = t.confirmed /\ u.written = t.written
      /\ u.fin_accepted = t.fin_accepted /\ u.stale_2xx = t.stale_2xx
      /\ u.pending_fin = t.pending_fin /\ u.pre_accept_fin = t.pre_accept_fin
      /\ u.over = t.over /\ u.why = t.why
      /\ u.session_ids = t.session_ids /\ u.accepted = t.accepted
      /\ u.blocked = t.blocked /\ u.qpack_blocked_fin = t.qpack_blocked_fin
      /\ u.read = t.read /\ u.state = t.state
      /\ u.guard = t.guard /\ u.closed = t.closed /\ u.error = t.error
  BY <1>1 DEF Keeps, Names
<1>3. /\ u.out_of_place = t.out_of_place /\ u.mixed = t.mixed
      /\ u.rejected = t.rejected /\ u.named = t.named /\ u.got = t.got
      /\ u.kept = t.kept /\ u.buffered = t.buffered /\ u.deleted = t.deleted
      /\ u.stream_info = t.stream_info
  BY <1>1 DEF Keeps, Names
<1>4. OnlySession(t, u, c)
  <2>1. \A z \in Sessions : z # c => Same(t, u, z)
    BY <1>1, <1>2 DEF Same
  <2>2. \A d \in Remote : SameStream(t, u, d)
    BY <1>2, <1>3 DEF SameStream
  <2> QED
    BY <2>1, <2>2 DEF OnlySession
<1>5. Life(u, c)
  BY <1>1, <1>2 DEF Life, Advanced, HeadersLen
<1>6. \A z \in Sessions : Life(u, z)
  BY <1>4, <1>5, LifeSame DEF OnlySession, GoodBut
<1>7. \A d \in Remote : Around(t, u, d)
  BY <1>2, <1>3 DEF Around, Could, Settled
<1>8. \A d \in Remote : OneStream(u, d, n[d])
  BY <1>1, <1>7, AroundGood DEF GoodBut
<1>9. Good(u, n)
  BY <1>1, <1>3, <1>6, <1>8 DEF Good, GoodBut
<1>11. OnlySession(s, u, c)
  BY <1>4, OnlyAfter DEF Advanced, Reads
<1>12. Reads(s, u, c)
  BY <1>1, <1>2, <1>11 DEF Reads, Advanced, HeadersLen
<1> QED
  BY <1>2, <1>9, <1>12 DEF u, Advanced

(* F, which ends it, when it has to wait for the dynamic table.            *)
LEMMA BlockGood ==
    ASSUME NEW n, NEW s \in Record, NEW c \in Sessions, NEW t, GoodBut(t, n, c),
           Advanced(s, t, c), s.read[c] = HeadersLen - 1
    PROVE  LET u == Block(t, c)
           IN  Good(u, n) /\ Reads(s, u, c) /\ u.read[c] = t.read[c] /\ u.state[c] = "open"
               /\ u.error = s.error
<1> DEFINE u == Block(t, c)
<1>1. /\ u \in Record /\ Keeps(t, u, {"blocked"})
      /\ u.blocked = t.blocked \cup {c}
  BY BlockShape DEF GoodBut
<1> HIDE DEF u
<1>2. /\ u.ready = t.ready /\ u.response = t.response /\ u.ended = t.ended
      /\ u.confirmed = t.confirmed /\ u.written = t.written
      /\ u.fin_accepted = t.fin_accepted /\ u.stale_2xx = t.stale_2xx
      /\ u.pending_fin = t.pending_fin /\ u.pre_accept_fin = t.pre_accept_fin
      /\ u.over = t.over /\ u.why = t.why
      /\ u.session_ids = t.session_ids /\ u.accepted = t.accepted
      /\ u.pending_headers = t.pending_headers
      /\ u.qpack_blocked_fin = t.qpack_blocked_fin
      /\ u.read = t.read /\ u.state = t.state
      /\ u.guard = t.guard /\ u.closed = t.closed /\ u.error = t.error
  BY <1>1 DEF Keeps, Names
<1>3. /\ u.out_of_place = t.out_of_place /\ u.mixed = t.mixed
      /\ u.rejected = t.rejected /\ u.named = t.named /\ u.got = t.got
      /\ u.kept = t.kept /\ u.buffered = t.buffered /\ u.deleted = t.deleted
      /\ u.stream_info = t.stream_info
  BY <1>1 DEF Keeps, Names
<1>4. OnlySession(t, u, c)
  <2>1. \A z \in Sessions : z # c => Same(t, u, z)
    BY <1>1, <1>2 DEF Same
  <2>2. \A d \in Remote : SameStream(t, u, d)
    BY <1>2, <1>3 DEF SameStream
  <2> QED
    BY <2>1, <2>2 DEF OnlySession
<1>5. Life(u, c)
  BY <1>1, <1>2 DEF Life, Advanced, HeadersLen
<1>6. \A z \in Sessions : Life(u, z)
  BY <1>4, <1>5, LifeSame DEF OnlySession, GoodBut
<1>7. \A d \in Remote : Around(t, u, d)
  BY <1>2, <1>3 DEF Around, Could, Settled
<1>8. \A d \in Remote : OneStream(u, d, n[d])
  BY <1>1, <1>7, AroundGood DEF GoodBut
<1>9. Good(u, n)
  BY <1>1, <1>3, <1>6, <1>8 DEF Good, GoodBut
<1>11. OnlySession(s, u, c)
  BY <1>4, OnlyAfter DEF Advanced, Reads
<1>12. Reads(s, u, c)
  BY <1>1, <1>2, <1>11 DEF Reads, Advanced, HeadersLen
<1> QED
  BY <1>2, <1>9, <1>12 DEF u, Advanced

(* F, decoded at once.                                                     *)
LEMMA EndHeadersGood ==
    ASSUME NEW n, NEW t, NEW c \in Sessions, GoodBut(t, n, c), Fresh(t, c)
    PROVE  LET u == end_headers_cb(t, c)
           IN  /\ Good(u, n) /\ OnlySession(t, u, c)
               /\ Keeps(t, u, {"pending_headers", "session_ids", "ready", "out_of_place",
                               "qpack_blocked_fin", "response", "pre_accept_fin",
                               "accepted", "buffered"})
               /\ c \notin u.pre_accept_fin /\ c \notin u.pending_headers
               /\ c \in u.qpack_blocked_fin => c \in t.qpack_blocked_fin
               /\ c \in u.session_ids /\ c \in t.qpack_blocked_fin => c \in u.qpack_blocked_fin
<1> DEFINE u == end_headers_cb(t, c)
<1>0. t \in Record
  BY DEF GoodBut
<1>1. CASE c \in wanted
  <2>1. u \in Record /\ ReadiesSession(t, u, c)
    BY <1>0, <1>1, ReadyShape
  <2> HIDE DEF u
  <2>2. Good(u, n) /\ OnlySession(t, u, c)
    BY <2>1, ReadyGood
  <2>3. Keeps(t, u, {"pending_headers", "session_ids", "ready", "out_of_place",
                     "qpack_blocked_fin", "response", "pre_accept_fin",
                     "accepted", "buffered"})
    BY <2>1 DEF ReadiesSession, Keeps
  <2>4. u.pre_accept_fin = t.pre_accept_fin /\ u.qpack_blocked_fin = t.qpack_blocked_fin
    BY <2>1 DEF ReadiesSession, Keeps, Names
  <2>5. c \notin u.pending_headers /\ c \notin t.pre_accept_fin
    BY <2>1 DEF ReadiesSession, Fresh
  <2> QED
    BY <2>2, <2>3, <2>4, <2>5 DEF u
<1>2. CASE c \notin wanted
  <2>1. u \in Record /\ RefusesSession(t, u, c)
    BY <1>0, <1>2, RefuseShape
  <2> HIDE DEF u
  <2>2. Good(u, n) /\ OnlySession(t, u, c)
    BY <2>1, RefuseGood
  <2>3. Keeps(t, u, {"pending_headers", "session_ids", "ready", "out_of_place",
                     "qpack_blocked_fin", "response", "pre_accept_fin",
                     "accepted", "buffered"})
    BY <2>1 DEF RefusesSession, Keeps
  <2>4. /\ u.qpack_blocked_fin \subseteq t.qpack_blocked_fin
        /\ c \notin u.pre_accept_fin /\ c \notin u.pending_headers
        /\ c \notin u.session_ids
    BY <2>1 DEF RefusesSession
  <2> QED
    BY <2>2, <2>3, <2>4 DEF u
<1> QED
  BY <1>1, <1>2

LEMMA DecodeGood ==
    ASSUME NEW n, NEW s \in Record, NEW c \in Sessions, NEW t, GoodBut(t, n, c),
           Advanced(s, t, c), s.read[c] = HeadersLen - 1
    PROVE  LET u == end_headers_cb(t, c)
           IN  Good(u, n) /\ Reads(s, u, c) /\ u.read[c] = t.read[c] /\ u.state[c] = "open"
               /\ u.error = s.error
<1> DEFINE u == end_headers_cb(t, c)
<1>1. Fresh(t, c)
  BY DEF Fresh, Advanced, HeadersLen
<1>2. /\ Good(u, n) /\ OnlySession(t, u, c)
      /\ Keeps(t, u, {"pending_headers", "session_ids", "ready", "out_of_place",
                      "qpack_blocked_fin", "response", "pre_accept_fin",
                      "accepted", "buffered"})
      /\ c \notin u.pre_accept_fin /\ c \notin u.pending_headers
      /\ c \in u.qpack_blocked_fin => c \in t.qpack_blocked_fin
  BY <1>1, EndHeadersGood
<1> HIDE DEF u
<1>3. /\ u.confirmed = t.confirmed /\ u.fin_accepted = t.fin_accepted
      /\ u.pending_fin = t.pending_fin /\ u.over = t.over
      /\ u.read = t.read /\ u.state = t.state
      /\ u.guard = t.guard /\ u.closed = t.closed /\ u.error = t.error
  BY <1>2 DEF Keeps, Names
<1>4. OnlySession(s, u, c)
  BY <1>2, OnlyAfter DEF Advanced, Reads
<1>5. Reads(s, u, c)
  BY <1>2, <1>3, <1>4 DEF Reads, Advanced, HeadersLen
<1> QED
  BY <1>2, <1>3, <1>5 DEF u, Advanced

LEMMA FailShape ==
    ASSUME NEW s \in Record, NEW e \in {"none", "message", "connection"}
    PROVE  /\ Fail(s, e) \in Record /\ Keeps(s, Fail(s, e), {"error"})
           /\ Fail(s, e).error = e
<1>1. Fail(s, e) \in Record
  BY DEF Fail, Record
<1>2. Keeps(s, Fail(s, e), {"error"})
  BY Fields DEF Fail, Keeps
<1>3. Fail(s, e).error = e
  BY Fields DEF Fail, Names
<1> QED
  BY <1>1, <1>2, <1>3

(* Edits of fields that neither the invariant nor Reads speaks of.         *)
LEMMA AsideReads ==
    ASSUME NEW n, NEW s, Good(s, n), NEW c \in Sessions, NEW t \in Record,
           Keeps(s, t, {"error", "capsules"})
    PROVE  Good(t, n) /\ Reads(s, t, c) /\ t.read = s.read /\ t.state = s.state
<1>1. Keeps(s, t, Aside)
  BY DEF Keeps, Aside
<1>2. Good(t, n)
  BY <1>1, AsideGood
<1>3. /\ t.session_ids = s.session_ids /\ t.accepted = s.accepted
      /\ t.pending_headers = s.pending_headers /\ t.pre_accept_fin = s.pre_accept_fin
      /\ t.fin_accepted = s.fin_accepted /\ t.qpack_blocked_fin = s.qpack_blocked_fin
      /\ t.blocked = s.blocked /\ t.ended = s.ended /\ t.guard = s.guard
      /\ t.state = s.state /\ t.read = s.read /\ t.response = s.response
      /\ t.ready = s.ready /\ t.over = s.over /\ t.why = s.why
      /\ t.named = s.named /\ t.deleted = s.deleted
      /\ t.pending_fin = s.pending_fin /\ t.stale_2xx = s.stale_2xx
      /\ t.confirmed = s.confirmed /\ t.written = s.written /\ t.closed = s.closed
  BY DEF Keeps, Names
<1>4. OnlySession(s, t, c)
  BY <1>3 DEF OnlySession, Same, SameStream
<1>5. s.read[c] \in 0 .. HeadersLen
  BY DEF Good, Record
<1>6. Reads(s, t, c)
  BY <1>3, <1>4, <1>5 DEF Reads, HeadersLen
<1> QED
  BY <1>2, <1>3, <1>6

(* A capsule of the confirmed session c.                                   *)
CapsuleFields == {"session_ids", "accepted", "stream_info", "buffered", "stale_2xx",
                  "ended", "out_of_place", "over", "why", "error"}

Capsule(s, t, c, a) ==
    /\ Keeps(s, t, CapsuleFields)
    /\ t.error = s.error \/ (t.error = "message" /\ c \in t.session_ids)
    /\ \/ t.over[c] = s.over[c] /\ t.session_ids = s.session_ids
          /\ t.stale_2xx = s.stale_2xx /\ t.why = s.why
       \/ /\ t.why[c] = "capsule" /\ c \notin t.session_ids
          /\ a => c \in t.stale_2xx

LEMMA CapsuleGood ==
    ASSUME NEW n, NEW s, Good(s, n), NEW c \in s.confirmed, s.state[c] # "gone",
           NEW x, NEW a, a \in BOOLEAN
    PROVE  LET t == capsule_arrives(s, c, x, a)
           IN  Good(t, n) /\ Reads(s, t, c) /\ Capsule(s, t, c, a)
<1> DEFINE t == capsule_arrives(s, c, x, a)
<1>0. s \in Record /\ c \in Sessions /\ Life(s, c)
  BY DEF Good, Record
<1>1. s.state[c] = "open"
  <2>1. s.ready[c] = 1
    BY <1>0 DEF Life
  <2>2. s.state[c] \in {"none", "open", "gone"}
    BY <1>0 DEF Record
  <2> QED
    BY <1>0, <2>1, <2>2 DEF Life, HeadersLen
<1>2. CASE c \notin s.ended /\ x = "CLOSE"
  <2>1. t = recv_wt_close_session_cb(s, c, a)
    BY <1>2 DEF capsule_arrives
  <2>2. c \in s.session_ids
    BY <1>0, <1>1, <1>2 DEF Life
  <2> HIDE DEF t
  <2>3. /\ t \in Record /\ ClosesSession(s, t, c, "capsule")
        /\ c \in t.stale_2xx <=> c \in s.stale_2xx \cup s.fin_accepted \/ a
    BY <1>0, <2>1, RecvCloseShape
  <2>4. Good(t, n)
    BY <2>2, <2>3, ClosesGood
  <2>5. Keeps(s, t, CapsuleFields)
    BY <2>3 DEF ClosesSession, Keeps, CapsuleFields
  <2>6. /\ t.closed = s.closed /\ t.confirmed = s.confirmed /\ t.pending_fin = s.pending_fin
        /\ t.guard = s.guard /\ t.state = s.state /\ t.pre_accept_fin = s.pre_accept_fin
        /\ t.fin_accepted = s.fin_accepted /\ t.qpack_blocked_fin = s.qpack_blocked_fin
        /\ t.read = s.read /\ t.blocked = s.blocked /\ t.pending_headers = s.pending_headers
        /\ t.written = s.written /\ t.response = s.response /\ t.ready = s.ready
        /\ t.named = s.named /\ t.deleted = s.deleted
    BY <2>5 DEF Keeps, Names, CapsuleFields
  <2>7. /\ t.session_ids = s.session_ids \ {c} /\ t.accepted = s.accepted \ {c}
        /\ t.ended = s.ended \cup {c} /\ t.stale_2xx \subseteq s.stale_2xx \cup {c}
        /\ s.stale_2xx \subseteq t.stale_2xx
        /\ t.why[c] = "capsule"
    BY <1>0, <2>3 DEF ClosesSession, Record
  <2>8. \A z \in Sessions : z # c => t.over[z] = s.over[z] /\ t.why[z] = s.why[z]
    BY <1>0, <2>3 DEF ClosesSession, Record
  <2>9. \A z \in Sessions : z # c => Same(s, t, z)
    BY <2>6, <2>7, <2>8 DEF Same
  <2>10. OnlySession(s, t, c)
    BY <2>6, <2>9 DEF OnlySession, SameStream
  <2>11. s.read[c] \in 0 .. HeadersLen
    BY <1>0 DEF Record
  <2>12. Reads(s, t, c)
    BY <2>6, <2>7, <2>10, <2>11 DEF Reads, HeadersLen
  <2>13. t.error = s.error
    BY <2>3 DEF ClosesSession, Keeps, Names
  <2>14. Capsule(s, t, c, a)
    BY <2>3, <2>5, <2>7, <2>13 DEF Capsule
  <2> QED
    BY <2>4, <2>12, <2>14 DEF t
<1>3. CASE c \notin s.ended /\ x = "BAD"
  <2>1. t = Fail(s, "message")
    BY <1>3 DEF capsule_arrives
  <2>2. c \in s.session_ids
    BY <1>0, <1>1, <1>3 DEF Life
  <2> HIDE DEF t
  <2>3. t \in Record /\ Keeps(s, t, {"error"}) /\ t.error = "message"
    BY <1>0, <2>1, FailShape
  <2>4. Keeps(s, t, {"error", "capsules"})
    BY <2>3 DEF Keeps
  <2>5. Good(t, n) /\ Reads(s, t, c)
    BY <1>0, <2>3, <2>4, AsideReads
  <2>6. Capsule(s, t, c, a)
    BY <2>2, <2>3 DEF Capsule, Keeps, Names, CapsuleFields
  <2> QED
    BY <2>5, <2>6 DEF t
<1>4. CASE c \in s.ended \/ x \notin {"CLOSE", "BAD"}
  <2>1. t = s
    BY <1>4 DEF capsule_arrives
  <2>2. Capsule(s, s, c, a)
    BY DEF Capsule, Keeps
  <2> QED
    BY <1>0, <2>1, <2>2, ReadsNone
<1> QED
  BY <1>2, <1>3, <1>4

(* One item.                                                               *)
Fits(s, c, x) ==
    \/ s.error # "none" \/ s.state[c] = "gone"
    \/ /\ s.read[c] < HeadersLen
       /\ x = "K" <=> s.read[c] = 1
       /\ x = "F" <=> s.read[c] = 2
    \/ s.read[c] = HeadersLen /\ c \notin s.blocked

ReadOne(s, t, c) ==
    \/ s.error # "none" /\ t = s
    \/ t.error = "connection"
    \/ s.error = "none" /\ t.error = "message" /\ c \in t.session_ids \cap s.confirmed
    \/ /\ s.error = "none" /\ t.error = "none" /\ s.state[c] # "gone" /\ t.state[c] = "open"
       /\ t.read[c] = IF s.read[c] < HeadersLen THEN s.read[c] + 1 ELSE HeadersLen

Keep1(s, c, x) == [s EXCEPT !.capsules[c] = Append(@, x)]

LEMMA KeepShape ==
    ASSUME NEW s \in Record, NEW c \in Sessions, NEW x \in Item
    PROVE  Keep1(s, c, x) \in Record /\ Keeps(s, Keep1(s, c, x), {"capsules"})
<1> DEFINE f == [s.capsules EXCEPT ![c] = Append(@, x)]
           t == [s EXCEPT !.capsules = f]
<1>1. Keep1(s, c, x) = t
  BY DEF Keep1, Record
<1>2. f \in [Sessions -> Seq(Item)]
  BY DEF Record
<1> HIDE DEF f
<1>3. t \in Record
  BY <1>2 DEF Record
<1>4. Keeps(s, t, {"capsules"})
  BY Fields DEF Keeps
<1> QED
  BY <1>1, <1>3, <1>4

LEMMA ReadItem ==
    ASSUME NEW n, NEW s, Good(s, n), NEW c \in Sessions, NEW x \in Item, NEW b,
           Fits(s, c, x)
    PROVE  LET t == read_item(s, c, x, b)
           IN  Good(t, n) /\ Reads(s, t, c) /\ ReadOne(s, t, c)
<1> DEFINE t == read_item(s, c, x, b)
           a == Advance(s, c)
<1>0. s \in Record /\ Life(s, c) /\ s.read[c] \in 0 .. HeadersLen
      /\ s.state[c] \in {"none", "open", "gone"}
      /\ s.error \in {"none", "message", "connection"}
  BY DEF Good, Record
<1>1. CASE s.error # "none"
  <2>1. t = s
    BY <1>1 DEF read_item
  <2> QED
    BY <1>0, <1>1, <2>1, ReadsNone DEF ReadOne
<1>2. CASE s.error = "none" /\ s.state[c] = "gone"
  <2>1. t = Fail(s, "connection")
    BY <1>2 DEF read_item
  <2> HIDE DEF t
  <2>2. t \in Record /\ Keeps(s, t, {"error"}) /\ t.error = "connection"
    BY <1>0, <2>1, FailShape
  <2>3. Keeps(s, t, {"error", "capsules"})
    BY <2>2 DEF Keeps
  <2>4. Good(t, n) /\ Reads(s, t, c)
    BY <2>2, <2>3, AsideReads
  <2> QED
    BY <2>2, <2>4 DEF ReadOne, t
<1>3. CASE s.error = "none" /\ s.state[c] # "gone" /\ s.read[c] < HeadersLen
  <2>1. GoodBut(a, n, c) /\ Advanced(s, a, c)
    BY <1>3, AdvanceGood
  <2>2. a.read[c] = s.read[c] + 1 /\ a.state[c] = "open" /\ a.error = s.error
    BY <2>1 DEF Advanced
  <2>3. t = CASE x = "K" -> begin_headers_cb(a, c)
              [] x = "F" -> IF c \in dynamic /\ ~b
                            THEN [a EXCEPT !.blocked = @ \cup {c}]
                            ELSE end_headers_cb(a, c)
              [] OTHER -> a
    BY <1>3, Zenon DEF read_item, Advance
  <2> HIDE DEF a, t
  <2>4. CASE x = "K"
    <3>a. t = Begin(a, c)
      BY <2>3, <2>4 DEF Begin, begin_headers_cb
    <3>b. s.read[c] = 1
      BY <1>0, <1>3, <2>4 DEF Fits, HeadersLen
    <3>1. t = Begin(a, c) /\ s.read[c] = 1
      BY <3>a, <3>b
    <3> QED
      BY <1>0, <1>3, <2>1, <2>2, <3>1, BeginGood DEF ReadOne, t
  <2>5. CASE x = "F"
    <3>1. s.read[c] = 2 /\ x # "K"
      BY <1>3, <2>5 DEF Fits, HeadersLen
    <3>2. CASE c \in dynamic /\ ~b
      <4>1. t = Block(a, c)
        BY <2>3, <2>5, <3>1, <3>2 DEF Block
      <4> QED
        BY <1>0, <1>3, <2>1, <2>2, <3>1, <4>1, BlockGood DEF ReadOne, t, HeadersLen
    <3>3. CASE ~(c \in dynamic /\ ~b)
      <4>1. t = end_headers_cb(a, c)
        BY <2>3, <2>5, <3>1, <3>3
      <4> QED
        BY <1>0, <1>3, <2>1, <2>2, <3>1, <4>1, DecodeGood DEF ReadOne, t, HeadersLen
    <3> QED
      BY <3>2, <3>3
  <2>6. CASE x # "K" /\ x # "F"
    <3>1. t = a
      BY <2>3, <2>6
    <3>2. s.read[c] = 0
      BY <1>0, <1>3, <2>6 DEF Fits, HeadersLen
    <3>3. Good(a, n)
      BY <1>0, <2>1, <3>2, WithinFrame DEF HeadersLen
    <3> QED
      BY <1>3, <2>1, <2>2, <3>1, <3>3 DEF ReadOne, Advanced, t
  <2> QED
    BY <2>4, <2>5, <2>6
<1>4. CASE s.error = "none" /\ s.state[c] # "gone" /\ s.read[c] = HeadersLen
  <2>1. c \notin s.blocked /\ ~(s.read[c] < HeadersLen) /\ s.state[c] = "open"
    BY <1>0, <1>4 DEF Fits, HeadersLen, Life
  <2>2. t = IF c \in s.confirmed THEN capsule_arrives(s, c, x, FALSE)
            ELSE IF s.response[c] = "refused" THEN s ELSE Keep1(s, c, x)
    BY <1>4, <2>1, Zenon DEF read_item, Keep1
  <2> HIDE DEF t
  <2>3. CASE c \in s.confirmed
    <3>1. Good(t, n) /\ Reads(s, t, c) /\ Capsule(s, t, c, FALSE)
      BY <1>4, <2>2, <2>3, CapsuleGood
    <3>2. t.read = s.read /\ t.state = s.state
      BY <3>1 DEF Capsule, Keeps, Names, CapsuleFields
    <3>3. ReadOne(s, t, c)
      BY <1>4, <2>1, <2>3, <3>1, <3>2 DEF ReadOne, Capsule
    <3> QED
      BY <3>1, <3>3 DEF t
  <2>4. CASE c \notin s.confirmed /\ s.response[c] = "refused"
    <3>1. t = s
      BY <2>2, <2>4
    <3> QED
      BY <1>0, <1>4, <2>1, <3>1, ReadsNone DEF ReadOne, t
  <2>5. CASE c \notin s.confirmed /\ s.response[c] # "refused"
    <3>1. t \in Record /\ Keeps(s, t, {"capsules"})
      BY <1>0, <2>2, <2>5, KeepShape
    <3>2. Keeps(s, t, {"error", "capsules"}) /\ t.error = s.error
      BY <3>1 DEF Keeps, Names
    <3>3. Good(t, n) /\ Reads(s, t, c) /\ t.read = s.read /\ t.state = s.state
      BY <3>1, <3>2, AsideReads
    <3> QED
      BY <1>4, <2>1, <3>2, <3>3 DEF ReadOne, t
  <2> QED
    BY <2>3, <2>4, <2>5
<1> QED
  BY <1>0, <1>1, <1>2, <1>3, <1>4 DEF HeadersLen

-----------------------------------------------------------------------------
(* The folds over the items of a sequence take the last one last.          *)

LEMMA MaxFacts ==
    ASSUME NEW k \in Nat, NEW z \in SUBSET (1 .. k), z # {}
    PROVE  Max(z) \in z /\ \A j \in z : Max(z) >= j
<1> DEFINE T == {k - i : i \in z}
<1>1. T \subseteq Nat /\ T # {}
  OBVIOUS
<1>2. PICK m \in T : \A j \in T : m <= j
  BY <1>1, LeastNat
<1>3. PICK i \in z : m = k - i
  BY <1>2
<1>4. \A j \in z : i >= j
  <2> TAKE j \in z
  <2>1. k - i <= k - j
    BY <1>2, <1>3
  <2> QED
    BY <2>1
<1>5. \E x \in z : \A y \in z : x >= y
  BY <1>4
<1> QED
  BY <1>5 DEF Max

LEMMA MaxPrefix ==
    ASSUME NEW k \in Nat, k # 0
    PROVE  Max(1 .. k) = k /\ (1 .. k) \ {k} = 1 .. (k - 1) /\ 1 .. k # {}
<1>1. 1 .. k # {}
  OBVIOUS
<1>2. Max(1 .. k) \in 1 .. k /\ \A j \in 1 .. k : Max(1 .. k) >= j
  BY <1>1, MaxFacts
<1>3. Max(1 .. k) = k
  BY <1>2
<1>4. (1 .. k) \ {k} = 1 .. (k - 1)
  OBVIOUS
<1> QED
  BY <1>1, <1>3, <1>4

Lasts(S) == [z \in SUBSET S |-> Max(z)]

LEMMA LastsPicks ==
    ASSUME NEW k \in Nat
    PROVE  /\ Picks(Lasts(1 .. k), 1 .. k) /\ IsFiniteSet(1 .. k)
           /\ \A z \in SUBSET (1 .. k) : z # {} =>
                 Lasts(1 .. k)[z] = Max(z) /\ Max(z) \in 1 .. k
<1>1. IsFiniteSet(1 .. k)
  BY FS_Interval
<1>2. \A z \in SUBSET (1 .. k) : z # {} => Max(z) \in z
  BY MaxFacts
<1> QED
  BY <1>1, <1>2 DEF Picks, Lasts

LEMMA LastInduction ==
    ASSUME NEW k \in Nat, NEW G, {} \in G,
           \A z \in SUBSET (1 .. k) : z # {} /\ z \ {Max(z)} \in G => z \in G
    PROVE  \A z \in SUBSET (1 .. k) : z \in G
<1> DEFINE S == 1 .. k
           T == (SUBSET S) \ G
<1> SUFFICES ASSUME T # {} PROVE FALSE
  OBVIOUS
<1>1. IsFiniteSet(S) /\ Picks(Lasts(S), S)
  BY LastsPicks
<1> HIDE DEF S
<1>2. PICK z \in T : z = {} \/ z \ {Lasts(S)[z]} \notin T
  BY <1>1, SmallestSubset
<1>3. z \in SUBSET S /\ z \notin G /\ z # {}
  BY <1>2
<1>4. z \ {Max(z)} \in SUBSET S /\ Lasts(S)[z] = Max(z)
  BY <1>3, LastsPicks DEF S
<1>5. z \ {Max(z)} \in G
  BY <1>2, <1>3, <1>4
<1> QED
  BY <1>3, <1>5 DEF S

LEMMA FromZero ==
    ASSUME NEW k \in Nat, NEW T, 0 \in T, \A i \in 1 .. k : i - 1 \in T => i \in T
    PROVE  \A i \in 0 .. k : i \in T
<1> DEFINE B == {i \in 0 .. k : i \notin T}
<1>1. ASSUME B # {} PROVE FALSE
  <2>1. B \subseteq Nat
    OBVIOUS
  <2>2. PICK m \in B : \A j \in B : m <= j
    BY <1>1, <2>1, LeastNat
  <2>3. m \in 0 .. k /\ m \notin T /\ m # 0
    BY <2>2
  <2>4. m - 1 \in 0 .. k /\ m \in 1 .. k /\ ~(m <= m - 1)
    BY <2>3
  <2>5. m - 1 \in T
    BY <2>2, <2>4
  <2> QED
    BY <2>3, <2>4, <2>5
<1> QED
  BY <1>1

(* Of read_connect.                                                        *)
TheReading(c, w, b, q) ==
    CHOOSE I : I = [z \in SUBSET DOMAIN q |->
        IF z = {} THEN b ELSE read_item(I[z \ {Max(z)}], c, q[Max(z)], w)]

LEMMA ReadingIs ==
    ASSUME NEW c, NEW w, NEW b, NEW q
    PROVE  FoldLeft(LAMBDA r, x : read_item(r, c, x, w), b, q)
             = TheReading(c, w, b, q)[DOMAIN q]
BY Zenon DEF FoldLeft, MapThenFoldSet, TheReading

LEMMA ReadingSteps ==
    ASSUME NEW c, NEW w, NEW b, NEW q \in Seq(Item), NEW R, b \in R,
           \A i \in DOMAIN q, r \in R : read_item(r, c, q[i], w) \in R
    PROVE  LET J == TheReading(c, w, b, q)
           IN  /\ \A z \in SUBSET DOMAIN q : J[z] \in R
               /\ J[{}] = b
               /\ \A z \in SUBSET DOMAIN q : z # {} =>
                     J[z] = read_item(J[z \ {Max(z)}], c, q[Max(z)], w)
<1> DEFINE S == 1 .. Len(q)
           F == [i \in S |-> [r \in R |-> read_item(r, c, q[i], w)]]
           J == TheReading(c, w, b, q)
<1>0. DOMAIN q = S /\ Len(q) \in Nat
  OBVIOUS
<1>1. \A i \in S, r \in R : F[i][r] \in R /\ F[i][r] = read_item(r, c, q[i], w)
  OBVIOUS
<1> HIDE DEF F, J
<1>a. /\ Picks(Lasts(S), S) /\ IsFiniteSet(S)
      /\ \A z \in SUBSET S : z # {} => Lasts(S)[z] = Max(z) /\ Max(z) \in S
  BY <1>0, LastsPicks
<1> HIDE DEF S
<1>2. PICK I \in [SUBSET S -> R] : Steps(F, b, Lasts(S), S, I)
  BY <1>1, <1>a, IterTyped
<1>3. I = [z \in SUBSET S |->
            IF z = {} THEN b ELSE read_item(I[z \ {Max(z)}], c, q[Max(z)], w)]
  <2>1. ASSUME NEW z \in SUBSET S, z # {}
        PROVE  I[z] = read_item(I[z \ {Max(z)}], c, q[Max(z)], w)
    <3>1. /\ Lasts(S)[z] = Max(z) /\ Max(z) \in S
          /\ z \ {Max(z)} \in SUBSET S
      BY <1>a, <2>1
    <3>2. I[z \ {Max(z)}] \in R
      BY <1>2, <3>1
    <3>3. I[z] = F[Max(z)][I[z \ {Max(z)}]]
      BY <1>2, <2>1, <3>1 DEF Steps
    <3> QED
      BY <1>1, <3>1, <3>2, <3>3
  <2> QED
    BY <1>2, <2>1 DEF Steps
<1>b. J = CHOOSE K : K = [z \in SUBSET S |->
            IF z = {} THEN b ELSE read_item(K[z \ {Max(z)}], c, q[Max(z)], w)]
  BY <1>0, Zenon DEF J, TheReading
<1>4. J = [z \in SUBSET S |->
            IF z = {} THEN b ELSE read_item(J[z \ {Max(z)}], c, q[Max(z)], w)]
  BY <1>3, <1>b, Zenon
<1>5. /\ J[{}] = b
      /\ \A z \in SUBSET S : z # {} =>
            J[z] = read_item(J[z \ {Max(z)}], c, q[Max(z)], w)
  <2>1. {} \in SUBSET S
    OBVIOUS
  <2>2. \A z \in SUBSET S : J[z] =
          IF z = {} THEN b ELSE read_item(J[z \ {Max(z)}], c, q[Max(z)], w)
    BY <1>4
  <2> QED
    BY <2>1, <2>2
<1> DEFINE G == {z \in SUBSET S : J[z] \in R}
<1>6. {} \in G
  BY <1>5
<1>7. ASSUME NEW z \in SUBSET S, z # {}, z \ {Max(z)} \in G PROVE z \in G
  <2>1. Max(z) \in S /\ J[z \ {Max(z)}] \in R
    BY <1>7, <1>a
  <2>2. J[z] = read_item(J[z \ {Max(z)}], c, q[Max(z)], w)
    BY <1>5, <1>7
  <2> QED
    BY <1>1, <1>7, <2>1, <2>2
<1> HIDE DEF G
<1>8. \A z \in SUBSET S : z \in G
  BY <1>0, <1>6, <1>7, LastInduction DEF S
<1> QED
  BY <1>0, <1>5, <1>8 DEF G, J

(* Of confirm_wt_session.                                                  *)
Take(s, c, x) == IF s.error # "none" THEN s ELSE capsule_arrives(s, c, x, TRUE)

TheTaking(c, b, q) ==
    CHOOSE I : I = [z \in SUBSET DOMAIN q |->
        IF z = {} THEN b ELSE Take(I[z \ {Max(z)}], c, q[Max(z)])]

LEMMA TakingSteps ==
    ASSUME NEW c, NEW b, NEW q \in Seq(Item), NEW R, b \in R,
           \A i \in DOMAIN q, r \in R : Take(r, c, q[i]) \in R
    PROVE  LET J == TheTaking(c, b, q)
           IN  /\ \A z \in SUBSET DOMAIN q : J[z] \in R
               /\ J[{}] = b
               /\ \A z \in SUBSET DOMAIN q : z # {} =>
                     J[z] = Take(J[z \ {Max(z)}], c, q[Max(z)])
<1> DEFINE S == 1 .. Len(q)
           F == [i \in S |-> [r \in R |-> Take(r, c, q[i])]]
           J == TheTaking(c, b, q)
<1>0. DOMAIN q = S /\ Len(q) \in Nat
  OBVIOUS
<1>1. \A i \in S, r \in R : F[i][r] \in R /\ F[i][r] = Take(r, c, q[i])
  OBVIOUS
<1> HIDE DEF F, J
<1>a. /\ Picks(Lasts(S), S) /\ IsFiniteSet(S)
      /\ \A z \in SUBSET S : z # {} => Lasts(S)[z] = Max(z) /\ Max(z) \in S
  BY <1>0, LastsPicks
<1> HIDE DEF S
<1>2. PICK I \in [SUBSET S -> R] : Steps(F, b, Lasts(S), S, I)
  BY <1>1, <1>a, IterTyped
<1>3. I = [z \in SUBSET S |->
            IF z = {} THEN b ELSE Take(I[z \ {Max(z)}], c, q[Max(z)])]
  <2>1. ASSUME NEW z \in SUBSET S, z # {}
        PROVE  I[z] = Take(I[z \ {Max(z)}], c, q[Max(z)])
    <3>1. /\ Lasts(S)[z] = Max(z) /\ Max(z) \in S
          /\ z \ {Max(z)} \in SUBSET S
      BY <1>a, <2>1
    <3>2. I[z \ {Max(z)}] \in R
      BY <1>2, <3>1
    <3>3. I[z] = F[Max(z)][I[z \ {Max(z)}]]
      BY <1>2, <2>1, <3>1 DEF Steps
    <3> QED
      BY <1>1, <3>1, <3>2, <3>3
  <2> QED
    BY <1>2, <2>1 DEF Steps
<1>b. J = CHOOSE K : K = [z \in SUBSET S |->
            IF z = {} THEN b ELSE Take(K[z \ {Max(z)}], c, q[Max(z)])]
  BY <1>0, Zenon DEF J, TheTaking
<1>4. J = [z \in SUBSET S |->
            IF z = {} THEN b ELSE Take(J[z \ {Max(z)}], c, q[Max(z)])]
  BY <1>3, <1>b, Zenon
<1>5. /\ J[{}] = b
      /\ \A z \in SUBSET S : z # {} =>
            J[z] = Take(J[z \ {Max(z)}], c, q[Max(z)])
  <2>1. {} \in SUBSET S
    OBVIOUS
  <2>2. \A z \in SUBSET S : J[z] =
          IF z = {} THEN b ELSE Take(J[z \ {Max(z)}], c, q[Max(z)])
    BY <1>4
  <2> QED
    BY <2>1, <2>2
<1> DEFINE G == {z \in SUBSET S : J[z] \in R}
<1>6. {} \in G
  BY <1>5
<1>7. ASSUME NEW z \in SUBSET S, z # {}, z \ {Max(z)} \in G PROVE z \in G
  <2>1. Max(z) \in S /\ J[z \ {Max(z)}] \in R
    BY <1>7, <1>a
  <2>2. J[z] = Take(J[z \ {Max(z)}], c, q[Max(z)])
    BY <1>5, <1>7
  <2> QED
    BY <1>1, <1>7, <2>1, <2>2
<1> HIDE DEF G
<1>8. \A z \in SUBSET S : z \in G
  BY <1>0, <1>6, <1>7, LastInduction DEF S
<1> QED
  BY <1>0, <1>5, <1>8 DEF G, J

LEMMA ReadItemTyped ==
    ASSUME NEW s \in Record, NEW c \in Sessions, NEW x \in Item, NEW b
    PROVE  read_item(s, c, x, b) \in Record
<1> DEFINE t == read_item(s, c, x, b)
           a == Advance(s, c)
           m == [s EXCEPT !.mixed = TRUE]
<1>1. CASE s.error # "none"
  BY <1>1 DEF read_item
<1>2. CASE s.error = "none" /\ s.state[c] = "gone"
  <2>1. t = Fail(s, "connection")
    BY <1>2 DEF read_item
  <2> QED
    BY <2>1, FailShape
<1>3. CASE s.error = "none" /\ s.state[c] # "gone" /\ s.read[c] < HeadersLen
  <2>1. a \in Record
    BY <1>3, AdvanceShape
  <2>3. t = CASE x = "K" -> begin_headers_cb(a, c)
              [] x = "F" -> IF c \in dynamic /\ ~b
                            THEN [a EXCEPT !.blocked = @ \cup {c}]
                            ELSE end_headers_cb(a, c)
              [] OTHER -> a
    BY <1>3, Zenon DEF read_item, Advance
  <2> HIDE DEF a, t
  <2>4. CASE x = "K"
    <3>1. t = Begin(a, c)
      BY <2>3, <2>4 DEF Begin, begin_headers_cb
    <3> QED
      BY <2>1, <3>1, BeginShape DEF t
  <2>5. CASE x = "F" /\ c \in dynamic /\ ~b
    <3>1. t = Block(a, c)
      BY <2>3, <2>5 DEF Block
    <3> QED
      BY <2>1, <3>1, BlockShape DEF t
  <2>6. CASE x = "F" /\ ~(c \in dynamic /\ ~b)
    <3>1. t = end_headers_cb(a, c)
      BY <2>3, <2>6
    <3> QED
      BY <2>1, <3>1, ReadyShape, RefuseShape DEF t
  <2>7. CASE x # "K" /\ x # "F"
    BY <2>1, <2>3, <2>7 DEF t
  <2> QED
    BY <2>4, <2>5, <2>6, <2>7
<1>4. CASE s.error = "none" /\ s.state[c] # "gone" /\ ~(s.read[c] < HeadersLen)
  <2>2. t = IF c \in s.blocked THEN m
            ELSE IF c \in s.confirmed THEN capsule_arrives(s, c, x, FALSE)
            ELSE IF s.response[c] = "refused" THEN s ELSE Keep1(s, c, x)
    BY <1>4, Zenon DEF read_item, Keep1
  <2>3. m \in Record
    BY DEF Record
  <2>4. capsule_arrives(s, c, x, FALSE) \in Record
    <3>1. CASE c \notin s.ended /\ x = "CLOSE"
      <4>1. capsule_arrives(s, c, x, FALSE) = recv_wt_close_session_cb(s, c, FALSE)
        BY <3>1 DEF capsule_arrives
      <4> QED
        BY <4>1, RecvCloseShape
    <3>2. CASE c \notin s.ended /\ x = "BAD"
      <4>1. capsule_arrives(s, c, x, FALSE) = Fail(s, "message")
        BY <3>2 DEF capsule_arrives
      <4> QED
        BY <4>1, FailShape
    <3>3. CASE c \in s.ended \/ x \notin {"CLOSE", "BAD"}
      <4>1. capsule_arrives(s, c, x, FALSE) = s
        BY <3>3 DEF capsule_arrives
      <4> QED
        BY <4>1
    <3> QED
      BY <3>1, <3>2, <3>3
  <2>5. Keep1(s, c, x) \in Record
    BY KeepShape
  <2> HIDE DEF m, t
  <2> QED
    BY <2>2, <2>3, <2>4, <2>5 DEF t
<1> QED
  BY <1>1, <1>2, <1>3, <1>4

(* What is handed to nghttp3 of a CONNECT stream.                          *)
Readable(s, c, q) ==
    \/ q = <<>> \/ s.state[c] = "gone"
    \/ /\ s.read[c] + Len(q) <= HeadersLen
       /\ \A i \in DOMAIN q : /\ q[i] = "K" <=> s.read[c] + i = 2
                              /\ q[i] = "F" <=> s.read[c] + i = 3
    \/ s.read[c] = HeadersLen /\ c \notin s.blocked

ReadSome(s, t, c, k) ==
    \/ t.error = "connection"
    \/ t.error = "message" /\ c \in t.session_ids \cap t.confirmed
    \/ /\ t.error = "none"
       /\ t.read[c] = IF s.read[c] + k < HeadersLen THEN s.read[c] + k ELSE HeadersLen
       /\ \/ k = 0 /\ t = s
          \/ k > 0 /\ s.state[c] # "gone" /\ t.state[c] = "open"

LEMMA ReadItems ==
    ASSUME NEW n, NEW s, Good(s, n), s.error = "none", NEW c \in Sessions,
           NEW q \in Seq(Item), NEW b, Readable(s, c, q)
    PROVE  LET t == TheReading(c, b, s, q)[DOMAIN q]
           IN  Good(t, n) /\ Reads(s, t, c) /\ ReadSome(s, t, c, Len(q))
<1> DEFINE J == TheReading(c, b, s, q)
           K(k) == J[1 .. k]
           T == {k \in 0 .. Len(q) : /\ Good(K(k), n) /\ Reads(s, K(k), c)
                                     /\ ReadSome(s, K(k), c, k)}
<1>0. /\ s \in Record /\ Len(q) \in Nat /\ DOMAIN q = 1 .. Len(q)
      /\ \A i \in DOMAIN q : q[i] \in Item
  BY DEF Good
<1>a. s.read[c] \in 0 .. HeadersLen
  BY <1>0 DEF Record
<1>1. /\ \A z \in SUBSET DOMAIN q : J[z] \in Record
      /\ J[{}] = s
      /\ \A z \in SUBSET DOMAIN q : z # {} =>
            J[z] = read_item(J[z \ {Max(z)}], c, q[Max(z)], b)
  <2>1. \A i \in DOMAIN q, r \in Record : read_item(r, c, q[i], b) \in Record
    BY <1>0, ReadItemTyped
  <2> DEFINE R == Record
  <2>2. s \in R /\ q \in Seq(Item)
    BY <1>0
  <2>3. \A i \in DOMAIN q, r \in R : read_item(r, c, q[i], b) \in R
    BY <2>1
  <2> HIDE DEF R
  <2>4. /\ \A z \in SUBSET DOMAIN q : TheReading(c, b, s, q)[z] \in R
        /\ TheReading(c, b, s, q)[{}] = s
        /\ \A z \in SUBSET DOMAIN q : z # {} =>
              TheReading(c, b, s, q)[z]
                = read_item(TheReading(c, b, s, q)[z \ {Max(z)}], c, q[Max(z)], b)
    BY <2>2, <2>3, ReadingSteps
  <2> QED
    BY <2>4 DEF R, J
<1> HIDE DEF J
<1>2. 0 \in T
  <2>1. 1 .. 0 = {}
    OBVIOUS
  <2>2. K(0) = s
    BY <1>1, <2>1
  <2>3. Good(K(0), n) /\ Reads(s, K(0), c)
    BY <1>0, <2>2, ReadsNone
  <2>4. ReadSome(s, K(0), c, 0)
    BY <1>a, <2>2 DEF ReadSome, HeadersLen
  <2> HIDE DEF K
  <2> QED
    BY <1>0, <2>3, <2>4
<1>3. ASSUME NEW k \in 1 .. Len(q), k - 1 \in T PROVE k \in T
  <2> DEFINE r == K(k - 1)
             t == K(k)
  <2>1. t = read_item(r, c, q[k], b)
    <3>0. k \in Nat /\ k # 0 /\ k >= 1
      BY <1>0, <1>3
    <3>2. 1 .. k \in SUBSET DOMAIN q
      BY <1>0, <1>3
    <3>3. 1 .. k # {}
      BY <3>0, MaxPrefix
    <3>1. /\ 1 .. k \in SUBSET DOMAIN q /\ 1 .. k # {} /\ Max(1 .. k) = k
          /\ (1 .. k) \ {k} = 1 .. (k - 1)
      BY <3>0, <3>2, <3>3, MaxPrefix
    <3> QED
      BY <1>1, <3>1
  <2>2. Good(r, n) /\ Reads(s, r, c) /\ ReadSome(s, r, c, k - 1)
    BY <1>3
  <2> HIDE DEF r, t, T
  <2>3. r \in Record /\ r.read[c] \in 0 .. HeadersLen /\ q[k] \in Item
    BY <1>0, <1>3, <2>2 DEF Good, Record
  <2>4. Fits(r, c, q[k])
    <3> SUFFICES ASSUME r.error = "none", r.state[c] # "gone" PROVE Fits(r, c, q[k])
      BY DEF Fits
    <3>1. r.read[c] = IF s.read[c] + (k - 1) < HeadersLen THEN s.read[c] + (k - 1)
                                                          ELSE HeadersLen
      BY <2>2 DEF ReadSome
    <3>2. q # <<>> /\ s.state[c] # "gone"
      BY <1>0, <1>3, <2>2 DEF Reads
    <3>3. CASE s.read[c] + Len(q) <= HeadersLen
               /\ \A i \in DOMAIN q : /\ q[i] = "K" <=> s.read[c] + i = 2
                                      /\ q[i] = "F" <=> s.read[c] + i = 3
      <4>1. r.read[c] = s.read[c] + k - 1 /\ r.read[c] < HeadersLen
        BY <1>0, <1>a, <1>3, <3>1, <3>3 DEF HeadersLen
      <4>2. /\ q[k] = "K" <=> s.read[c] + k = 2
            /\ q[k] = "F" <=> s.read[c] + k = 3
        BY <1>0, <1>3, <3>3
      <4> QED
        BY <1>a, <4>1, <4>2 DEF Fits
    <3>4. CASE s.read[c] = HeadersLen /\ c \notin s.blocked
      BY <2>2, <3>1, <3>4 DEF Fits, Reads, HeadersLen
    <3> QED
      BY <3>2, <3>3, <3>4 DEF Readable
  <2>5. Good(t, n) /\ Reads(r, t, c) /\ ReadOne(r, t, c)
    BY <2>1, <2>2, <2>3, <2>4, ReadItem
  <2>6. Reads(s, t, c)
    BY <1>0, <2>2, <2>5, ReadsAfter DEF Good
  <2>7. ReadSome(s, t, c, k)
    <3>1. CASE r.error # "none" /\ t = r
      BY <2>2, <3>1 DEF ReadSome
    <3>2. CASE t.error = "connection" \/ (t.error = "message" /\ c \in t.session_ids \cap t.confirmed)
      BY <3>2 DEF ReadSome
    <3>3. CASE /\ r.error = "none" /\ t.error = "none" /\ r.state[c] # "gone" /\ t.state[c] = "open"
               /\ t.read[c] = IF r.read[c] < HeadersLen THEN r.read[c] + 1 ELSE HeadersLen
      <4>1. r.read[c] = IF s.read[c] + (k - 1) < HeadersLen THEN s.read[c] + (k - 1)
                                                            ELSE HeadersLen
        BY <2>2, <3>3 DEF ReadSome
      <4>2. s.state[c] # "gone"
        BY <2>2, <3>3 DEF Reads
      <4>3. t.read[c] = IF s.read[c] + k < HeadersLen THEN s.read[c] + k ELSE HeadersLen
        BY <1>a, <1>3, <3>3, <4>1 DEF HeadersLen
      <4> QED
        BY <1>3, <3>3, <4>2, <4>3 DEF ReadSome
    <3> QED
      BY <2>5, <3>1, <3>2, <3>3 DEF ReadOne, Reads
  <2> QED
    BY <1>0, <1>3, <2>5, <2>6, <2>7 DEF T, t
<1>4. Len(q) \in T
  <2> HIDE DEF T
  <2>1. \A i \in 0 .. Len(q) : i \in T
    BY <1>0, <1>2, <1>3, FromZero
  <2> QED
    BY <1>0, <2>1
<1> QED
  BY <1>0, <1>4 DEF J

-----------------------------------------------------------------------------
(* The whole read of a CONNECT stream.                                     *)

EndStream(s, c) == [s EXCEPT !.pending_fin = @ \cup {c}]

LEMMA EndStreamShape ==
    ASSUME NEW s \in Record, NEW c \in Sessions
    PROVE  /\ EndStream(s, c) \in Record /\ Keeps(s, EndStream(s, c), {"pending_fin"})
           /\ EndStream(s, c).pending_fin = s.pending_fin \cup {c}
<1>1. EndStream(s, c) \in Record
  BY ZenonT(60) DEF EndStream, Record
<1>2. Keeps(s, EndStream(s, c), {"pending_fin"})
  BY Fields DEF EndStream, Keeps
<1>3. EndStream(s, c).pending_fin = s.pending_fin \cup {c}
  BY Fields DEF EndStream, Names
<1> QED
  BY <1>1, <1>2, <1>3

LEMMA EndStreamGood ==
    ASSUME NEW n, NEW s, Good(s, n), NEW c \in Sessions, c \in s.session_ids, c \in s.confirmed
    PROVE  LET t == EndStream(s, c)
           IN  /\ Good(t, n) /\ Reads(s, t, c)
               /\ t.read = s.read /\ t.state = s.state /\ t.error = s.error
<1> DEFINE t == EndStream(s, c)
<1>0. s \in Record /\ ~s.out_of_place /\ ~s.mixed /\ \A z \in Sessions : Life(s, z)
  BY GoodFacts
<1>1. t \in Record /\ Keeps(s, t, {"pending_fin"}) /\ t.pending_fin = s.pending_fin \cup {c}
  BY <1>0, EndStreamShape
<1> HIDE DEF t
<1>2. /\ t.session_ids = s.session_ids /\ t.accepted = s.accepted
      /\ t.pending_headers = s.pending_headers
      /\ t.pre_accept_fin = s.pre_accept_fin /\ t.fin_accepted = s.fin_accepted
      /\ t.qpack_blocked_fin = s.qpack_blocked_fin /\ t.stale_2xx = s.stale_2xx
      /\ t.guard = s.guard /\ t.buffered = s.buffered
      /\ t.rejected = s.rejected /\ t.stream_info = s.stream_info
      /\ t.closed = s.closed /\ t.state = s.state /\ t.read = s.read
      /\ t.blocked = s.blocked /\ t.mixed = s.mixed /\ t.response = s.response
      /\ t.written = s.written /\ t.confirmed = s.confirmed /\ t.ended = s.ended
      /\ t.named = s.named /\ t.kept = s.kept
      /\ t.deleted = s.deleted /\ t.error = s.error /\ t.ready = s.ready
      /\ t.over = s.over /\ t.why = s.why /\ t.out_of_place = s.out_of_place
      /\ t.got = s.got
  BY <1>1 DEF Keeps, Names
<1>3. ASSUME NEW z \in Sessions, z # c PROVE Same(s, t, z)
  BY <1>1, <1>2, <1>3 DEF Same
<1>4. \A d \in Remote : SameStream(s, t, d)
  BY <1>2 DEF SameStream
<1>5. Life(t, c)
  <2>1. Life(s, c)
    BY <1>0
  <2> QED
    BY <1>1, <1>2, <2>1 DEF Life
<1>6. \A z \in Sessions : Life(t, z)
  BY <1>0, <1>3, <1>5, LifeSame
<1>7. ASSUME NEW d \in Remote PROVE OneStream(t, d, n[d])
  <2>1. OneStream(s, d, n[d])
    BY DEF Good
  <2> QED
    BY <1>2, <2>1 DEF OneStream, Stream, Counted, Reported, NoneKept, Could
<1>8. Good(t, n)
  BY <1>0, <1>1, <1>2, <1>6, <1>7 DEF Good
<1>9. s.read[c] \in 0 .. HeadersLen
  BY <1>0 DEF Record
<1>10. Reads(s, t, c)
  BY <1>2, <1>3, <1>4, <1>9 DEF Reads, OnlySession, HeadersLen
<1> QED
  BY <1>2, <1>8, <1>10 DEF t

LEMMA ReadFin ==
    ASSUME NEW n, NEW s, Good(s, n), NEW c \in Sessions
    PROVE  LET t == read_fin(s, c)
           IN  /\ Good(t, n) /\ Reads(s, t, c)
               /\ \/ s.error # "none" /\ t = s
                  \/ t.error = "connection"
                  \/ /\ s.error = "none" /\ t.error = "none" /\ s.state[c] # "gone"
                     /\ t.read = s.read /\ t.state = s.state /\ t.read[c] = HeadersLen
<1> DEFINE t == read_fin(s, c)
<1>0. s \in Record /\ s.read[c] \in 0 .. HeadersLen
  BY DEF Good, Record
<1>1. CASE s.error # "none"
  BY <1>0, <1>1, ReadsNone DEF read_fin
<1>2. CASE s.error = "none" /\ (s.state[c] = "gone" \/ s.read[c] < HeadersLen)
  <2>1. t = Fail(s, "connection")
    BY <1>2 DEF read_fin
  <2> HIDE DEF t
  <2>2. t \in Record /\ Keeps(s, t, {"error"}) /\ t.error = "connection"
    BY <1>0, <2>1, FailShape
  <2>3. Keeps(s, t, {"error", "capsules"})
    BY <2>2 DEF Keeps
  <2>4. Good(t, n) /\ Reads(s, t, c)
    BY <2>2, <2>3, AsideReads
  <2> QED
    BY <2>2, <2>4 DEF t
<1>3. CASE /\ s.error = "none" /\ s.state[c] # "gone" /\ ~(s.read[c] < HeadersLen)
  <2>0. s.read[c] = HeadersLen
    BY <1>0, <1>3 DEF HeadersLen
  <2>1. CASE c \in s.confirmed /\ c \in s.session_ids
    <3>1. t = EndStream(s, c)
      BY <1>3, <2>1 DEF read_fin, end_stream_cb, EndStream
    <3> HIDE DEF t
    <3> QED
      BY <1>3, <2>0, <2>1, <3>1, EndStreamGood DEF t
  <2>2. CASE ~(c \in s.confirmed /\ c \in s.session_ids)
    <3>1. t = s
      BY <1>3, <2>2 DEF read_fin, end_stream_cb
    <3> HIDE DEF t
    <3> QED
      BY <1>0, <1>3, <2>0, <3>1, ReadsNone DEF t
  <2> QED
    BY <2>1, <2>2
<1> QED
  BY <1>1, <1>2, <1>3

ReadAll(s, t, c, k, fin) ==
    \/ t.error = "connection"
    \/ t.error = "message" /\ c \in t.session_ids \cap t.confirmed
    \/ /\ t.error = "none"
       /\ t.read[c] = IF s.read[c] + k < HeadersLen THEN s.read[c] + k ELSE HeadersLen
       /\ k > 0 => s.state[c] # "gone"
       /\ fin => t.read[c] = HeadersLen /\ s.state[c] # "gone"

LEMMA ReadConnect ==
    ASSUME NEW n, NEW s, Good(s, n), s.error = "none", NEW c \in Sessions,
           NEW q \in Seq(Item), NEW fin, NEW b, Readable(s, c, q)
    PROVE  LET t == read_connect(s, c, q, fin, b)
           IN  Good(t, n) /\ Reads(s, t, c) /\ ReadAll(s, t, c, Len(q), fin)
<1> DEFINE v == TheReading(c, b, s, q)[DOMAIN q]
           t == read_connect(s, c, q, fin, b)
<1>1. Good(v, n) /\ Reads(s, v, c) /\ ReadSome(s, v, c, Len(q))
  BY ReadItems
<1>2. t = IF fin THEN read_fin(v, c) ELSE v
  BY ReadingIs, Zenon DEF read_connect
<1>0. Len(q) \in Nat /\ s.read[c] \in 0 .. HeadersLen
  BY DEF Good, Record
<1> HIDE DEF v, t
<1>3. CASE fin
  <2>1. t = read_fin(v, c)
    BY <1>2, <1>3
  <2>2. /\ Good(t, n) /\ Reads(v, t, c)
        /\ \/ v.error # "none" /\ t = v
           \/ t.error = "connection"
           \/ /\ v.error = "none" /\ t.error = "none" /\ v.state[c] # "gone"
              /\ t.read = v.read /\ t.state = v.state /\ t.read[c] = HeadersLen
    BY <1>1, <2>1, ReadFin
  <2>3. Reads(s, t, c)
    BY <1>1, <2>2, ReadsAfter DEF Good
  <2>4. ReadAll(s, t, c, Len(q), fin)
    BY <1>0, <1>1, <2>2 DEF ReadAll, ReadSome, Reads
  <2> QED
    BY <2>2, <2>3, <2>4 DEF t
<1>4. CASE ~fin
  <2>1. t = v
    BY <1>2, <1>4
  <2>2. ReadAll(s, t, c, Len(q), fin)
    BY <1>0, <1>1, <1>4, <2>1 DEF ReadAll, ReadSome
  <2> QED
    BY <1>1, <2>1, <2>2 DEF t
<1> QED
  BY <1>3, <1>4

-----------------------------------------------------------------------------
(* read_from_nghttp3 for the CONNECT stream x: k items, and the FIN if fin.*)

Taken(s, u, x, k, fin) ==
    /\ OnlySession(s, u, x)
    /\ u.confirmed = s.confirmed /\ u.error = "none"
    /\ s.closed => u.closed
    /\ x \in u.pre_accept_fin <=> x \in s.pre_accept_fin
    /\ x \in u.fin_accepted <=> x \in s.fin_accepted
    /\ x \in u.qpack_blocked_fin => x \in s.qpack_blocked_fin
    /\ u.guard[x] = s.guard[x] \/ u.guard[x] = NoGuard
    /\ s.state[x] = "gone" => u.state[x] = "gone"
    /\ \/ u.closed \/ u.state[x] = "gone"
       \/ /\ u.guard[x] = s.guard[x]
          /\ u.read[x] = IF s.read[x] + k < HeadersLen THEN s.read[x] + k ELSE HeadersLen
          /\ fin => u.read[x] = HeadersLen
          /\ s.read[x] = HeadersLen => /\ x \in u.session_ids => x \in s.session_ids
                                       /\ x \in u.blocked => x \in s.blocked
    /\ x \notin s.confirmed => u.over[x] = s.over[x]

Shut(s) == [s EXCEPT !.closed = TRUE]

LEMMA ShutShape ==
    ASSUME NEW s \in Record
    PROVE  Shut(s) \in Record /\ Keeps(s, Shut(s), {"closed"}) /\ Shut(s).closed
<1>1. Shut(s) \in Record
  BY DEF Shut, Record
<1>2. Keeps(s, Shut(s), {"closed"})
  BY Fields DEF Shut, Keeps
<1>3. Shut(s).closed
  BY Fields DEF Shut, Names
<1> QED
  BY <1>1, <1>2, <1>3

(* Keeping all that OnlySession speaks of.                                 *)
LEMMA AsideOnly ==
    ASSUME NEW s, NEW t, NEW x, Keeps(s, t, {"error", "closed", "capsules"})
    PROVE  /\ \A z \in Sessions : Same(s, t, z) /\ OnlySession(s, t, x)
           /\ t.guard = s.guard /\ t.confirmed = s.confirmed
<1>1. /\ t.session_ids = s.session_ids /\ t.accepted = s.accepted
      /\ t.pending_headers = s.pending_headers /\ t.pending_fin = s.pending_fin
      /\ t.pre_accept_fin = s.pre_accept_fin /\ t.fin_accepted = s.fin_accepted
      /\ t.qpack_blocked_fin = s.qpack_blocked_fin /\ t.stale_2xx = s.stale_2xx
      /\ t.guard = s.guard /\ t.state = s.state /\ t.read = s.read
      /\ t.blocked = s.blocked /\ t.response = s.response
      /\ t.written = s.written /\ t.confirmed = s.confirmed /\ t.ended = s.ended
      /\ t.named = s.named /\ t.deleted = s.deleted /\ t.ready = s.ready
      /\ t.over = s.over /\ t.why = s.why
  BY DEF Keeps, Names
<1> QED
  BY <1>1 DEF Same, SameStream, OnlySession

LEMMA ReadSession ==
    ASSUME NEW n, NEW s, Good(s, n), s.error = "none", NEW x \in Sessions,
           NEW q \in Seq(Item), NEW fin, Readable(s, x, q)
    PROVE  LET u == read_from_nghttp3(s, x, q, fin)
           IN  Good(u, n) /\ Taken(s, u, x, Len(q), fin)
<1> DEFINE t == read_connect(s, x, q, fin, table)
           v == Fail(t, "none")
           u == read_from_nghttp3(s, x, q, fin)
<1>0. s \in Record /\ x \notin s.rejected
  BY SessionNotStream DEF Good, Record
<1>1. Good(t, n) /\ Reads(s, t, x) /\ ReadAll(s, t, x, Len(q), fin)
  BY ReadConnect
<1>2. u = CASE t.error = "connection" -> Shut(v)
            [] t.error = "message" -> handle_wt_close_session_error(v, x)
            [] t.error = "none" /\ x \in Sessions -> t
            [] OTHER -> enforce_pre_accept_buffer_limit(t, x, t.kept[x] - s.kept[x], fin)
  BY <1>0, Zenon DEF read_from_nghttp3, Shut, Fail
<1> HIDE DEF t, u
<1>3. t \in Record /\ t.error \in {"none", "message", "connection"}
  BY <1>1 DEF Good, Record
<1>4. v \in Record /\ Keeps(t, v, {"error"}) /\ v.error = "none"
  BY <1>3, FailShape
<1> HIDE DEF v
<1>5. v.closed = t.closed /\ v.session_ids = t.session_ids /\ v.confirmed = t.confirmed
      /\ v.state = t.state /\ v.over = t.over
  BY <1>4 DEF Keeps, Names
<1>6. CASE t.error = "connection"
  <2>1. u = Shut(v)
    BY <1>2, <1>6
  <2>2. u \in Record /\ Keeps(v, u, {"closed"}) /\ u.closed
    BY <1>4, <2>1, ShutShape
  <2>3. Keeps(t, u, {"error", "closed"}) /\ u.error = "none"
    BY <1>4, <2>2 DEF Keeps, Names
  <2>4. Keeps(t, u, Aside) /\ Keeps(t, u, {"error", "closed", "capsules"})
    BY <2>3 DEF Keeps, Aside
  <2>5. Good(u, n)
    BY <1>1, <2>2, <2>4, AsideGood
  <2>6. Same(t, u, x) /\ OnlySession(t, u, x) /\ u.guard = t.guard /\ u.confirmed = t.confirmed
    BY <2>4, AsideOnly
  <2>7. OnlySession(s, u, x)
    BY <1>1, <2>6, OnlyAfter DEF Reads
  <2> QED
    BY <1>1, <2>2, <2>3, <2>5, <2>6, <2>7 DEF Taken, Reads, Same, u
<1>7. CASE t.error = "message"
  <2>1. x \in t.session_ids /\ x \in t.confirmed
    BY <1>1, <1>7 DEF ReadAll
  <2>2. u = push_reset(close_stream(v, x, "bad"), x)
    BY <1>2, <1>5, <1>7, <2>1 DEF handle_wt_close_session_error
  <2>3. Keeps(t, v, Aside) /\ Keeps(t, v, {"error", "closed", "capsules"})
    BY <1>4 DEF Keeps, Aside
  <2>4. Good(v, n)
    BY <1>1, <1>4, <2>3, AsideGood
  <2>5. Good(u, n) /\ Global(v, u) /\ OnlySession(v, u, x) /\ ClosedAt(v, u, x, "bad")
    <3> DEFINE y == close_stream(v, x, "bad")
    <3>1. Good(y, n) /\ Global(v, y) /\ OnlySession(v, y, x) /\ ClosedAt(v, y, x, "bad")
      BY <2>4, CloseOnly DEF Why
    <3> HIDE DEF y
    <3>2. push_reset(y, x) = y
      BY <1>5, <2>1, <3>1, ResetInPlace DEF Good, ClosedAt
    <3> QED
      BY <2>2, <3>1, <3>2 DEF y
  <2>6. Same(t, v, x) /\ OnlySession(t, v, x) /\ v.guard = t.guard /\ v.confirmed = t.confirmed
    BY <2>3, AsideOnly
  <2>7. OnlySession(s, u, x)
    BY <1>1, <2>5, <2>6, OnlyAfter DEF Reads
  <2>8. v.state[x] = "open"
    BY <1>5, <2>1, <2>4, GoodFacts DEF Life
  <2>9. u.state[x] = "gone" /\ u.guard[x] = NoGuard
    BY <2>5, <2>8 DEF ClosedAt
  <2>10. u.closed = s.closed /\ u.confirmed = s.confirmed /\ u.error = "none"
    BY <1>1, <1>4, <1>5, <2>5 DEF Global, Reads
  <2>11. /\ x \in u.pre_accept_fin <=> x \in s.pre_accept_fin
         /\ x \in u.fin_accepted <=> x \in s.fin_accepted
         /\ x \in u.qpack_blocked_fin => x \in s.qpack_blocked_fin
    BY <1>1, <2>5, <2>6 DEF ClosedAt, Same, Reads
  <2>12. x \in s.confirmed
    BY <1>1, <2>1 DEF Reads
  <2> QED
    BY <2>5, <2>7, <2>9, <2>10, <2>11, <2>12 DEF Taken, u
<1>8. CASE t.error = "none"
  <2>1. u = t
    BY <1>2, <1>8
  <2>2. Taken(s, t, x, Len(q), fin)
    BY <1>1, <1>8 DEF Taken, Reads, ReadAll
  <2> QED
    BY <1>1, <2>1, <2>2 DEF u
<1> QED
  BY <1>3, <1>6, <1>7, <1>8

-----------------------------------------------------------------------------
(* The state between the reads of one call.                                *)

Ending(s, f) ==
    s.closed \/
    \A c \in f \cap Sessions :
        /\ c \in s.session_ids => c \in s.pre_accept_fin \cup s.fin_accepted \/ HeldFin(s, c)
        /\ c \in s.blocked => c \in s.qpack_blocked_fin \/ HeldFin(s, c)

Mid(s, n, p, a, f) == /\ Good(s, n) /\ Guards(s, p, a, f) /\ Ending(s, f)
                      /\ FinsOnly(s, f) /\ Calm(s)

(* Before process_after_read, which is told that the FIN of x came if fin. *)
Unprocessed(s, f, x, fin) ==
    s.closed \/
    \A c \in f \cap Sessions :
        \/ fin /\ c = x
        \/ /\ c \in s.session_ids =>
                 \/ c \in s.pre_accept_fin \cup s.fin_accepted \cup s.qpack_blocked_fin
                 \/ HeldFin(s, c)
           /\ c \in s.blocked => c \in s.qpack_blocked_fin \/ HeldFin(s, c)

SameOver(s, t, z) == t.over[z] = s.over[z]

LEMMA FlushableFacts ==
    ASSUME NEW s, NEW c
    PROVE  c \in flushable(s) <=> /\ c \in Sessions /\ s.guard[c].held # <<>>
                                  /\ s.guard[c].forwarded = HeadersLen
                                  /\ c \notin s.pending_headers
BY DEF flushable

LEMMA ProcessKeeps ==
    ASSUME NEW n, NEW s, NEW p, NEW a, NEW f, NEW x, NEW fin, Good(s, n),
           Guards(s, p, a, f), Unprocessed(s, f, x, fin), FinsOnly(s, f),
           s.error = "none", fin => x \in f
    PROVE  LET t == process_after_read(s, x, fin)
           IN  /\ Mid(t, n, p, a, f)
               /\ t.confirmed = s.confirmed /\ t.closed = s.closed
               /\ flushable(t) \subseteq flushable(s)
               /\ \A z \in Sessions : z \notin s.pending_fin => SameOver(s, t, z)
<1> DEFINE t == process_after_read(s, x, fin)
<1>1. Good(t, n) /\ Processed(s, t, x, fin)
  BY ProcessAfterRead
<1> HIDE DEF t
<1>2. /\ \A z \in Sessions : Tidy(s, t, z, fin /\ z = x)
      /\ Streamwise(s, t) /\ t.closed = s.closed /\ t.error = "none"
      /\ t.confirmed = s.confirmed /\ t.pending_fin = {} /\ t.stale_2xx = {}
  BY <1>1 DEF Processed
<1>3. \A z \in Sessions : Life(t, z)
  BY <1>1, GoodFacts
<1>4. Guards(t, p, a, f)
  <2>1. CASE s.closed
    BY <1>2, <2>1 DEF Guards
  <2>2. CASE ~s.closed
    <3>1. ASSUME NEW c \in Sessions \ a, t.state[c] # "gone" PROVE Guarded(t, c, p[c])
      <4>1. Tidy(s, t, c, fin /\ c = x)
        BY <1>2
      <4>2. t.state[c] = s.state[c] /\ t.guard[c] = s.guard[c] /\ t.read[c] = s.read[c]
        BY <3>1, <4>1 DEF Tidy
      <4>3. Guarded(s, c, p[c])
        BY <2>2, <3>1, <4>2 DEF Guards
      <4> QED
        BY <4>2, <4>3 DEF Guarded
    <3>2. ASSUME NEW c \in Sessions \cap a PROVE t.guard[c].held = <<>>
      <4>1. Tidy(s, t, c, fin /\ c = x)
        BY <1>2
      <4>2. s.guard[c].held = <<>>
        BY <2>2 DEF Guards
      <4> QED
        BY <4>1, <4>2 DEF Tidy, NoGuard
    <3>3. ASSUME NEW d \in Remote \ (a \cup f), d \notin t.deleted PROVE Passed(t, d, p[d])
      <4>1. SameStream(s, t, d)
        BY <1>2 DEF Streamwise
      <4>2. Passed(s, d, p[d])
        BY <2>2, <3>3, <4>1 DEF Guards, SameStream
      <4> QED
        BY <4>1, <4>2 DEF Passed, SameStream
    <3> QED
      BY <3>1, <3>2, <3>3 DEF Guards
  <2> QED
    BY <2>1, <2>2
<1>5. Ending(t, f)
  <2>1. CASE s.closed
    BY <1>2, <2>1 DEF Ending
  <2>2. CASE ~s.closed
    <3> SUFFICES ASSUME NEW c \in f \cap Sessions
                 PROVE  /\ c \in t.session_ids =>
                              c \in t.pre_accept_fin \cup t.fin_accepted \/ HeldFin(t, c)
                        /\ c \in t.blocked => c \in t.qpack_blocked_fin \/ HeldFin(t, c)
      BY DEF Ending
    <3>1. Tidy(s, t, c, fin /\ c = x) /\ Life(t, c)
      BY <1>2, <1>3
    <3>2. \/ fin /\ c = x
          \/ /\ c \in s.session_ids =>
                   \/ c \in s.pre_accept_fin \cup s.fin_accepted \cup s.qpack_blocked_fin
                   \/ HeldFin(s, c)
             /\ c \in s.blocked => c \in s.qpack_blocked_fin \/ HeldFin(s, c)
      BY <2>2 DEF Unprocessed
    <3>3. ASSUME c \in t.session_ids \cup t.blocked
          PROVE  HeldFin(t, c) <=> HeldFin(s, c)
      <4>1. t.guard[c] = s.guard[c]
        BY <3>1, <3>3 DEF Tidy, Life
      <4> QED
        BY <4>1 DEF HeldFin
    <3>4. ASSUME c \in t.session_ids
          PROVE  c \in t.pre_accept_fin \cup t.fin_accepted \/ HeldFin(t, c)
      BY <3>1, <3>2, <3>3, <3>4 DEF Tidy
    <3>5. ASSUME c \in t.blocked PROVE c \in t.qpack_blocked_fin \/ HeldFin(t, c)
      BY <3>1, <3>2, <3>3, <3>5 DEF Tidy
    <3> QED
      BY <3>4, <3>5
  <2> QED
    BY <2>1, <2>2
<1>6. FinsOnly(t, f)
  <2>1. t \in Record
    BY <1>1 DEF Good
  <2>2. t.pre_accept_fin \cup t.fin_accepted \cup t.qpack_blocked_fin \subseteq Sessions
    BY <2>1 DEF Record
  <2>3. ASSUME NEW c \in Sessions,
               c \in t.pre_accept_fin \cup t.fin_accepted \cup t.qpack_blocked_fin
        PROVE  c \in f
    <3>1. Tidy(s, t, c, fin /\ c = x)
      BY <1>2
    <3> QED
      BY <2>3, <3>1 DEF Tidy, FinsOnly
  <2>4. ASSUME NEW c \in Sessions, t.guard[c].held_fin PROVE c \in f
    <3>1. Tidy(s, t, c, fin /\ c = x)
      BY <1>2
    <3> QED
      BY <2>4, <3>1 DEF Tidy, FinsOnly, NoGuard
  <2> QED
    BY <2>2, <2>3, <2>4 DEF FinsOnly
<1>7. flushable(t) \subseteq flushable(s)
  <2> SUFFICES ASSUME NEW c \in flushable(t) PROVE c \in flushable(s)
    OBVIOUS
  <2>1. c \in Sessions /\ t.guard[c].held # <<>> /\ t.guard[c].forwarded = HeadersLen
        /\ c \notin t.pending_headers
    BY FlushableFacts
  <2>2. Tidy(s, t, c, fin /\ c = x)
    BY <1>2, <2>1
  <2>3. t.guard[c] # NoGuard
    BY <2>1 DEF NoGuard
  <2>4. t.guard[c] = s.guard[c] /\ c \notin s.pending_headers
    BY <2>1, <2>2, <2>3 DEF Tidy
  <2> QED
    BY <2>1, <2>4, FlushableFacts
<1>8. \A z \in Sessions : z \notin s.pending_fin => SameOver(s, t, z)
  BY <1>2 DEF Tidy, SameOver
<1> QED
  BY <1>1, <1>2, <1>4, <1>5, <1>6, <1>7, <1>8 DEF Mid, Calm, t

SetGuard(s, x, g) == [s EXCEPT !.guard[x] = g]

LEMMA SetGuardShape ==
    ASSUME NEW s \in Record, NEW x \in Arriving, NEW g \in Guard
    PROVE  LET t == SetGuard(s, x, g)
           IN  /\ t \in Record /\ Keeps(s, t, {"guard"})
               /\ t.guard[x] = g /\ \A z \in Arriving : z # x => t.guard[z] = s.guard[z]
<1> DEFINE G == [s.guard EXCEPT ![x] = g]
           t == [s EXCEPT !.guard = G]
<1>0. s.guard \in [Arriving -> Guard]
  BY DEF Record
<1>1. /\ G \in [Arriving -> Guard] /\ G[x] = g
      /\ \A z \in Arriving : z # x => G[z] = s.guard[z]
  BY <1>0
<1>2. SetGuard(s, x, g) = t
  BY Fields DEF SetGuard, Names
<1> HIDE DEF G
<1>3. t \in Record
  BY <1>1 DEF Record
<1>4. Keeps(s, t, {"guard"})
  BY Fields DEF Keeps
<1>5. t.guard = G
  BY Fields DEF Names
<1> QED
  BY <1>1, <1>2, <1>3, <1>4, <1>5

(* A guard is replaced.                                                    *)
LEMMA SetGuardGood ==
    ASSUME NEW n, NEW s, Good(s, n), NEW x \in Arriving, NEW g \in Guard
    PROVE  LET t == SetGuard(s, x, g)
           IN  /\ Good(t, n) /\ Keeps(s, t, {"guard"}) /\ t.guard[x] = g
               /\ \A z \in Sessions : z # x => Same(s, t, z)
               /\ \A d \in Remote : d # x => SameStream(s, t, d)
<1> DEFINE t == SetGuard(s, x, g)
<1>1. /\ t \in Record /\ Keeps(s, t, {"guard"})
      /\ t.guard[x] = g /\ \A z \in Arriving : z # x => t.guard[z] = s.guard[z]
  BY SetGuardShape DEF Good
<1> HIDE DEF t
<1>2. Keeps(s, t, Aside)
  BY <1>1 DEF Keeps, Aside
<1>3. Good(t, n)
  BY <1>1, <1>2, AsideGood
<1>4. /\ t.session_ids = s.session_ids /\ t.accepted = s.accepted
      /\ t.pending_headers = s.pending_headers /\ t.pending_fin = s.pending_fin
      /\ t.pre_accept_fin = s.pre_accept_fin /\ t.fin_accepted = s.fin_accepted
      /\ t.qpack_blocked_fin = s.qpack_blocked_fin /\ t.stale_2xx = s.stale_2xx
      /\ t.state = s.state /\ t.read = s.read
      /\ t.blocked = s.blocked /\ t.response = s.response
      /\ t.written = s.written /\ t.confirmed = s.confirmed /\ t.ended = s.ended
      /\ t.named = s.named /\ t.deleted = s.deleted /\ t.ready = s.ready
      /\ t.over = s.over /\ t.why = s.why
  BY <1>1 DEF Keeps, Names
<1>5. \A z \in Sessions : z # x => Same(s, t, z)
  BY <1>1, <1>4 DEF Same, Arriving
<1>6. \A d \in Remote : d # x => SameStream(s, t, d)
  BY <1>1, <1>4 DEF SameStream, Arriving
<1> QED
  BY <1>1, <1>3, <1>5, <1>6 DEF t

-----------------------------------------------------------------------------
(* flush_unblocked_held_data.                                              *)

Release(g) == [g EXCEPT !.held = <<>>, !.held_fin = FALSE]

Feed(s, c) ==
    IF s.closed \/ c \notin flushable(s) THEN s
    ELSE process_after_read(
             read_from_nghttp3(SetGuard(s, c, Release(s.guard[c])), c,
                               s.guard[c].held, s.guard[c].held_fin),
             c, s.guard[c].held_fin)

LEMMA ReleaseIs ==
    ASSUME NEW g \in Guard
    PROVE  /\ Release(g) \in Guard /\ Release(g).held = <<>> /\ ~Release(g).held_fin
           /\ Release(g).prefix = g.prefix /\ Release(g).header_parsed = g.header_parsed
           /\ Release(g).is_headers = g.is_headers /\ Release(g).forwarded = g.forwarded
<1>0. DOMAIN g = {"prefix", "header_parsed", "is_headers", "forwarded", "held", "held_fin"}
  BY DEF Guard
<1>1. Release(g) \in Guard
  <2> DEFINE e == <<>>
  <2>1. e \in Seq(Item)
    OBVIOUS
  <2>2. Release(g) = [g EXCEPT !.held = e, !.held_fin = FALSE]
    BY DEF Release
  <2> HIDE DEF e
  <2> QED
    BY <2>1, <2>2 DEF Guard
<1>2. Release(g).held = <<>>
  BY <1>0 DEF Release
<1>3. ~Release(g).held_fin
  BY <1>0 DEF Release
<1>4. Release(g).prefix = g.prefix /\ Release(g).forwarded = g.forwarded
  BY <1>0 DEF Release
<1>5. Release(g).header_parsed = g.header_parsed
  BY <1>0 DEF Release
<1>6. Release(g).is_headers = g.is_headers
  BY <1>0 DEF Release
<1> QED
  BY <1>1, <1>2, <1>3, <1>4, <1>5, <1>6

LEMMA HeldReadable ==
    ASSUME NEW n, NEW s, NEW p, NEW a, NEW f, Mid(s, n, p, a, f), ~s.closed,
           NEW c \in flushable(s)
    PROVE  /\ c \in Sessions \ a /\ c \notin s.blocked
           /\ s.state[c] # "gone" => /\ s.read[c] = HeadersLen /\ s.guard[c].header_parsed
                                     /\ Guarded(s, c, p[c])
<1>1. /\ c \in Sessions /\ s.guard[c].held # <<>> /\ s.guard[c].forwarded = HeadersLen
      /\ c \notin s.pending_headers
  BY FlushableFacts
<1>2. Life(s, c)
  BY <1>1, GoodFacts DEF Mid
<1>3. c \notin s.blocked
  BY <1>1, <1>2 DEF Life
<1>4. c \notin a
  BY <1>1 DEF Mid, Guards
<1>5. ASSUME s.state[c] # "gone"
      PROVE  s.read[c] = HeadersLen /\ s.guard[c].header_parsed /\ Guarded(s, c, p[c])
  <2>1. Guarded(s, c, p[c])
    BY <1>1, <1>4, <1>5 DEF Mid, Guards
  <2> QED
    BY <1>1, <2>1 DEF Guarded
<1> QED
  BY <1>1, <1>3, <1>4, <1>5

LEMMA FeedKeeps ==
    ASSUME NEW n, NEW s, NEW p, NEW a, NEW f, Mid(s, n, p, a, f), NEW c \in Sessions
    PROVE  LET t == Feed(s, c)
           IN  /\ Mid(t, n, p, a, f)
               /\ t.confirmed = s.confirmed /\ (s.closed => t.closed)
               /\ t.closed \/ flushable(t) \subseteq flushable(s) \ {c}
               /\ \A z \in Sessions : z # c \/ z \notin s.confirmed => SameOver(s, t, z)
<1> DEFINE g == s.guard[c]
           u == SetGuard(s, c, Release(g))
           v == read_from_nghttp3(u, c, g.held, g.held_fin)
           t == process_after_read(v, c, g.held_fin)
<1>0. Good(s, n) /\ s \in Record /\ c \in Arriving /\ g \in Guard /\ s.error = "none"
      /\ s.pending_fin = {}
  BY DEF Mid, Good, Record, Arriving, Calm
<1>1. CASE s.closed \/ c \notin flushable(s)
  <2>1. Feed(s, c) = s
    BY <1>1 DEF Feed
  <2>2. \A z \in Sessions : SameOver(s, s, z)
    BY DEF SameOver
  <2> QED
    BY <1>1, <2>1, <2>2
<1>2. CASE ~s.closed /\ c \in flushable(s)
  <2>1. Feed(s, c) = t
    BY <1>2 DEF Feed
  <2>2. /\ c \notin a /\ c \notin s.blocked
        /\ s.state[c] # "gone" => /\ s.read[c] = HeadersLen /\ g.header_parsed
                                  /\ Guarded(s, c, p[c])
    BY <1>2, HeldReadable
  <2>3. g.held \in Seq(Item) /\ g.held # <<>> /\ g.held_fin \in BOOLEAN
        /\ Len(g.held) \in Nat
    BY <1>0, <1>2, FlushableFacts DEF Guard
  <2>4. /\ Good(u, n) /\ Keeps(s, u, {"guard"}) /\ u.guard[c] = Release(g)
        /\ \A z \in Sessions : z # c => Same(s, u, z)
        /\ \A d \in Remote : d # c => SameStream(s, u, d)
    BY <1>0, SetGuardGood, ReleaseIs
  <2> HIDE DEF u
  <2>5. /\ u.state = s.state /\ u.read = s.read /\ u.blocked = s.blocked
        /\ u.error = "none" /\ u.closed = s.closed /\ u.confirmed = s.confirmed
        /\ u.pre_accept_fin = s.pre_accept_fin /\ u.fin_accepted = s.fin_accepted
        /\ u.qpack_blocked_fin = s.qpack_blocked_fin /\ u.session_ids = s.session_ids
        /\ u.over = s.over /\ u.pending_fin = {} /\ u.pending_headers = s.pending_headers
    BY <1>0, <2>4 DEF Keeps, Names
  <2>6. Readable(u, c, g.held)
    BY <2>2, <2>5 DEF Readable
  <2>7. Good(v, n) /\ Taken(u, v, c, Len(g.held), g.held_fin)
    BY <2>3, <2>4, <2>5, <2>6, ReadSession
  <2> HIDE DEF v, g
  <2>8. /\ Release(g).held = <<>> /\ ~Release(g).held_fin /\ Release(g).prefix = g.prefix
        /\ Release(g).header_parsed = g.header_parsed
        /\ Release(g).is_headers = g.is_headers /\ Release(g).forwarded = g.forwarded
    BY <1>0, ReleaseIs
  <2>9. /\ \A z \in Sessions : z # c => Same(s, v, z)
        /\ \A d \in Remote : SameStream(s, v, d)
    <3>1. \A z \in Sessions : z # c => Same(s, v, z)
      BY <2>4, <2>7, SameAfter DEF Taken, OnlySession
    <3>2. \A d \in Remote : SameStream(s, u, d)
      BY <2>4, SessionNotStream
    <3> QED
      BY <2>7, <3>1, <3>2 DEF Taken, OnlySession, SameStream
  <2>10. \A z \in Sessions : Life(v, z)
    BY <2>7, GoodFacts
  <2>11. v.guard[c] = Release(g) \/ v.guard[c] = NoGuard
    BY <2>4, <2>7 DEF Taken
  <2>12. v.guard[c].held = <<>> /\ ~v.guard[c].held_fin
    BY <2>8, <2>11 DEF NoGuard
  <2>13. Guards(v, p, a, f)
    <3> SUFFICES ASSUME ~v.closed PROVE Guards(v, p, a, f)
      BY DEF Guards
    <3>1. ASSUME NEW z \in Sessions \ a, v.state[z] # "gone" PROVE Guarded(v, z, p[z])
      <4>1. CASE z # c
        <5>1. Same(s, v, z)
          BY <2>9, <4>1
        <5>2. Guarded(s, z, p[z])
          BY <1>2, <3>1, <5>1 DEF Mid, Guards, Same
        <5> QED
          BY <5>1, <5>2 DEF Guarded, Same
      <4>2. CASE z = c
        <5>1. s.state[c] # "gone"
          BY <2>5, <2>7, <3>1, <4>2 DEF Taken
        <5>2. s.read[c] = HeadersLen /\ g.header_parsed /\ Guarded(s, c, p[c])
          BY <2>2, <5>1 DEF g
        <5>3. /\ v.guard[c] = Release(g)
              /\ v.read[c] = IF s.read[c] + Len(g.held) < HeadersLen
                             THEN s.read[c] + Len(g.held) ELSE HeadersLen
          BY <2>4, <2>5, <2>7, <3>1, <4>2 DEF Taken
        <5>4. v.read[c] = HeadersLen
          BY <2>3, <5>2, <5>3 DEF g, HeadersLen
        <5>5. g.is_headers /\ g.prefix = <<>> /\ g.forwarded = HeadersLen
          BY <5>2 DEF Guarded, g
        <5>a. v.guard[c].header_parsed /\ v.guard[c].is_headers
          BY <2>8, <5>2, <5>3, <5>5
        <5>b. v.guard[c].prefix = <<>> /\ v.guard[c].forwarded = v.read[c]
          BY <2>8, <5>3, <5>4, <5>5
        <5>6. v.guard[c].header_parsed /\ v.guard[c].is_headers /\ v.guard[c].prefix = <<>>
              /\ v.guard[c].forwarded = v.read[c] /\ ~(v.read[c] < HeadersLen)
          BY <5>4, <5>a, <5>b DEF HeadersLen
        <5> QED
          BY <4>2, <5>6 DEF Guarded
      <4> QED
        BY <4>1, <4>2
    <3>2. ASSUME NEW z \in Sessions \cap a PROVE v.guard[z].held = <<>>
      BY <1>2, <2>2, <2>9 DEF Mid, Guards, Same
    <3>3. ASSUME NEW d \in Remote \ (a \cup f), d \notin v.deleted PROVE Passed(v, d, p[d])
      <4>1. SameStream(s, v, d)
        BY <2>9
      <4>2. Passed(s, d, p[d])
        BY <1>2, <3>3, <4>1 DEF Mid, Guards, SameStream
      <4> QED
        BY <4>1, <4>2 DEF Passed, SameStream
    <3> QED
      BY <3>1, <3>2, <3>3 DEF Guards
  <2>14. Unprocessed(v, f, c, g.held_fin)
    <3> SUFFICES ASSUME ~v.closed, NEW z \in f \cap Sessions, ~(g.held_fin /\ z = c)
                 PROVE  /\ z \in v.session_ids =>
                             \/ z \in v.pre_accept_fin \cup v.fin_accepted \cup v.qpack_blocked_fin
                             \/ HeldFin(v, z)
                        /\ z \in v.blocked => z \in v.qpack_blocked_fin \/ HeldFin(v, z)
      BY DEF Unprocessed
    <3>0. /\ z \in s.session_ids => z \in s.pre_accept_fin \cup s.fin_accepted \/ HeldFin(s, z)
          /\ z \in s.blocked => z \in s.qpack_blocked_fin \/ HeldFin(s, z)
      BY <1>2 DEF Mid, Ending
    <3>1. CASE z # c
      <4>1. Same(s, v, z)
        BY <2>9, <3>1
      <4>2. HeldFin(s, z) <=> HeldFin(v, z)
        BY <4>1 DEF HeldFin, Same
      <4> QED
        BY <3>0, <4>1, <4>2 DEF Same
    <3>2. CASE z = c
      <4>1. ~HeldFin(s, c)
        BY <3>2 DEF HeldFin, g
      <4>2. CASE v.state[c] = "gone"
        BY <2>10, <3>2, <4>2 DEF Life
      <4>3. CASE v.state[c] # "gone"
        <5>1. s.state[c] # "gone"
          BY <2>5, <2>7, <4>3 DEF Taken
        <5>2. s.read[c] = HeadersLen
          BY <2>2, <5>1
        <5>3. c \in v.session_ids => c \in s.session_ids
          BY <2>5, <2>7, <4>3, <5>2 DEF Taken
        <5>4. c \notin v.blocked
          BY <2>2, <2>5, <2>7, <4>3, <5>2 DEF Taken
        <5>5. /\ c \in v.pre_accept_fin <=> c \in s.pre_accept_fin
              /\ c \in v.fin_accepted <=> c \in s.fin_accepted
          BY <2>5, <2>7 DEF Taken
        <5> QED
          BY <3>0, <3>2, <4>1, <5>3, <5>4, <5>5
      <4> QED
        BY <4>2, <4>3
    <3> QED
      BY <3>1, <3>2
  <2>15. FinsOnly(v, f)
    <3>0. FinsOnly(s, f)
      BY DEF Mid
    <3>1. v.pre_accept_fin \cup v.fin_accepted \cup v.qpack_blocked_fin \subseteq Sessions
      BY <2>7 DEF Good, Record
    <3>2. ASSUME NEW z \in Sessions,
                 z \in v.pre_accept_fin \cup v.fin_accepted \cup v.qpack_blocked_fin
          PROVE  z \in f
      BY <2>5, <2>7, <2>9, <3>0, <3>2 DEF FinsOnly, Same, Taken
    <3>3. ASSUME NEW z \in Sessions, v.guard[z].held_fin PROVE z \in f
      BY <2>9, <2>12, <3>0, <3>3 DEF FinsOnly, Same
    <3> QED
      BY <3>1, <3>2, <3>3 DEF FinsOnly
  <2>16. g.held_fin => c \in f
    BY DEF Mid, FinsOnly, g
  <2>17. v.error = "none" /\ v.confirmed = s.confirmed
    BY <2>5, <2>7 DEF Taken
  <2>18. /\ Mid(t, n, p, a, f) /\ t.confirmed = v.confirmed /\ t.closed = v.closed
         /\ flushable(t) \subseteq flushable(v)
         /\ \A z \in Sessions : z \notin v.pending_fin => SameOver(v, t, z)
    <3> DEFINE b == g.held_fin
    <3>1. Unprocessed(v, f, c, b) /\ (b => c \in f)
      BY <2>14, <2>16
    <3>2. t = process_after_read(v, c, b)
      BY DEF t
    <3> HIDE DEF b, t
    <3> QED
      BY <2>7, <2>13, <2>15, <2>17, <3>1, <3>2, ProcessKeeps
  <2> HIDE DEF t
  <2>19. flushable(v) \subseteq flushable(s) \ {c}
    <3> SUFFICES ASSUME NEW z \in flushable(v) PROVE z \in flushable(s) /\ z # c
      OBVIOUS
    <3>1. /\ z \in Sessions /\ v.guard[z].held # <<>> /\ v.guard[z].forwarded = HeadersLen
          /\ z \notin v.pending_headers
      BY FlushableFacts
    <3>2. z # c
      BY <2>12, <3>1
    <3>3. Same(s, v, z)
      BY <2>9, <3>1, <3>2
    <3> QED
      BY <3>1, <3>2, <3>3, FlushableFacts DEF Same
  <2>20. ASSUME NEW z \in Sessions, z # c \/ z \notin s.confirmed PROVE SameOver(s, t, z)
    <3>1. CASE z # c
      BY <1>0, <2>9, <2>18, <3>1 DEF SameOver, Same
    <3>2. CASE z = c /\ c \notin s.confirmed
      <4>1. v.over[c] = s.over[c]
        BY <2>5, <2>7, <3>2 DEF Taken
      <4>2. c \notin v.pending_fin
        BY <2>10, <2>17, <3>2 DEF Life
      <4> QED
        BY <2>18, <3>2, <4>1, <4>2 DEF SameOver
    <3> QED
      BY <2>20, <3>1, <3>2
  <2> QED
    BY <1>2, <2>1, <2>17, <2>18, <2>19, <2>20 DEF t
<1> QED
  BY <1>1, <1>2

-----------------------------------------------------------------------------
(* Three more folds: of flush_unblocked_held_data, of the encoder stream   *)
(* that unblocks field sections, and of the data kept until acceptance.    *)

Unblocked(s, c) == [s EXCEPT !.blocked = @ \ {c}]

Unblock(s, c) == end_headers_cb(Unblocked(s, c), c)

Emptied(s, d) == [s EXCEPT !.kept[d] = 0]

Hand(s, d) == recv_wt_data_cb(Emptied(s, d), d, s.kept[d])

TheFeeding(b, S) ==
    CHOOSE I : I = [z \in SUBSET S |->
        IF z = {} THEN b ELSE Feed(I[z \ {Pick(z)}], Pick(z))]

LEMMA FeedingSteps ==
    ASSUME NEW b, NEW S, IsFiniteSet(S), NEW R, b \in R,
           \A x \in S, r \in R : Feed(r, x) \in R
    PROVE  LET J == TheFeeding(b, S)
           IN  /\ \A z \in SUBSET S : J[z] \in R
               /\ J[{}] = b
               /\ \A z \in SUBSET S : z # {} =>
                     J[z] = Feed(J[z \ {Pick(z)}], Pick(z))
<1> DEFINE F == [x \in S |-> [r \in R |-> Feed(r, x)]]
           J == TheFeeding(b, S)
<1>1. \A x \in S, r \in R : F[x][r] \in R /\ F[x][r] = Feed(r, x)
  OBVIOUS
<1> HIDE DEF F, J
<1>2. PICK I \in [SUBSET S -> R] : Picked(F, b, S, R, I)
  BY <1>1, PickTyped
<1>3. I = [z \in SUBSET S |->
            IF z = {} THEN b ELSE Feed(I[z \ {Pick(z)}], Pick(z))]
  <2>1. ASSUME NEW z \in SUBSET S, z # {}
        PROVE  I[z] = Feed(I[z \ {Pick(z)}], Pick(z))
    BY <1>1, <1>2, <2>1 DEF Picked
  <2> QED
    BY <1>2, <2>1 DEF Picked
<1>4. J = [z \in SUBSET S |->
            IF z = {} THEN b ELSE Feed(J[z \ {Pick(z)}], Pick(z))]
  BY <1>3, Zenon DEF J, TheFeeding
<1>5. /\ J[{}] = b
      /\ \A z \in SUBSET S : z # {} =>
            J[z] = Feed(J[z \ {Pick(z)}], Pick(z))
  <2>1. {} \in SUBSET S
    OBVIOUS
  <2>2. \A z \in SUBSET S : J[z] =
          IF z = {} THEN b ELSE Feed(J[z \ {Pick(z)}], Pick(z))
    BY <1>4
  <2> QED
    BY <2>1, <2>2
<1>6. ASSUME NEW z \in SUBSET S, z # {}, J[z \ {Pick(z)}] \in R PROVE J[z] \in R
  <2>1. Pick(z) \in S
    BY <1>6, PickingIs
  <2> QED
    BY <1>5, <1>6, <2>1
<1>7. \A z \in SUBSET S : J[z] \in R
  BY <1>5, <1>6, PickStays
<1> QED
  BY <1>5, <1>7 DEF J

TheUnblocking(b, S) ==
    CHOOSE I : I = [z \in SUBSET S |->
        IF z = {} THEN b ELSE Unblock(I[z \ {Pick(z)}], Pick(z))]

LEMMA UnblockingSteps ==
    ASSUME NEW b, NEW S, IsFiniteSet(S), NEW R, b \in R,
           \A x \in S, r \in R : Unblock(r, x) \in R
    PROVE  LET J == TheUnblocking(b, S)
           IN  /\ \A z \in SUBSET S : J[z] \in R
               /\ J[{}] = b
               /\ \A z \in SUBSET S : z # {} =>
                     J[z] = Unblock(J[z \ {Pick(z)}], Pick(z))
<1> DEFINE F == [x \in S |-> [r \in R |-> Unblock(r, x)]]
           J == TheUnblocking(b, S)
<1>1. \A x \in S, r \in R : F[x][r] \in R /\ F[x][r] = Unblock(r, x)
  OBVIOUS
<1> HIDE DEF F, J
<1>2. PICK I \in [SUBSET S -> R] : Picked(F, b, S, R, I)
  BY <1>1, PickTyped
<1>3. I = [z \in SUBSET S |->
            IF z = {} THEN b ELSE Unblock(I[z \ {Pick(z)}], Pick(z))]
  <2>1. ASSUME NEW z \in SUBSET S, z # {}
        PROVE  I[z] = Unblock(I[z \ {Pick(z)}], Pick(z))
    BY <1>1, <1>2, <2>1 DEF Picked
  <2> QED
    BY <1>2, <2>1 DEF Picked
<1>4. J = [z \in SUBSET S |->
            IF z = {} THEN b ELSE Unblock(J[z \ {Pick(z)}], Pick(z))]
  BY <1>3, Zenon DEF J, TheUnblocking
<1>5. /\ J[{}] = b
      /\ \A z \in SUBSET S : z # {} =>
            J[z] = Unblock(J[z \ {Pick(z)}], Pick(z))
  <2>1. {} \in SUBSET S
    OBVIOUS
  <2>2. \A z \in SUBSET S : J[z] =
          IF z = {} THEN b ELSE Unblock(J[z \ {Pick(z)}], Pick(z))
    BY <1>4
  <2> QED
    BY <2>1, <2>2
<1>6. ASSUME NEW z \in SUBSET S, z # {}, J[z \ {Pick(z)}] \in R PROVE J[z] \in R
  <2>1. Pick(z) \in S
    BY <1>6, PickingIs
  <2> QED
    BY <1>5, <1>6, <2>1
<1>7. \A z \in SUBSET S : J[z] \in R
  BY <1>5, <1>6, PickStays
<1> QED
  BY <1>5, <1>7 DEF J

TheHanding(b, S) ==
    CHOOSE I : I = [z \in SUBSET S |->
        IF z = {} THEN b ELSE Hand(I[z \ {Pick(z)}], Pick(z))]

LEMMA HandingSteps ==
    ASSUME NEW b, NEW S, IsFiniteSet(S), NEW R, b \in R,
           \A x \in S, r \in R : Hand(r, x) \in R
    PROVE  LET J == TheHanding(b, S)
           IN  /\ \A z \in SUBSET S : J[z] \in R
               /\ J[{}] = b
               /\ \A z \in SUBSET S : z # {} =>
                     J[z] = Hand(J[z \ {Pick(z)}], Pick(z))
<1> DEFINE F == [x \in S |-> [r \in R |-> Hand(r, x)]]
           J == TheHanding(b, S)
<1>1. \A x \in S, r \in R : F[x][r] \in R /\ F[x][r] = Hand(r, x)
  OBVIOUS
<1> HIDE DEF F, J
<1>2. PICK I \in [SUBSET S -> R] : Picked(F, b, S, R, I)
  BY <1>1, PickTyped
<1>3. I = [z \in SUBSET S |->
            IF z = {} THEN b ELSE Hand(I[z \ {Pick(z)}], Pick(z))]
  <2>1. ASSUME NEW z \in SUBSET S, z # {}
        PROVE  I[z] = Hand(I[z \ {Pick(z)}], Pick(z))
    BY <1>1, <1>2, <2>1 DEF Picked
  <2> QED
    BY <1>2, <2>1 DEF Picked
<1>4. J = [z \in SUBSET S |->
            IF z = {} THEN b ELSE Hand(J[z \ {Pick(z)}], Pick(z))]
  BY <1>3, Zenon DEF J, TheHanding
<1>5. /\ J[{}] = b
      /\ \A z \in SUBSET S : z # {} =>
            J[z] = Hand(J[z \ {Pick(z)}], Pick(z))
  <2>1. {} \in SUBSET S
    OBVIOUS
  <2>2. \A z \in SUBSET S : J[z] =
          IF z = {} THEN b ELSE Hand(J[z \ {Pick(z)}], Pick(z))
    BY <1>4
  <2> QED
    BY <2>1, <2>2
<1>6. ASSUME NEW z \in SUBSET S, z # {}, J[z \ {Pick(z)}] \in R PROVE J[z] \in R
  <2>1. Pick(z) \in S
    BY <1>6, PickingIs
  <2> QED
    BY <1>5, <1>6, <2>1
<1>7. \A z \in SUBSET S : J[z] \in R
  BY <1>5, <1>6, PickStays
<1> QED
  BY <1>5, <1>7 DEF J

LEMMA FlushIs ==
    ASSUME NEW s
    PROVE  flush_unblocked_held_data(s) = TheFeeding(s, flushable(s))[flushable(s)]
BY Zenon DEF flush_unblocked_held_data, FoldSet, MapThenFoldSet, TheFeeding, Pick, Feed,
             SetGuard, Release

LEMMA TableIs ==
    DeliverTable =>
        h' = flush_unblocked_held_data(process_after_read(
                 TheUnblocking(h, h.blocked)[h.blocked], "encoder", FALSE))
BY Zenon DEF DeliverTable, FoldSet, MapThenFoldSet, TheUnblocking, Pick, Unblock, Unblocked

LEMMA ConfirmIs ==
    ASSUME NEW s, NEW c
    PROVE  LET b == [s EXCEPT !.confirmed = @ \cup {c}, !.capsules[c] = <<>>]
               t == TheTaking(c, b, s.capsules[c])[DOMAIN s.capsules[c]]
               Z == {d \in Remote : SessionOf[d] = c /\ t.kept[d] > 0}
           IN  confirm_wt_session(s, c) =
                  IF t.error # "none" THEN t ELSE TheHanding(t, Z)[Z]
BY Zenon DEF confirm_wt_session, FoldLeft, FoldSet, MapThenFoldSet, TheTaking, TheHanding,
             Pick, Hand, Emptied, Take

LEMMA FlushKeeps ==
    ASSUME NEW n, NEW s, NEW p, NEW a, NEW f, Mid(s, n, p, a, f)
    PROVE  LET t == flush_unblocked_held_data(s)
           IN  /\ Mid(t, n, p, a, f) /\ Fed(t) /\ t.confirmed = s.confirmed
               /\ \A z \in Sessions : z \notin flushable(s) \/ z \notin s.confirmed =>
                     SameOver(s, t, z)
<1> DEFINE Z == flushable(s)
           R == {r \in Record : /\ Mid(r, n, p, a, f) /\ r.confirmed = s.confirmed
                                /\ \A z \in Sessions : z \notin Z \/ z \notin s.confirmed =>
                                      SameOver(s, r, z)}
           J == TheFeeding(s, Z)
<1>0. Z \in SUBSET Sessions /\ IsFiniteSet(Z)
  <2>1. Z \in SUBSET Sessions
    BY DEF flushable
  <2> QED
    BY <2>1, SessionAssumption, FS_Subset
<1> HIDE DEF Z
<1>1. s \in R
  BY DEF Mid, Good, SameOver
<1>2. ASSUME NEW c \in Z, NEW r \in R
      PROVE  LET t == Feed(r, c)
             IN  /\ t \in R /\ (r.closed => t.closed)
                 /\ t.closed \/ flushable(t) \subseteq flushable(r) \ {c}
  <2> DEFINE t == Feed(r, c)
  <2>0. c \in Sessions /\ Mid(r, n, p, a, f) /\ r.confirmed = s.confirmed
    BY <1>0, <1>2
  <2>1. /\ Mid(t, n, p, a, f)
        /\ t.confirmed = r.confirmed /\ (r.closed => t.closed)
        /\ t.closed \/ flushable(t) \subseteq flushable(r) \ {c}
        /\ \A z \in Sessions : z # c \/ z \notin r.confirmed => SameOver(r, t, z)
    BY <2>0, FeedKeeps
  <2> HIDE DEF t
  <2>2. t \in Record
    BY <2>1 DEF Mid, Good
  <2>3. ASSUME NEW z \in Sessions, z \notin Z \/ z \notin s.confirmed PROVE SameOver(s, t, z)
    <3>1. SameOver(s, r, z) /\ SameOver(r, t, z)
      BY <1>2, <2>0, <2>1, <2>3
    <3> QED
      BY <3>1 DEF SameOver
  <2> QED
    BY <2>0, <2>1, <2>2, <2>3 DEF t
<1> HIDE DEF R
<1>3. /\ \A z \in SUBSET Z : J[z] \in R
      /\ J[{}] = s
      /\ \A z \in SUBSET Z : z # {} => J[z] = Feed(J[z \ {Pick(z)}], Pick(z))
  <2>1. \A c \in Z, r \in R : Feed(r, c) \in R
    BY <1>2
  <2> QED
    BY <1>0, <1>1, <2>1, FeedingSteps
<1> HIDE DEF J
<1> DEFINE G == {z \in SUBSET Z : J[z].closed \/ flushable(J[z]) \subseteq Z \ z}
<1>4. {} \in G
  BY <1>3 DEF Z
<1>5. ASSUME NEW z \in SUBSET Z, z # {}, z \ {Pick(z)} \in G PROVE z \in G
  <2> DEFINE k == Pick(z)
             r == J[z \ {k}]
             t == Feed(r, k)
  <2>1. k \in z /\ k \in Z /\ z \ {k} \in SUBSET Z
    BY <1>5, PickingIs
  <2>2. J[z] = t /\ r \in R
    BY <1>3, <1>5, <2>1
  <2>3. (r.closed => t.closed) /\ (t.closed \/ flushable(t) \subseteq flushable(r) \ {k})
    BY <1>2, <2>1, <2>2
  <2>4. r.closed \/ flushable(r) \subseteq Z \ (z \ {k})
    BY <1>5
  <2> HIDE DEF k, r, t
  <2>5. t.closed \/ flushable(t) \subseteq Z \ z
    BY <2>3, <2>4
  <2> QED
    BY <2>2, <2>5
<1>6. Z \in G
  <2> HIDE DEF G
  <2>1. \A z \in SUBSET Z : z \in G
    BY <1>0, <1>4, <1>5, SubsetInduction
  <2> QED
    BY <2>1
<1>7. flush_unblocked_held_data(s) = J[Z]
  BY FlushIs DEF J, Z
<1>8. J[Z] \in R
  BY <1>3
<1>9. Fed(J[Z])
  BY <1>6 DEF Fed
<1> QED
  BY <1>7, <1>8, <1>9 DEF R, Z

(* Once nothing held can be fed, no FIN waits behind held data but those   *)
(* of blocked requests.                                                    *)
LEMMA FedEnds ==
    ASSUME NEW n, NEW s, NEW p, NEW a, NEW f, Mid(s, n, p, a, f), Fed(s)
    PROVE  Ends(s, f)
<1> SUFFICES ASSUME ~s.closed, NEW c \in f \cap Sessions
             PROVE  /\ c \in s.session_ids => c \in s.pre_accept_fin \cup s.fin_accepted
                    /\ c \in s.blocked => c \in s.qpack_blocked_fin \/ HeldFin(s, c)
  BY DEF Ends
<1>1. /\ c \in s.session_ids => c \in s.pre_accept_fin \cup s.fin_accepted \/ HeldFin(s, c)
      /\ c \in s.blocked => c \in s.qpack_blocked_fin \/ HeldFin(s, c)
  BY DEF Mid, Ending
<1>2. ASSUME c \in s.session_ids, HeldFin(s, c) PROVE FALSE
  <2>1. Life(s, c)
    BY GoodFacts DEF Mid
  <2>2. c \notin s.pending_headers
    BY <1>2, <2>1 DEF Life
  <2>3. c \in flushable(s)
    BY <1>2, <2>2, FlushableFacts DEF HeldFin
  <2> QED
    BY <2>3 DEF Fed
<1> QED
  BY <1>1, <1>2

-----------------------------------------------------------------------------
(* Data streams.                                                           *)

Active(s, c) == c \in s.session_ids /\ c \notin s.pre_accept_fin /\ c \notin s.fin_accepted

LEMMA RecvShape ==
    ASSUME NEW s \in Record, NEW d \in Remote, NEW k \in Nat
    PROVE  LET t == recv_wt_data_cb(s, d, k)
               c == SessionOf[d]
           IN  /\ t \in Record
               /\ Keeps(s, t, {"stream_info", "got", "out_of_place"})
               /\ Active(s, c) => /\ t.got = [s.got EXCEPT ![d] = @ + k]
                                  /\ t.stream_info = s.stream_info \cup {d}
                                  /\ t.out_of_place = Misplaced(s, c)
               /\ ~Active(s, c) => t = s
<1> DEFINE c == SessionOf[d]
           t == recv_wt_data_cb(s, d, k)
           r == push_event(s, c)
           g == [s.got EXCEPT ![d] = @ + k]
           i == s.stream_info \cup {d}
           w == [r EXCEPT !.stream_info = i, !.got = g]
<1>0. c \in Sessions /\ d \in Streams
  BY SessionOfStream DEF Streams
<1>1. is_active_session(s, c) <=> Active(s, c)
  BY DEF is_active_session, Active
<1>2. CASE ~Active(s, c)
  <2>1. t = s
    BY <1>1, <1>2, Zenon DEF recv_wt_data_cb
  <2> HIDE DEF t
  <2> QED
    BY <1>2, <2>1 DEF Keeps, t
<1>3. CASE Active(s, c)
  <2>1. r \in Record /\ Keeps(s, r, {"out_of_place"}) /\ r.out_of_place = Misplaced(s, c)
    BY <1>0, PushEventShape
  <2>2. r.got = s.got /\ r.stream_info = s.stream_info
    BY <2>1 DEF Keeps, Names
  <2>3. t = [r EXCEPT !.stream_info = @ \cup {d}, !.got[d] = @ + k]
    BY <1>1, <1>3, Zenon DEF recv_wt_data_cb
  <2> HIDE DEF r
  <2>4. t = w
    BY <2>1, <2>2, <2>3, Fields DEF Names
  <2>5. g \in [Remote -> Nat] /\ i \in SUBSET Streams
    BY <1>0 DEF Record
  <2> HIDE DEF g, i
  <2>6. w \in Record
    BY <2>1, <2>5 DEF Record
  <2>7. Keeps(r, w, {"stream_info", "got"})
    BY <2>1, Fields DEF Keeps
  <2>8. w.got = g /\ w.stream_info = i
    BY <2>1, Fields DEF Names
  <2> HIDE DEF w, t
  <2>9. Keeps(s, w, {"stream_info", "got", "out_of_place"}) /\ w.out_of_place = r.out_of_place
    BY <2>1, <2>7 DEF Keeps, Names
  <2> QED
    BY <1>3, <2>1, <2>2, <2>4, <2>6, <2>8, <2>9 DEF t, g, i
<1> QED
  BY <1>2, <1>3

Entitle(s, d, b) == [s EXCEPT !.named = IF b THEN @ \cup {d} ELSE @]
Hold(s, d, k) == [s EXCEPT !.kept[d] = @ + k]
Count(s, d, k) == [s EXCEPT !.buffered[d] = @ + k]

LEMMA EntitleShape ==
    ASSUME NEW s \in Record, NEW d \in Remote, NEW b
    PROVE  LET t == Entitle(s, d, b)
           IN  /\ t \in Record /\ Keeps(s, t, {"named"})
               /\ t.named = IF b THEN s.named \cup {d} ELSE s.named
<1> DEFINE m == IF b THEN s.named \cup {d} ELSE s.named
<1>0. m \in SUBSET Remote
  BY DEF Record
<1>1. Entitle(s, d, b) = [s EXCEPT !.named = m]
  BY DEF Entitle
<1> HIDE DEF m
<1>2. [s EXCEPT !.named = m] \in Record
  BY <1>0 DEF Record
<1>3. Keeps(s, [s EXCEPT !.named = m], {"named"})
  BY Fields DEF Keeps
<1>4. [s EXCEPT !.named = m].named = m
  BY Fields DEF Names
<1> QED
  BY <1>1, <1>2, <1>3, <1>4 DEF m

LEMMA HoldShape ==
    ASSUME NEW s \in Record, NEW d \in Remote, NEW k \in Nat
    PROVE  LET t == Hold(s, d, k)
           IN  /\ t \in Record /\ Keeps(s, t, {"kept"})
               /\ t.kept = [s.kept EXCEPT ![d] = @ + k]
<1> DEFINE m == [s.kept EXCEPT ![d] = @ + k]
<1>0. m \in [Remote -> Nat]
  BY DEF Record
<1>1. Hold(s, d, k) = [s EXCEPT !.kept = m]
  BY Fields DEF Hold, Names
<1> HIDE DEF m
<1>2. [s EXCEPT !.kept = m] \in Record
  BY <1>0 DEF Record
<1>3. Keeps(s, [s EXCEPT !.kept = m], {"kept"})
  BY Fields DEF Keeps
<1>4. [s EXCEPT !.kept = m].kept = m
  BY Fields DEF Names
<1> QED
  BY <1>1, <1>2, <1>3, <1>4 DEF m

LEMMA CountShape ==
    ASSUME NEW s \in Record, NEW d \in Remote, NEW k \in Nat
    PROVE  LET t == Count(s, d, k)
           IN  /\ t \in Record /\ Keeps(s, t, {"buffered"})
               /\ t.buffered = [s.buffered EXCEPT ![d] = @ + k]
<1> DEFINE m == [s.buffered EXCEPT ![d] = @ + k]
<1>0. m \in [Remote -> Nat]
  BY DEF Record
<1>1. Count(s, d, k) = [s EXCEPT !.buffered = m]
  BY Fields DEF Count, Names
<1> HIDE DEF m
<1>2. [s EXCEPT !.buffered = m] \in Record
  BY <1>0 DEF Record
<1>3. Keeps(s, [s EXCEPT !.buffered = m], {"buffered"})
  BY Fields DEF Keeps
<1>4. [s EXCEPT !.buffered = m].buffered = m
  BY Fields DEF Names
<1> QED
  BY <1>1, <1>2, <1>3, <1>4 DEF m

(* The stream is given up for what it has sent too early.                  *)
Unlist(s, d, fin) == [forget_pre_accept_stream(s, d) EXCEPT
                         !.rejected = IF fin THEN @ ELSE @ \cup {d}]

LEMMA UnlistShape ==
    ASSUME NEW s \in Record, NEW d \in Remote, NEW fin
    PROVE  LET t == Unlist(s, d, fin)
           IN  /\ t \in Record /\ Keeps(s, t, {"buffered", "rejected"})
               /\ t.buffered = [s.buffered EXCEPT ![d] = 0]
               /\ t.rejected = s.rejected \/ t.rejected = s.rejected \cup {d}
<1> DEFINE m == [s.buffered EXCEPT ![d] = 0]
           j == IF fin THEN s.rejected ELSE s.rejected \cup {d}
           t == [s EXCEPT !.buffered = m, !.rejected = j]
<1>0. m \in [Remote -> Nat] /\ j \in SUBSET Remote
  BY DEF Record
<1>1. Unlist(s, d, fin) = t
  BY Fields DEF Unlist, forget_pre_accept_stream, Names
<1> HIDE DEF m, j
<1>2. t \in Record
  BY <1>0 DEF Record
<1>3. Keeps(s, t, {"buffered", "rejected"})
  BY Fields DEF Keeps
<1>4. t.buffered = m /\ t.rejected = j
  BY Fields DEF Names
<1> QED
  BY <1>1, <1>2, <1>3, <1>4 DEF m, j

LEMMA DeleteShape ==
    ASSUME NEW s \in Record, NEW d \in s.named, d \in Remote
    PROVE  LET t == delete_stream(s, d)
           IN  /\ t \in Record /\ Keeps(s, t, {"deleted", "kept", "buffered"})
               /\ t.deleted = s.deleted \cup {d}
               /\ t.kept = [s.kept EXCEPT ![d] = 0]
               /\ t.buffered = [s.buffered EXCEPT ![d] = 0]
<1> DEFINE m == [s.buffered EXCEPT ![d] = 0]
           k == [s.kept EXCEPT ![d] = 0]
           t == [s EXCEPT !.deleted = s.deleted \cup {d}, !.kept = k, !.buffered = m]
<1>a. d \notin Sessions
  BY SessionAssumption DEF Streams
<1>0. m \in [Remote -> Nat] /\ k \in [Remote -> Nat]
  BY DEF Record
<1>b. delete_stream(s, d) =
        forget_pre_accept_stream([s EXCEPT !.deleted = @ \cup {d}, !.kept[d] = 0], d)
  BY <1>a DEF delete_stream
<1>1. delete_stream(s, d) = t
  BY <1>b, Fields DEF forget_pre_accept_stream, Names
<1> HIDE DEF m, k
<1>2. t \in Record
  BY <1>0, ZenonT(60) DEF Record
<1>3. Keeps(s, t, {"deleted", "kept", "buffered"})
  BY Fields DEF Keeps
<1>4. t.buffered = m /\ t.kept = k /\ t.deleted = s.deleted \cup {d}
  BY Fields DEF Names
<1> QED
  BY <1>1, <1>2, <1>3, <1>4 DEF m, k

DataFields == {"named", "kept", "buffered", "got", "stream_info", "out_of_place",
               "rejected", "deleted", "error", "closed"}

StreamSame(s, u, e) ==
    /\ e \in u.named <=> e \in s.named
    /\ e \in u.deleted <=> e \in s.deleted
    /\ e \in u.stream_info <=> e \in s.stream_info
    /\ e \in u.rejected <=> e \in s.rejected
    /\ u.kept[e] = s.kept[e] /\ u.buffered[e] = s.buffered[e] /\ u.got[e] = s.got[e]

(* A call about the data stream d changes nothing of the sessions.         *)
LEMMA DataGood ==
    ASSUME NEW n, NEW m, NEW s, Good(s, n), NEW u \in Record, Keeps(s, u, DataFields),
           ~u.out_of_place, NEW d \in Remote, OneStream(u, d, m[d]),
           \A e \in Remote : e # d => StreamSame(s, u, e) /\ m[e] = n[e]
    PROVE  /\ Good(u, m) /\ NoSession(s, u)
           /\ \A e \in Remote : e # d => SameStream(s, u, e)
           /\ u.guard = s.guard /\ u.confirmed = s.confirmed
<1>0. s \in Record /\ ~s.out_of_place /\ ~s.mixed /\ \A z \in Sessions : Life(s, z)
  BY GoodFacts
<1>1. /\ u.session_ids = s.session_ids /\ u.accepted = s.accepted
      /\ u.pending_headers = s.pending_headers /\ u.pending_fin = s.pending_fin
      /\ u.pre_accept_fin = s.pre_accept_fin /\ u.fin_accepted = s.fin_accepted
      /\ u.qpack_blocked_fin = s.qpack_blocked_fin /\ u.stale_2xx = s.stale_2xx
      /\ u.guard = s.guard /\ u.state = s.state /\ u.read = s.read
      /\ u.blocked = s.blocked /\ u.mixed = s.mixed /\ u.response = s.response
      /\ u.written = s.written /\ u.confirmed = s.confirmed /\ u.ended = s.ended
      /\ u.ready = s.ready /\ u.over = s.over /\ u.why = s.why
  BY DEF Keeps, Names, DataFields
<1>2. NoSession(s, u)
  BY <1>1 DEF NoSession, Same
<1>3. \A z \in Sessions : Life(u, z)
  BY <1>0, <1>2, LifeSame DEF NoSession
<1>4. ASSUME NEW e \in Remote, e # d PROVE OneStream(u, e, m[e])
  <2>1. OneStream(s, e, n[e]) /\ StreamSame(s, u, e) /\ m[e] = n[e]
    BY <1>4 DEF Good
  <2> QED
    BY <1>1, <2>1 DEF OneStream, Stream, Counted, Reported, NoneKept, Could, StreamSame
<1>5. \A e \in Remote : OneStream(u, e, m[e])
  BY <1>4
<1>6. Good(u, m)
  BY <1>0, <1>1, <1>3, <1>5 DEF Good
<1>7. \A e \in Remote : e # d => SameStream(s, u, e)
  BY <1>1 DEF SameStream, StreamSame
<1> QED
  BY <1>1, <1>2, <1>6, <1>7

TakenData(s, u, d, w) ==
    /\ NoSession(s, u) /\ u.guard = s.guard /\ u.confirmed = s.confirmed
    /\ u.error = "none" /\ (s.closed => u.closed)
    /\ \A e \in Remote : e # d => SameStream(s, u, e)
    /\ d \in s.deleted => d \in u.deleted
    /\ ~u.closed /\ d \notin u.deleted => (d \in u.named <=> d \in s.named \/ w)

(* Data of a session that is confirmed.                                    *)
LEMMA RecvGood ==
    ASSUME NEW n, NEW m, NEW s, NEW d \in Remote, Good(s, n), NEW k \in Nat,
           n[d] \in Nat, m[d] = n[d] + k, \A e \in Remote : e # d => m[e] = n[e],
           d \in s.named \ s.deleted, SessionOf[d] \in s.confirmed
    PROVE  LET t == recv_wt_data_cb(s, d, k)
           IN  /\ Good(t, m) /\ NoSession(s, t)
               /\ Keeps(s, t, {"stream_info", "got", "out_of_place"})
               /\ \A e \in Remote : SameStream(s, t, e)
<1> DEFINE t == recv_wt_data_cb(s, d, k)
           c == SessionOf[d]
<1>0. s \in Record /\ ~s.out_of_place /\ c \in Sessions /\ Life(s, c) /\ OneStream(s, d, n[d])
  BY GoodFacts, SessionOfStream DEF Good, Streams
<1>1. /\ t \in Record
      /\ Keeps(s, t, {"stream_info", "got", "out_of_place"})
      /\ Active(s, c) => /\ t.got = [s.got EXCEPT ![d] = @ + k]
                         /\ t.stream_info = s.stream_info \cup {d}
                         /\ t.out_of_place = Misplaced(s, c)
      /\ ~Active(s, c) => t = s
  BY <1>0, RecvShape
<1> HIDE DEF t
<1>2. /\ t.named = s.named /\ t.deleted = s.deleted /\ t.rejected = s.rejected
      /\ t.kept = s.kept /\ t.buffered = s.buffered /\ t.confirmed = s.confirmed
      /\ t.over = s.over /\ t.response = s.response /\ t.state = s.state
      /\ t.pre_accept_fin = s.pre_accept_fin /\ t.fin_accepted = s.fin_accepted
      /\ t.accepted = s.accepted /\ t.guard = s.guard
  BY <1>1 DEF Keeps, Names
<1>3. Keeps(s, t, DataFields)
  BY <1>1 DEF Keeps, DataFields
<1>4. s.got \in [Remote -> Nat] /\ s.kept \in [Remote -> Nat]
      /\ s.state[c] \in {"none", "open", "gone"} /\ s.read[c] \in 0 .. HeadersLen
  BY <1>0 DEF Record
<1>5. Could(s, c) => Active(s, c)
  BY <1>0, <1>4 DEF Could, Life, Active, HeadersLen
<1>6. ~t.out_of_place
  <2>1. CASE ~Active(s, c)
    BY <1>0, <1>1, <2>1
  <2>2. CASE Active(s, c)
    <3>1. ~Misplaced(s, c)
      BY <1>0, <2>2 DEF Misplaced, Life, Active
    <3> QED
      BY <1>1, <2>2, <3>1
  <2> QED
    BY <2>1, <2>2
<1>7. OneStream(t, d, m[d])
  <2>1. Stream(t, d)
    BY <1>0, <1>1, <1>2 DEF OneStream, Stream
  <2>2. Counted(t, d)
    BY <1>0, <1>2 DEF Counted
  <2>3. Reported(t, d, m[d])
    <3> SUFFICES ASSUME d \notin t.deleted, Could(t, c) PROVE t.got[d] + t.kept[d] = m[d]
      BY DEF Reported
    <3>1. Could(s, c)
      BY <1>2 DEF Could
    <3>2. s.got[d] + s.kept[d] = n[d]
      BY <1>0, <3>1 DEF OneStream, Reported
    <3>3. t.got[d] = s.got[d] + k
      BY <1>1, <1>4, <1>5, <3>1
    <3> QED
      BY <1>2, <1>4, <3>2, <3>3
  <2>4. NoneKept(t, d)
    BY <1>0, <1>2 DEF OneStream, NoneKept, Could
  <2> QED
    BY <2>1, <2>2, <2>3, <2>4 DEF OneStream
<1>8. ASSUME NEW e \in Remote, e # d PROVE StreamSame(s, t, e) /\ m[e] = n[e]
  <2>1. t.got[e] = s.got[e] /\ (e \in t.stream_info <=> e \in s.stream_info)
    BY <1>1, <1>4, <1>8
  <2> QED
    BY <1>2, <1>8, <2>1 DEF StreamSame
<1>9. Good(t, m) /\ NoSession(s, t)
  BY <1>1, <1>3, <1>6, <1>7, <1>8, DataGood
<1>10. \A e \in Remote : SameStream(s, t, e)
  BY <1>2 DEF SameStream
<1> QED
  BY <1>1, <1>9, <1>10 DEF t

(* Data that nghttp3 keeps, counted against the limit.                     *)
LEMMA KeptGood ==
    ASSUME NEW n, NEW m, NEW s, NEW d \in Remote, Good(s, n), NEW k \in Nat, k # 0,
           n[d] \in Nat, m[d] = n[d] + k, \A e \in Remote : e # d => m[e] = n[e],
           d \in s.named \ s.deleted, SessionOf[d] \notin s.confirmed, NEW fin
    PROVE  LET t == Hold(s, d, k)
               u == enforce_pre_accept_buffer_limit(t, d, k, fin)
           IN  /\ Good(u, m) /\ NoSession(s, u)
               /\ Keeps(s, u, {"kept", "buffered", "rejected", "deleted"})
               /\ \A e \in Remote : e # d => SameStream(s, u, e)
<1> DEFINE c == SessionOf[d]
           t == Hold(s, d, k)
           u == enforce_pre_accept_buffer_limit(t, d, k, fin)
<1>0. s \in Record /\ ~s.out_of_place /\ c \in Sessions /\ Life(s, c) /\ OneStream(s, d, n[d])
  BY GoodFacts, SessionOfStream DEF Good, Streams
<1>1. t \in Record /\ Keeps(s, t, {"kept"}) /\ t.kept = [s.kept EXCEPT ![d] = @ + k]
  BY <1>0, HoldShape
<1> HIDE DEF t
<1>2. /\ s.kept \in [Remote -> Nat] /\ s.buffered \in [Remote -> Nat]
      /\ s.got \in [Remote -> Nat]
  BY <1>0 DEF Record
<1>3. t.accepted = s.accepted /\ t.buffered = s.buffered /\ t.named = s.named
      /\ t.rejected = s.rejected /\ t.deleted = s.deleted
  BY <1>1 DEF Keeps, Names
<1>4. c \notin s.accepted
  BY <1>0 DEF Life
<1>5. u = IF ~over_limit(s.buffered[d] + k) THEN Count(t, d, k)
          ELSE delete_stream(Unlist(t, d, fin), d)
  <2>1. u = IF ~over_limit(s.buffered[d] + k) THEN Count(t, d, k)
            ELSE delete_stream(push_stop(Unlist(t, d, fin), d), d)
    BY <1>3, <1>4 DEF enforce_pre_accept_buffer_limit, Count, Unlist
  <2> DEFINE y == Unlist(t, d, fin)
  <2>2. y \in Record /\ Keeps(t, y, {"buffered", "rejected"})
    BY <1>1, UnlistShape
  <2> HIDE DEF y, u
  <2>3. y.confirmed = s.confirmed /\ y.out_of_place = s.out_of_place
    BY <1>1, <2>2 DEF Keeps, Names
  <2>4. push_stop(y, d) = y
    BY <1>0, <2>2, <2>3, StopInPlace
  <2> QED
    BY <2>1, <2>4 DEF y
<1> HIDE DEF u
<1>6. CASE ~over_limit(s.buffered[d] + k)
  <2>1. u = Count(t, d, k)
    BY <1>5, <1>6
  <2>2. u \in Record /\ Keeps(t, u, {"buffered"}) /\ u.buffered = [t.buffered EXCEPT ![d] = @ + k]
    BY <1>1, <2>1, CountShape
  <2>3. Keeps(s, u, {"kept", "buffered"})
    BY <1>1, <2>2 DEF Keeps
  <2>4. /\ u.kept = [s.kept EXCEPT ![d] = @ + k]
        /\ u.buffered = [s.buffered EXCEPT ![d] = @ + k]
    BY <1>1, <1>3, <2>2 DEF Keeps, Names
  <2>5. /\ u.named = s.named /\ u.deleted = s.deleted /\ u.rejected = s.rejected
        /\ u.stream_info = s.stream_info /\ u.got = s.got
        /\ u.confirmed = s.confirmed /\ u.out_of_place = s.out_of_place
        /\ u.over = s.over /\ u.response = s.response /\ u.state = s.state
        /\ u.pre_accept_fin = s.pre_accept_fin /\ u.fin_accepted = s.fin_accepted
        /\ u.accepted = s.accepted
    BY <2>3 DEF Keeps, Names
  <2>6. u.kept[d] = s.kept[d] + k /\ u.buffered[d] = s.buffered[d] + k
    BY <1>2, <2>4
  <2>7. Stream(u, d)
    BY <1>0, <2>5 DEF OneStream, Stream
  <2>8. Counted(u, d)
    <3>0. Counted(s, d)
      BY <1>0 DEF OneStream
    <3>1. ASSUME s.buffered[d] = s.kept[d], s.kept[d] <= PreAcceptLimit
          PROVE  u.buffered[d] = u.kept[d] /\ u.kept[d] <= PreAcceptLimit
      BY <1>2, <1>6, <2>6, <3>1, SessionAssumption DEF over_limit
    <3> QED
      BY <2>5, <3>0, <3>1 DEF Counted
  <2>9. Reported(u, d, m[d])
    BY <1>0, <1>2, <2>5, <2>6 DEF OneStream, Reported, Could
  <2>10. NoneKept(u, d)
    BY <1>4, <2>5 DEF NoneKept
  <2>11. OneStream(u, d, m[d])
    BY <2>7, <2>8, <2>9, <2>10 DEF OneStream
  <2>12. ASSUME NEW e \in Remote, e # d PROVE StreamSame(s, u, e) /\ m[e] = n[e]
    <3>1. u.kept[e] = s.kept[e] /\ u.buffered[e] = s.buffered[e]
      BY <1>2, <2>4, <2>12
    <3> QED
      BY <2>5, <2>12, <3>1 DEF StreamSame
  <2>13. Keeps(s, u, DataFields) /\ Keeps(s, u, {"kept", "buffered", "rejected", "deleted"})
    BY <2>3 DEF Keeps, DataFields
  <2>14. ~u.out_of_place
    BY <1>0, <2>5
  <2> QED
    BY <2>2, <2>11, <2>12, <2>13, <2>14, DataGood DEF t, u
<1>7. CASE over_limit(s.buffered[d] + k)
  <2> DEFINE v == Unlist(t, d, fin)
  <2>1. u = delete_stream(v, d)
    BY <1>5, <1>7
  <2>2. /\ v \in Record /\ Keeps(t, v, {"buffered", "rejected"})
        /\ v.buffered = [t.buffered EXCEPT ![d] = 0]
        /\ v.rejected = t.rejected \/ v.rejected = t.rejected \cup {d}
    <3>1. v = Unlist(t, d, fin)
      OBVIOUS
    <3> HIDE DEF v
    <3> QED
      BY <1>1, <3>1, UnlistShape
  <2> HIDE DEF v
  <2>3. v.named = s.named /\ v.deleted = s.deleted /\ v.kept = t.kept
    BY <1>3, <2>2 DEF Keeps, Names
  <2>4. /\ u \in Record /\ Keeps(v, u, {"deleted", "kept", "buffered"})
        /\ u.deleted = s.deleted \cup {d}
        /\ u.kept = [t.kept EXCEPT ![d] = 0]
        /\ u.buffered = [v.buffered EXCEPT ![d] = 0]
    <3>1. d \in v.named
      BY <2>3
    <3>2. /\ u \in Record /\ Keeps(v, u, {"deleted", "kept", "buffered"})
          /\ u.deleted = v.deleted \cup {d}
          /\ u.kept = [v.kept EXCEPT ![d] = 0]
          /\ u.buffered = [v.buffered EXCEPT ![d] = 0]
      BY <2>1, <2>2, <3>1, DeleteShape
    <3> QED
      BY <2>3, <3>2
  <2>5. Keeps(s, u, {"kept", "buffered", "rejected", "deleted"})
    BY <1>1, <2>2, <2>4 DEF Keeps
  <2>6. /\ u.named = s.named /\ u.stream_info = s.stream_info /\ u.got = s.got
        /\ u.confirmed = s.confirmed /\ u.out_of_place = s.out_of_place
        /\ u.over = s.over /\ u.response = s.response /\ u.state = s.state
        /\ u.pre_accept_fin = s.pre_accept_fin /\ u.fin_accepted = s.fin_accepted
        /\ u.accepted = s.accepted
    BY <2>5 DEF Keeps, Names
  <2>7. u.rejected = s.rejected \/ u.rejected = s.rejected \cup {d}
    BY <1>3, <2>2, <2>4 DEF Keeps, Names
  <2>8. u.kept[d] = 0 /\ u.buffered[d] = 0
    BY <1>1, <1>2, <1>3, <2>2, <2>4
  <2>9. Keeps(s, u, DataFields)
    BY <2>5 DEF Keeps, DataFields
  <2>10. ASSUME NEW e \in Remote, e # d PROVE StreamSame(s, u, e) /\ m[e] = n[e]
    <3>1. u.kept[e] = s.kept[e] /\ u.buffered[e] = s.buffered[e]
      BY <1>1, <1>2, <1>3, <2>2, <2>4, <2>10
    <3>2. (e \in u.deleted <=> e \in s.deleted) /\ (e \in u.rejected <=> e \in s.rejected)
      BY <2>4, <2>7, <2>10
    <3> QED
      BY <2>6, <2>10, <3>1, <3>2 DEF StreamSame
  <2>11. ~u.out_of_place
    BY <1>0, <2>6
  <2>12. Stream(u, d)
    BY <1>0, <2>4, <2>6, <2>7, <2>8 DEF OneStream, Stream
  <2>13. Counted(u, d)
    BY <2>8, SessionAssumption DEF Counted
  <2>14. Reported(u, d, m[d]) /\ NoneKept(u, d)
    BY <2>4, <2>8 DEF Reported, NoneKept
  <2>15. OneStream(u, d, m[d])
    BY <2>12, <2>13, <2>14 DEF OneStream
  <2> QED
    BY <2>4, <2>5, <2>9, <2>10, <2>11, <2>15, DataGood DEF t, u
<1> QED
  BY <1>6, <1>7

(* read_from_nghttp3 for the data stream d.                                *)
HasName(q) == \E i \in DOMAIN q : q[i] = "W"

LEMMA EntitleGood ==
    ASSUME NEW n, NEW m, NEW s, Good(s, n), NEW d \in Remote, NEW b \in BOOLEAN,
           \A e \in Remote : e # d => m[e] = n[e],
           m[d] = n[d] \/ s.state[SessionOf[d]] = "gone"
    PROVE  LET r == Entitle(s, d, b)
           IN  /\ Good(r, m) /\ NoSession(s, r) /\ Keeps(s, r, {"named"})
               /\ \A e \in Remote : e # d => SameStream(s, r, e)
               /\ d \in r.named <=> d \in s.named \/ b
<1> DEFINE r == Entitle(s, d, b)
<1>0. s \in Record /\ ~s.out_of_place /\ OneStream(s, d, n[d])
  BY DEF Good
<1>1. /\ r \in Record /\ Keeps(s, r, {"named"})
      /\ r.named = IF b THEN s.named \cup {d} ELSE s.named
  BY <1>0, EntitleShape
<1> HIDE DEF r
<1>2. /\ r.deleted = s.deleted /\ r.rejected = s.rejected
      /\ r.stream_info = s.stream_info /\ r.got = s.got /\ r.kept = s.kept
      /\ r.buffered = s.buffered /\ r.accepted = s.accepted
      /\ r.confirmed = s.confirmed /\ r.out_of_place = s.out_of_place
      /\ r.over = s.over /\ r.response = s.response /\ r.state = s.state
      /\ r.pre_accept_fin = s.pre_accept_fin /\ r.fin_accepted = s.fin_accepted
  BY <1>1 DEF Keeps, Names
<1>3. OneStream(r, d, m[d])
  <2>1. Stream(r, d)
    BY <1>0, <1>1, <1>2 DEF OneStream, Stream
  <2>2. Counted(r, d) /\ NoneKept(r, d)
    BY <1>0, <1>2 DEF OneStream, Counted, NoneKept, Could
  <2>3. Reported(r, d, m[d])
    BY <1>0, <1>2 DEF OneStream, Reported, Could
  <2> QED
    BY <2>1, <2>2, <2>3 DEF OneStream
<1>4. \A e \in Remote : e # d => StreamSame(s, r, e) /\ m[e] = n[e]
  BY <1>1, <1>2 DEF StreamSame
<1>5. Keeps(s, r, DataFields) /\ ~r.out_of_place
  BY <1>0, <1>1, <1>2 DEF Keeps, DataFields
<1>6. /\ Good(r, m) /\ NoSession(s, r)
      /\ \A e \in Remote : e # d => SameStream(s, r, e)
  BY <1>1, <1>3, <1>4, <1>5, DataGood
<1>7. d \in r.named <=> d \in s.named \/ b
  BY <1>1
<1> QED
  BY <1>1, <1>6, <1>7 DEF r

LEMMA NoSessionAfter ==
    ASSUME NEW s, NEW t, NEW u, NoSession(s, t), NoSession(t, u) PROVE NoSession(s, u)
BY SameAfter DEF NoSession

Adds(s, n, m, d, k, b) == /\ k \in Nat /\ n[d] \in Nat /\ m[d] = n[d] + k
                          /\ k # 0 => d \in s.named \/ b

LEMMA ReadStream ==
    ASSUME NEW n, NEW m, NEW s, Good(s, n), s.error = "none", NEW d \in Remote,
           d \notin s.rejected, NEW q \in Seq(Item), NEW fin \in BOOLEAN, NEW b \in BOOLEAN,
           b <=> HasName(q), \A e \in Remote : e # d => m[e] = n[e],
           d \notin s.deleted => Adds(s, n, m, d, Bytes(q), b)
    PROVE  LET u == read_from_nghttp3(s, d, q, fin)
           IN  Good(u, m) /\ TakenData(s, u, d, b)
<1> DEFINE k == Bytes(q)
           c == SessionOf[d]
           t == read_data(s, d, q)
           r == Entitle(s, d, b)
           u == read_from_nghttp3(s, d, q, fin)
<1>0. s \in Record /\ OneStream(s, d, n[d]) /\ d \notin Sessions /\ c \in Sessions
  BY SessionAssumption, SessionOfStream DEF Good, Streams
<1>1. t = IF d \in s.deleted THEN Fail(s, "connection")
          ELSE IF k = 0 \/ s.state[c] = "gone" THEN r
          ELSE IF c \in s.confirmed THEN recv_wt_data_cb(r, d, k)
          ELSE Hold(r, d, k)
  <2>1. r = [s EXCEPT !.named = IF \E i \in DOMAIN q : q[i] = "W" THEN @ \cup {d} ELSE @]
    BY DEF Entitle, HasName
  <2> HIDE DEF r
  <2> QED
    BY <2>1, Zenon DEF read_data, Hold
<1>2. u = CASE t.error = "connection" -> Shut(Fail(t, "none"))
            [] t.error = "message" -> handle_wt_close_session_error(Fail(t, "none"), d)
            [] t.error = "none" /\ d \in Sessions -> t
            [] OTHER -> enforce_pre_accept_buffer_limit(t, d, t.kept[d] - s.kept[d], fin)
  BY <1>0, Zenon DEF read_from_nghttp3, Shut, Fail
<1> HIDE DEF t, u
<1>3. CASE d \in s.deleted
  <2> DEFINE v == Fail(t, "none")
  <2>1. t = Fail(s, "connection")
    BY <1>1, <1>3
  <2>2. t \in Record /\ Keeps(s, t, {"error"}) /\ t.error = "connection"
    BY <1>0, <2>1, FailShape
  <2>3. v \in Record /\ Keeps(t, v, {"error"}) /\ v.error = "none"
    BY <2>2, FailShape
  <2>4. u = Shut(v)
    BY <1>2, <2>2
  <2> HIDE DEF v
  <2>5. u \in Record /\ Keeps(v, u, {"closed"}) /\ u.closed
    BY <2>3, <2>4, ShutShape
  <2>6. Keeps(s, u, {"error", "closed"}) /\ u.error = "none"
    BY <2>2, <2>3, <2>5 DEF Keeps, Names
  <2>7. Keeps(s, u, DataFields)
    BY <2>6 DEF Keeps, DataFields
  <2>8. /\ u.named = s.named /\ u.deleted = s.deleted /\ u.rejected = s.rejected
        /\ u.stream_info = s.stream_info /\ u.got = s.got /\ u.kept = s.kept
        /\ u.buffered = s.buffered /\ u.accepted = s.accepted
        /\ u.confirmed = s.confirmed /\ u.out_of_place = s.out_of_place
        /\ u.over = s.over /\ u.response = s.response /\ u.state = s.state
        /\ u.pre_accept_fin = s.pre_accept_fin /\ u.fin_accepted = s.fin_accepted
    BY <2>6 DEF Keeps, Names
  <2>9. OneStream(u, d, m[d])
    BY <1>0, <1>3, <2>8 DEF OneStream, Stream, Counted, Reported, NoneKept, Could
  <2>10. \A e \in Remote : e # d => StreamSame(s, u, e) /\ m[e] = n[e]
    BY <2>8 DEF StreamSame
  <2>11. ~u.out_of_place
    BY <2>8 DEF Good
  <2>12. /\ Good(u, m) /\ NoSession(s, u)
         /\ \A e \in Remote : e # d => SameStream(s, u, e)
         /\ u.guard = s.guard /\ u.confirmed = s.confirmed
    BY <2>5, <2>7, <2>9, <2>10, <2>11, DataGood
  <2> QED
    BY <2>5, <2>6, <2>8, <2>12 DEF TakenData, u
<1>4. ASSUME d \notin s.deleted, NEW j \in Nat, t.kept[d] - s.kept[d] = j, t.error = "none"
      PROVE  u = enforce_pre_accept_buffer_limit(t, d, j, fin)
  BY <1>0, <1>2, <1>4
<1>5. ASSUME t.kept[d] = s.kept[d], t.error = "none", d \notin s.deleted PROVE u = t
  <2>1. s.kept[d] \in Nat
    BY <1>0 DEF Record
  <2>2. t.kept[d] - s.kept[d] = 0
    BY <1>5, <2>1
  <2>3. u = enforce_pre_accept_buffer_limit(t, d, 0, fin)
    BY <1>4, <1>5, <2>2
  <2> QED
    BY <2>3 DEF enforce_pre_accept_buffer_limit
<1>6. CASE d \notin s.deleted /\ (k = 0 \/ s.state[c] = "gone")
  <2>1. t = r
    BY <1>1, <1>6
  <2>2. m[d] = n[d] \/ s.state[c] = "gone"
    <3>1. Adds(s, n, m, d, k, b)
      BY <1>6
    <3> QED
      BY <1>6, <3>1 DEF Adds
  <2>3. /\ Good(t, m) /\ NoSession(s, t) /\ Keeps(s, t, {"named"})
        /\ \A e \in Remote : e # d => SameStream(s, t, e)
        /\ d \in t.named <=> d \in s.named \/ b
    BY <2>1, <2>2, EntitleGood
  <2>4. t.kept = s.kept /\ t.error = "none" /\ t.guard = s.guard /\ t.closed = s.closed
        /\ t.confirmed = s.confirmed
    BY <2>3 DEF Keeps, Names
  <2>5. u = t
    BY <1>5, <1>6, <2>4
  <2>6. TakenData(s, t, d, b)
    BY <1>6, <2>3, <2>4 DEF TakenData
  <2> QED
    BY <2>3, <2>5, <2>6 DEF u
<1>7. CASE d \notin s.deleted /\ k # 0 /\ s.state[c] # "gone"
  <2>1. /\ Good(r, n) /\ NoSession(s, r) /\ Keeps(s, r, {"named"})
        /\ \A e \in Remote : e # d => SameStream(s, r, e)
        /\ d \in r.named <=> d \in s.named \/ b
    BY EntitleGood
  <2> HIDE DEF r
  <2>2. /\ r.kept = s.kept /\ r.error = "none" /\ r.guard = s.guard /\ r.closed = s.closed
        /\ r.confirmed = s.confirmed /\ r.deleted = s.deleted
    BY <2>1 DEF Keeps, Names
  <2>0. Adds(s, n, m, d, k, b)
    BY <1>7
  <2> HIDE DEF k
  <2>3. d \in r.named \ r.deleted
    BY <1>7, <2>0, <2>1, <2>2 DEF Adds
  <2>4. k \in Nat /\ m[d] = n[d] + k /\ n[d] \in Nat
    BY <2>0 DEF Adds
  <2>5. CASE c \in s.confirmed
    <3>1. t = recv_wt_data_cb(r, d, k)
      BY <1>1, <1>7, <2>5
    <3>2. /\ Good(t, m) /\ NoSession(r, t)
          /\ Keeps(r, t, {"stream_info", "got", "out_of_place"})
          /\ \A e \in Remote : SameStream(r, t, e)
      BY <2>1, <2>2, <2>3, <2>4, <2>5, <3>1, RecvGood
    <3>3. t.kept = r.kept /\ t.error = r.error /\ t.guard = r.guard /\ t.closed = r.closed
          /\ t.confirmed = r.confirmed /\ t.named = r.named
      BY <3>2 DEF Keeps, Names
    <3>4. u = t
      BY <1>5, <1>7, <2>2, <3>3
    <3>5. NoSession(s, t)
      BY <2>1, <3>2, NoSessionAfter
    <3>6. \A e \in Remote : e # d => SameStream(s, t, e)
      BY <2>1, <3>2 DEF SameStream
    <3>7. TakenData(s, t, d, b)
      BY <1>7, <2>1, <2>2, <3>3, <3>5, <3>6 DEF TakenData
    <3> QED
      BY <3>2, <3>4, <3>7 DEF u
  <2>6. CASE c \notin s.confirmed
    <3>1. t = Hold(r, d, k)
      BY <1>1, <1>7, <2>6
    <3>2. /\ Keeps(r, t, {"kept"}) /\ t.kept = [r.kept EXCEPT ![d] = @ + k]
      BY <2>1, <2>4, <3>1, HoldShape DEF Good
    <3>3. t.kept[d] - s.kept[d] = k /\ t.error = "none"
      <4>1. s.kept \in [Remote -> Nat]
        BY <1>0 DEF Record
      <4>2. t.kept[d] = s.kept[d] + k
        BY <2>2, <2>4, <3>2, <4>1
      <4>3. t.error = "none"
        BY <2>2, <3>2 DEF Keeps, Names
      <4> QED
        BY <2>4, <4>1, <4>2, <4>3
    <3>4. u = enforce_pre_accept_buffer_limit(Hold(r, d, k), d, k, fin)
      BY <1>4, <1>7, <2>4, <3>1, <3>3
    <3>5. /\ Good(u, m) /\ NoSession(r, u)
          /\ Keeps(r, u, {"kept", "buffered", "rejected", "deleted"})
          /\ \A e \in Remote : e # d => SameStream(r, u, e)
      BY <1>7, <2>1, <2>2, <2>3, <2>4, <2>6, <3>4, KeptGood, ZenonT(60) DEF k
    <3>6. u.error = "none" /\ u.guard = s.guard /\ u.closed = s.closed
          /\ u.confirmed = s.confirmed /\ u.named = r.named
      BY <2>2, <3>5 DEF Keeps, Names
    <3>7. NoSession(s, u)
      BY <2>1, <3>5, NoSessionAfter
    <3>8. \A e \in Remote : e # d => SameStream(s, u, e)
      BY <2>1, <3>5 DEF SameStream
    <3>9. TakenData(s, u, d, b)
      BY <1>7, <2>1, <3>6, <3>7, <3>8 DEF TakenData
    <3> QED
      BY <3>5, <3>9 DEF u
  <2> QED
    BY <2>5, <2>6
<1> QED
  BY <1>3, <1>6, <1>7

-----------------------------------------------------------------------------
(* The frame boundary guard.                                               *)

Prefixed(g, q) == [g EXCEPT !.prefix = q]

LEMMA PrefixedIs ==
    ASSUME NEW g \in Guard, NEW q \in Seq(Item)
    PROVE  LET t == Prefixed(g, q)
           IN  /\ t \in Guard
               /\ t.prefix = q
               /\ t.header_parsed = g.header_parsed
               /\ t.is_headers = g.is_headers
               /\ t.forwarded = g.forwarded
               /\ t.held = g.held
               /\ t.held_fin = g.held_fin
<1> DEFINE v0 == q
           t == [g EXCEPT !.prefix = v0]
<1>0. DOMAIN g = {"prefix", "header_parsed", "is_headers", "forwarded", "held", "held_fin"}
  BY DEF Guard
<1>1. v0 \in Seq(Item)
  BY DEF Guard, HeadersLen
<1>2. Prefixed(g, q) = t
  BY <1>0 DEF Prefixed
<1> HIDE DEF v0
<1>3. t \in Guard
  BY <1>1 DEF Guard
<1>4. t.prefix = v0
  BY <1>0
<1>5. t.header_parsed = g.header_parsed
  BY <1>0
<1>6. t.is_headers = g.is_headers
  BY <1>0
<1>7. t.forwarded = g.forwarded
  BY <1>0
<1>8. t.held = g.held
  BY <1>0
<1>9. t.held_fin = g.held_fin
  BY <1>0
<1> HIDE DEF t
<1> QED
  BY <1>2, <1>3, <1>4, <1>5, <1>6, <1>7, <1>8, <1>9 DEF v0

Parsed(g) == [g EXCEPT !.prefix = <<>>, !.header_parsed = TRUE]

LEMMA ParsedIs ==
    ASSUME NEW g \in Guard
    PROVE  LET t == Parsed(g)
           IN  /\ t \in Guard
               /\ t.prefix = <<>>
               /\ t.header_parsed = TRUE
               /\ t.is_headers = g.is_headers
               /\ t.forwarded = g.forwarded
               /\ t.held = g.held
               /\ t.held_fin = g.held_fin
<1> DEFINE v0 == <<>>
           v1 == TRUE
           t == [g EXCEPT !.prefix = v0, !.header_parsed = v1]
<1>0. DOMAIN g = {"prefix", "header_parsed", "is_headers", "forwarded", "held", "held_fin"}
  BY DEF Guard
<1>1. v0 \in Seq(Item) /\ v1 \in BOOLEAN
  BY DEF Guard, HeadersLen
<1>2. Parsed(g) = t
  BY <1>0 DEF Parsed
<1> HIDE DEF v0, v1
<1>3. t \in Guard
  BY <1>1 DEF Guard
<1>4. t.prefix = v0
  BY <1>0
<1>5. t.header_parsed = v1
  BY <1>0
<1>6. t.is_headers = g.is_headers
  BY <1>0
<1>7. t.forwarded = g.forwarded
  BY <1>0
<1>8. t.held = g.held
  BY <1>0
<1>9. t.held_fin = g.held_fin
  BY <1>0
<1> HIDE DEF t
<1> QED
  BY <1>2, <1>3, <1>4, <1>5, <1>6, <1>7, <1>8, <1>9 DEF v0, v1

Heading(g) == [g EXCEPT !.is_headers = TRUE]

LEMMA HeadingIs ==
    ASSUME NEW g \in Guard
    PROVE  LET t == Heading(g)
           IN  /\ t \in Guard
               /\ t.prefix = g.prefix
               /\ t.header_parsed = g.header_parsed
               /\ t.is_headers = TRUE
               /\ t.forwarded = g.forwarded
               /\ t.held = g.held
               /\ t.held_fin = g.held_fin
<1> DEFINE v0 == TRUE
           t == [g EXCEPT !.is_headers = v0]
<1>0. DOMAIN g = {"prefix", "header_parsed", "is_headers", "forwarded", "held", "held_fin"}
  BY DEF Guard
<1>1. v0 \in BOOLEAN
  BY DEF Guard, HeadersLen
<1>2. Heading(g) = t
  BY <1>0 DEF Heading
<1> HIDE DEF v0
<1>3. t \in Guard
  BY <1>1 DEF Guard
<1>4. t.prefix = g.prefix
  BY <1>0
<1>5. t.header_parsed = g.header_parsed
  BY <1>0
<1>6. t.is_headers = v0
  BY <1>0
<1>7. t.forwarded = g.forwarded
  BY <1>0
<1>8. t.held = g.held
  BY <1>0
<1>9. t.held_fin = g.held_fin
  BY <1>0
<1> HIDE DEF t
<1> QED
  BY <1>2, <1>3, <1>4, <1>5, <1>6, <1>7, <1>8, <1>9 DEF v0

Forward(g, k) == [g EXCEPT !.forwarded = @ + k]

LEMMA ForwardIs ==
    ASSUME NEW g \in Guard, NEW k \in Nat, g.forwarded + k <= HeadersLen
    PROVE  LET t == Forward(g, k)
           IN  /\ t \in Guard
               /\ t.prefix = g.prefix
               /\ t.header_parsed = g.header_parsed
               /\ t.is_headers = g.is_headers
               /\ t.forwarded = g.forwarded + k
               /\ t.held = g.held
               /\ t.held_fin = g.held_fin
<1> DEFINE v0 == g.forwarded + k
           t == [g EXCEPT !.forwarded = v0]
<1>0. DOMAIN g = {"prefix", "header_parsed", "is_headers", "forwarded", "held", "held_fin"}
  BY DEF Guard
<1>1. v0 \in 0 .. HeadersLen
  BY DEF Guard, HeadersLen
<1>2. Forward(g, k) = t
  BY <1>0 DEF Forward
<1> HIDE DEF v0
<1>3. t \in Guard
  BY <1>1 DEF Guard
<1>4. t.prefix = g.prefix
  BY <1>0
<1>5. t.header_parsed = g.header_parsed
  BY <1>0
<1>6. t.is_headers = g.is_headers
  BY <1>0
<1>7. t.forwarded = v0
  BY <1>0
<1>8. t.held = g.held
  BY <1>0
<1>9. t.held_fin = g.held_fin
  BY <1>0
<1> HIDE DEF t
<1> QED
  BY <1>2, <1>3, <1>4, <1>5, <1>6, <1>7, <1>8, <1>9 DEF v0

Holding(g, q, b) == [g EXCEPT !.forwarded = HeadersLen, !.held_fin = b, !.held = q]

LEMMA HoldingIs ==
    ASSUME NEW g \in Guard, NEW q \in Seq(Item), NEW b \in BOOLEAN
    PROVE  LET t == Holding(g, q, b)
           IN  /\ t \in Guard
               /\ t.prefix = g.prefix
               /\ t.header_parsed = g.header_parsed
               /\ t.is_headers = g.is_headers
               /\ t.forwarded = HeadersLen
               /\ t.held = q
               /\ t.held_fin = b
<1> DEFINE v0 == HeadersLen
           v1 == b
           v2 == q
           t == [g EXCEPT !.forwarded = v0, !.held_fin = v1, !.held = v2]
<1>0. DOMAIN g = {"prefix", "header_parsed", "is_headers", "forwarded", "held", "held_fin"}
  BY DEF Guard
<1>1. v0 \in 0 .. HeadersLen /\ v1 \in BOOLEAN /\ v2 \in Seq(Item)
  BY DEF Guard, HeadersLen
<1>2. Holding(g, q, b) = t
  BY <1>0 DEF Holding
<1> HIDE DEF v0, v1, v2
<1>3. t \in Guard
  BY <1>1 DEF Guard
<1>4. t.prefix = g.prefix
  BY <1>0
<1>5. t.header_parsed = g.header_parsed
  BY <1>0
<1>6. t.is_headers = g.is_headers
  BY <1>0
<1>7. t.forwarded = v0
  BY <1>0
<1>8. t.held = v2
  BY <1>0
<1>9. t.held_fin = v1
  BY <1>0
<1> HIDE DEF t
<1> QED
  BY <1>2, <1>3, <1>4, <1>5, <1>6, <1>7, <1>8, <1>9 DEF v0, v1, v2

Adding(g, q, b) == [g EXCEPT !.held = @ \o q, !.held_fin = @ \/ b]

LEMMA AddingIs ==
    ASSUME NEW g \in Guard, NEW q \in Seq(Item), NEW b \in BOOLEAN
    PROVE  LET t == Adding(g, q, b)
           IN  /\ t \in Guard
               /\ t.prefix = g.prefix
               /\ t.header_parsed = g.header_parsed
               /\ t.is_headers = g.is_headers
               /\ t.forwarded = g.forwarded
               /\ t.held = g.held \o q
               /\ t.held_fin = (g.held_fin \/ b)
<1> DEFINE v0 == g.held \o q
           v1 == (g.held_fin \/ b)
           t == [g EXCEPT !.held = v0, !.held_fin = v1]
<1>0. DOMAIN g = {"prefix", "header_parsed", "is_headers", "forwarded", "held", "held_fin"}
  BY DEF Guard
<1>1. v0 \in Seq(Item) /\ v1 \in BOOLEAN
  BY DEF Guard, HeadersLen
<1>2. Adding(g, q, b) = t
  BY <1>0 DEF Adding
<1> HIDE DEF v0, v1
<1>3. t \in Guard
  BY <1>1 DEF Guard
<1>4. t.prefix = g.prefix
  BY <1>0
<1>5. t.header_parsed = g.header_parsed
  BY <1>0
<1>6. t.is_headers = g.is_headers
  BY <1>0
<1>7. t.forwarded = g.forwarded
  BY <1>0
<1>8. t.held = v0
  BY <1>0
<1>9. t.held_fin = v1
  BY <1>0
<1> HIDE DEF t
<1> QED
  BY <1>2, <1>3, <1>4, <1>5, <1>6, <1>7, <1>8, <1>9 DEF v0, v1

LEMMA Piece ==
    ASSUME NEW q \in Seq(Item), NEW i \in Nat, NEW j \in Nat, i <= j, j <= Len(q)
    PROVE  LET r == SubSeq(q, i + 1, j)
           IN  /\ r \in Seq(Item) /\ Len(r) = j - i /\ DOMAIN r = 1 .. (j - i)
               /\ \A k \in 1 .. (j - i) : r[k] = q[i + k]
               /\ r = <<>> <=> j = i
<1> DEFINE r == SubSeq(q, i + 1, j)
<1>1. r \in Seq(Item) /\ Len(r) = j - i
  OBVIOUS
<1>2. \A k \in 1 .. (j - i) : r[k] = q[i + k]
  OBVIOUS
<1>3. DOMAIN r = 1 .. (j - i)
  BY <1>1
<1>4. r = <<>> <=> j = i
  BY <1>1
<1> QED
  BY <1>1, <1>2, <1>3, <1>4

LEMMA Joined ==
    ASSUME NEW q \in Seq(Item), NEW i \in Nat, NEW j \in Nat, i <= j, j <= Len(q)
    PROVE  SubSeq(q, 1, i) \o SubSeq(q, i + 1, j) = SubSeq(q, 1, j)
<1>1. 1 \in 1 .. Len(q) + 1 /\ i \in 1 - 1 .. Len(q) /\ j \in i .. Len(q)
  OBVIOUS
<1> QED
  BY <1>1, ConcatAdjacentSubSeq

(* D's among the first j items of a data stream.                           *)
Past(j) == IF j <= 2 THEN 0 ELSE j - 2

LEMMA BytesOf ==
    ASSUME NEW q \in Seq(Item), IsData(q), NEW i \in Nat, NEW j \in Nat, i <= j, j <= Len(q)
    PROVE  Bytes(SubSeq(q, i + 1, j)) = Past(j) - Past(i)
<1> DEFINE r == SubSeq(q, i + 1, j)
           l == IF i <= 2 THEN 3 - i ELSE 1
           B == {k \in DOMAIN r : r[k] = "D"}
<1>1. DOMAIN r = 1 .. (j - i) /\ \A k \in 1 .. (j - i) : r[k] = q[i + k]
  BY Piece
<1> HIDE DEF r
<1>2. ASSUME NEW k \in 1 .. (j - i) PROVE r[k] = "D" <=> i + k >= 3
  <2>1. i + k \in DOMAIN q
    OBVIOUS
  <2>2. q[i + k] = IF i + k = 1 THEN "P" ELSE IF i + k = 2 THEN "W" ELSE "D"
    BY <2>1 DEF IsData
  <2> QED
    BY <1>1, <2>2
<1>3. B = l .. (j - i)
  BY <1>1, <1>2
<1>4. l \in Int /\ j - i \in Int
  OBVIOUS
<1>5. Cardinality(l .. (j - i)) = IF l > j - i THEN 0 ELSE (j - i) - l + 1
  BY <1>4, FS_Interval
<1>6. Bytes(r) = Cardinality(B)
  BY DEF Bytes
<1>7. (IF l > j - i THEN 0 ELSE (j - i) - l + 1) = Past(j) - Past(i)
  BY DEF Past
<1> QED
  BY <1>3, <1>5, <1>6, <1>7 DEF r

-----------------------------------------------------------------------------
(* split.                                                                  *)

IsPass(P, g, items, fin, wait) ==
    P.guard = g /\ P.items = items /\ P.fin = fin /\ P.wait = wait

LEMMA PassIs ==
    ASSUME NEW a, NEW b, NEW e \in BOOLEAN
    PROVE  /\ IsPass(Pass(a, b, e), a, b, e, FALSE)
           /\ IsPass([Pass(a, b, e) EXCEPT !.wait = TRUE], a, b, e, TRUE)
BY DEF IsPass, Pass

LEMMA SplitHeaders ==
    ASSUME NEW g \in Guard, NEW q \in Seq(Item), NEW fin \in BOOLEAN
    PROVE  LET P == split_headers(g, q, fin)
               k == HeadersLen - g.forwarded
           IN  /\ Len(q) <= k => IsPass(P, Forward(g, Len(q)), q, fin, FALSE)
               /\ ~(Len(q) <= k) => IsPass(P, Holding(g, SubSeq(q, k + 1, Len(q)), fin),
                                            SubSeq(q, 1, k), FALSE, FALSE)
<1> DEFINE k == HeadersLen - g.forwarded
           P == split_headers(g, q, fin)
<1>1. P = IF Len(q) <= k THEN Pass(Forward(g, Len(q)), q, fin)
          ELSE Pass(Holding(g, SubSeq(q, k + 1, Len(q)), fin), SubSeq(q, 1, k), FALSE)
  BY Zenon DEF split_headers, Forward, Holding
<1> HIDE DEF P, k
<1>2. /\ Len(q) <= k => IsPass(P, Forward(g, Len(q)), q, fin, FALSE)
      /\ ~(Len(q) <= k) => IsPass(P, Holding(g, SubSeq(q, k + 1, Len(q)), fin),
                                   SubSeq(q, 1, k), FALSE, FALSE)
  BY <1>1, PassIs, Zenon
<1> QED
  BY <1>2 DEF P, k

LEMMA SplitCases ==
    ASSUME NEW s \in Record, NEW x \in Arriving, NEW q \in Seq(Item), NEW fin \in BOOLEAN
    PROVE  LET P == split(s, x, q, fin)
               g == s.guard[x]
               all == g.prefix \o q
           IN  /\ ~g.header_parsed /\ Len(all) < 2 /\ fin =>
                     IsPass(P, Prefixed(g, <<>>), all, TRUE, FALSE)
               /\ ~g.header_parsed /\ Len(all) < 2 /\ ~fin =>
                     IsPass(P, Prefixed(g, all), <<>>, FALSE, TRUE)
               /\ ~g.header_parsed /\ Len(all) >= 2 /\ all[2] # "K" =>
                     IsPass(P, Parsed(g), all, fin, FALSE)
               /\ ~g.header_parsed /\ Len(all) >= 2 /\ all[2] = "K" =>
                     P = split_headers(Heading(Parsed(g)), all, fin)
               /\ g.header_parsed /\ ~g.is_headers => IsPass(P, g, q, fin, FALSE)
               /\ g.header_parsed /\ g.is_headers /\ g.forwarded < HeadersLen =>
                     P = split_headers(g, q, fin)
               /\ g.header_parsed /\ g.is_headers /\ ~(g.forwarded < HeadersLen) =>
                     IF x \in s.pending_headers THEN IsPass(P, Adding(g, q, fin), <<>>, FALSE, FALSE)
                                                ELSE IsPass(P, g, q, fin, FALSE)
<1> DEFINE g == s.guard[x]
           all == g.prefix \o q
           P == split(s, x, q, fin)
<1>0. g \in Guard
  BY DEF Record
<1>1. all \in Seq(Item) /\ Len(all) \in Nat
  BY <1>0 DEF Guard
<1>2. P = IF ~g.header_parsed
          THEN CASE Len(all) < 2 /\ fin -> Pass(Prefixed(g, <<>>), all, TRUE)
                 [] Len(all) < 2 /\ ~fin -> [Pass(Prefixed(g, all), <<>>, FALSE) EXCEPT !.wait = TRUE]
                 [] Len(all) >= 2 /\ all[2] # "K" -> Pass(Parsed(g), all, fin)
                 [] OTHER -> split_headers(Heading(Parsed(g)), all, fin)
          ELSE IF ~g.is_headers THEN Pass(g, q, fin)
          ELSE IF g.forwarded < HeadersLen THEN split_headers(g, q, fin)
          ELSE IF x \in s.pending_headers
          THEN Pass(Adding(g, q, fin), <<>>, FALSE)
          ELSE Pass(g, q, fin)
  BY Zenon DEF split, Prefixed, Parsed, Heading, Adding
<1> HIDE DEF P, all, g
<1>3. /\ ~g.header_parsed /\ Len(all) < 2 /\ fin =>
            IsPass(P, Prefixed(g, <<>>), all, TRUE, FALSE)
      /\ ~g.header_parsed /\ Len(all) < 2 /\ ~fin =>
            IsPass(P, Prefixed(g, all), <<>>, FALSE, TRUE)
      /\ ~g.header_parsed /\ Len(all) >= 2 /\ all[2] # "K" =>
            IsPass(P, Parsed(g), all, fin, FALSE)
      /\ ~g.header_parsed /\ Len(all) >= 2 /\ all[2] = "K" =>
            P = split_headers(Heading(Parsed(g)), all, fin)
  <2>1. Len(all) >= 2 <=> ~(Len(all) < 2)
    BY <1>1
  <2>2. CASE ~g.header_parsed /\ Len(all) < 2 /\ fin
    BY <1>2, <2>1, <2>2, PassIs, Zenon
  <2>3. CASE ~g.header_parsed /\ Len(all) < 2 /\ ~fin
    BY <1>2, <2>1, <2>3, PassIs, Zenon
  <2>4. CASE ~g.header_parsed /\ Len(all) >= 2 /\ all[2] # "K"
    BY <1>2, <2>1, <2>4, PassIs, Zenon
  <2>5. CASE ~g.header_parsed /\ Len(all) >= 2 /\ all[2] = "K"
    BY <1>2, <2>1, <2>5, Zenon
  <2> QED
    BY <2>1, <2>2, <2>3, <2>4, <2>5, Zenon
<1>4. /\ g.header_parsed /\ ~g.is_headers => IsPass(P, g, q, fin, FALSE)
      /\ g.header_parsed /\ g.is_headers /\ g.forwarded < HeadersLen =>
            P = split_headers(g, q, fin)
      /\ g.header_parsed /\ g.is_headers /\ ~(g.forwarded < HeadersLen) =>
            IF x \in s.pending_headers THEN IsPass(P, Adding(g, q, fin), <<>>, FALSE, FALSE)
                                       ELSE IsPass(P, g, q, fin, FALSE)
  BY <1>2, PassIs, Zenon
<1> QED
  BY <1>3, <1>4, Zenon DEF P, all, g

(* What the guard is when r items of the HEADERS frame have been read.     *)
GuardIs(g, q, r, p) ==
    IF ~g.header_parsed
    THEN Unparsed(g, q, p) /\ g.forwarded = 0 /\ g.held = <<>> /\ r = 0
    ELSE /\ g.is_headers /\ g.prefix = <<>> /\ g.forwarded = r
         /\ r < HeadersLen => r = p /\ g.held = <<>>

LEMMA GuardedIs ==
    ASSUME NEW s, NEW c, NEW p
    PROVE  Guarded(s, c, p) <=> GuardIs(s.guard[c], content[c], s.read[c], p)
BY DEF Guarded, GuardIs

(* Any stream: what is held, and where the FIN goes.                       *)
SplitFin(P, g, fin) ==
    /\ P.guard \in Guard /\ P.items \in Seq(Item)
    /\ P.fin \in BOOLEAN /\ P.wait \in BOOLEAN
    /\ P.fin => fin
    /\ P.guard.held_fin => fin \/ g.held_fin
    /\ P.wait => /\ ~fin /\ ~P.fin /\ P.items = <<>>
                 /\ P.guard.held = g.held /\ P.guard.held_fin = g.held_fin
                 /\ P.guard.forwarded = g.forwarded
    /\ fin /\ ~P.fin => /\ P.guard.held # <<>> /\ P.guard.held_fin
                        /\ P.guard.forwarded = HeadersLen

LEMMA SplitHeadersFin ==
    ASSUME NEW g \in Guard, NEW q \in Seq(Item), NEW fin \in BOOLEAN
    PROVE  SplitFin(split_headers(g, q, fin), g, fin)
<1> DEFINE k == HeadersLen - g.forwarded
           P == split_headers(g, q, fin)
           r == SubSeq(q, k + 1, Len(q))
           l == SubSeq(q, 1, k)
<1>1. k \in 0 .. HeadersLen /\ Len(q) \in Nat /\ g.forwarded \in 0 .. HeadersLen
  BY DEF Guard, HeadersLen
<1>2. CASE Len(q) <= k
  <2>1. IsPass(P, Forward(g, Len(q)), q, fin, FALSE)
    BY <1>2, SplitHeaders
  <2>2. g.forwarded + Len(q) <= HeadersLen
    BY <1>1, <1>2 DEF HeadersLen
  <2>3. Forward(g, Len(q)) \in Guard /\ Forward(g, Len(q)).held_fin = g.held_fin
    BY <1>1, <2>2, ForwardIs
  <2> QED
    BY <2>1, <2>3, Zenon DEF IsPass, SplitFin
<1>3. CASE ~(Len(q) <= k)
  <2>1. IsPass(P, Holding(g, r, fin), l, FALSE, FALSE)
    BY <1>3, SplitHeaders
  <2>a. k \in Nat /\ k <= Len(q) /\ k # Len(q) /\ 0 \in Nat /\ Len(q) <= Len(q)
    BY <1>1, <1>3 DEF HeadersLen
  <2> HIDE DEF k
  <2>b. r \in Seq(Item) /\ Len(r) = Len(q) - k
    BY <1>1, <2>a, Piece
  <2>c. l \in Seq(Item)
    BY <1>1, <2>a
  <2>2. r \in Seq(Item) /\ l \in Seq(Item)
    BY <2>b, <2>c
  <2> HIDE DEF r
  <2>3. r # <<>>
    BY <1>1, <2>a, <2>b
  <2> HIDE DEF l
  <2>4. LET t == Holding(g, r, fin)
        IN  t \in Guard /\ t.held = r /\ t.held_fin = fin /\ t.forwarded = HeadersLen
    BY <2>2, HoldingIs
  <2> QED
    BY <2>1, <2>2, <2>3, <2>4, Zenon DEF IsPass, SplitFin
<1> QED
  BY <1>2, <1>3

LEMMA SplitTyped ==
    ASSUME NEW s \in Record, NEW x \in Arriving, NEW q \in Seq(Item), q # <<>>,
           NEW fin \in BOOLEAN
    PROVE  SplitFin(split(s, x, q, fin), s.guard[x], fin)
<1> DEFINE P == split(s, x, q, fin)
           g == s.guard[x]
           all == g.prefix \o q
<1>0. g \in Guard
  BY DEF Record
<1>1. all \in Seq(Item) /\ Len(all) \in Nat /\ g.prefix \in Seq(Item) /\ g.held \in Seq(Item)
      /\ g.header_parsed \in BOOLEAN /\ g.is_headers \in BOOLEAN
      /\ g.forwarded \in 0 .. HeadersLen /\ g.held_fin \in BOOLEAN
  BY <1>0 DEF Guard
<1>2. <<>> \in Seq(Item)
  OBVIOUS
<1>3. g.held \o q # <<>> /\ g.held \o q \in Seq(Item)
  BY <1>1
<1>4. ~(g.forwarded < HeadersLen) => g.forwarded = HeadersLen
  BY <1>1 DEF HeadersLen
<1> HIDE DEF P, all, g
<1>5. CASE ~g.header_parsed /\ Len(all) < 2 /\ fin
  <2>1. IsPass(P, Prefixed(g, <<>>), all, TRUE, FALSE)
    BY <1>5, SplitCases, Zenon DEF P, all, g
  <2>2. Prefixed(g, <<>>) \in Guard /\ Prefixed(g, <<>>).held_fin = g.held_fin
    BY <1>0, <1>2, PrefixedIs
  <2> QED
    BY <1>1, <1>5, <2>1, <2>2, Zenon DEF IsPass, SplitFin, g, P
<1>6. CASE ~g.header_parsed /\ Len(all) < 2 /\ ~fin
  <2>1. IsPass(P, Prefixed(g, all), <<>>, FALSE, TRUE)
    BY <1>6, SplitCases, Zenon DEF P, all, g
  <2>2. LET t == Prefixed(g, all)
        IN  /\ t \in Guard /\ t.held_fin = g.held_fin /\ t.held = g.held
            /\ t.forwarded = g.forwarded
    BY <1>0, <1>1, PrefixedIs
  <2> QED
    BY <1>1, <1>2, <1>6, <2>1, <2>2, Zenon DEF IsPass, SplitFin, g, P
<1>7. CASE ~g.header_parsed /\ Len(all) >= 2 /\ all[2] # "K"
  <2>1. IsPass(P, Parsed(g), all, fin, FALSE)
    BY <1>7, SplitCases, Zenon DEF P, all, g
  <2>2. Parsed(g) \in Guard /\ Parsed(g).held_fin = g.held_fin
    BY <1>0, ParsedIs
  <2> QED
    BY <1>1, <1>7, <2>1, <2>2, Zenon DEF IsPass, SplitFin, g, P
<1>8. CASE ~g.header_parsed /\ Len(all) >= 2 /\ all[2] = "K"
  <2>1. P = split_headers(Heading(Parsed(g)), all, fin)
    BY <1>8, SplitCases, Zenon DEF P, all, g
  <2>2. Parsed(g) \in Guard /\ Parsed(g).held_fin = g.held_fin /\ Parsed(g).held = g.held
        /\ Parsed(g).forwarded = g.forwarded
    BY <1>0, ParsedIs
  <2>3. LET t == Heading(Parsed(g))
        IN  /\ t \in Guard /\ t.held_fin = g.held_fin /\ t.held = g.held
            /\ t.forwarded = g.forwarded
    BY <2>2, HeadingIs
  <2>4. SplitFin(P, Heading(Parsed(g)), fin)
    BY <2>1, <2>3, <1>1, SplitHeadersFin
  <2> QED
    BY <2>3, <2>4, Zenon DEF SplitFin, g, P
<1>9. CASE g.header_parsed /\ ~g.is_headers
  <2>1. IsPass(P, g, q, fin, FALSE)
    BY <1>9, SplitCases, Zenon DEF P, all, g
  <2> QED
    BY <1>0, <2>1, Zenon DEF IsPass, SplitFin, g, P
<1>10. CASE g.header_parsed /\ g.is_headers /\ g.forwarded < HeadersLen
  <2>1. P = split_headers(g, q, fin)
    BY <1>10, SplitCases, Zenon DEF P, all, g
  <2> QED
    BY <1>0, <2>1, SplitHeadersFin DEF g, P
<1>11. CASE g.header_parsed /\ g.is_headers /\ ~(g.forwarded < HeadersLen) /\ x \in s.pending_headers
  <2>1. IsPass(P, Adding(g, q, fin), <<>>, FALSE, FALSE)
    BY <1>11, SplitCases, Zenon DEF P, all, g
  <2>2. LET t == Adding(g, q, fin)
        IN  /\ t \in Guard /\ t.held_fin = (g.held_fin \/ fin) /\ t.held = g.held \o q
            /\ t.forwarded = g.forwarded
    BY <1>0, AddingIs
  <2> QED
    BY <1>1, <1>2, <1>3, <1>4, <1>11, <2>1, <2>2, Zenon DEF IsPass, SplitFin, g, P
<1>12. CASE g.header_parsed /\ g.is_headers /\ ~(g.forwarded < HeadersLen) /\ x \notin s.pending_headers
  <2>1. IsPass(P, g, q, fin, FALSE)
    BY <1>12, SplitCases, Zenon DEF P, all, g
  <2> QED
    BY <1>0, <2>1, Zenon DEF IsPass, SplitFin, g, P
<1>13. Len(all) >= 2 <=> ~(Len(all) < 2)
  BY <1>1
<1> QED
  BY <1>5, <1>6, <1>7, <1>8, <1>9, <1>10, <1>11, <1>12, <1>13, Zenon DEF P, g

(* The smaller of k and HeadersLen.                                        *)
AtMost(k) == IF k < HeadersLen THEN k ELSE HeadersLen

(* The CONNECT stream x, of whose content q the items up to p have come,   *)
(* and now those up to p + k.                                              *)
SplitOK(P, s, x, q, j) ==
    /\ ~P.wait => Readable(s, x, P.items)
    /\ LET r == AtMost(s.read[x] + Len(P.items))
       IN  (P.fin => r = HeadersLen) => GuardIs(P.guard, q, r, j)

(* A prefix of the content, or what follows the items read, meets the      *)
(* HEADERS frame where it should.                                          *)
LEMMA RequestReadable ==
    ASSUME NEW s \in Record, NEW x \in Sessions, NEW q \in Seq(Item), IsRequest(q),
           NEW j \in Nat, s.read[x] <= j, j <= HeadersLen, j <= Len(q)
    PROVE  Readable(s, x, SubSeq(q, s.read[x] + 1, j))
<1> DEFINE i == s.read[x]
           r == SubSeq(q, i + 1, j)
<1>0. s.read \in [Sessions -> 0 .. HeadersLen]
  BY DEF Record
<1>1. i \in Nat /\ i <= j
  BY <1>0 DEF HeadersLen
<1> HIDE DEF i
<1>2. r \in Seq(Item) /\ Len(r) = j - i /\ DOMAIN r = 1 .. (j - i)
      /\ \A k \in 1 .. (j - i) : r[k] = q[i + k]
  BY <1>1, Piece, SMTT(40)
<1> HIDE DEF r
<1>3. ASSUME NEW k \in DOMAIN r
      PROVE  (r[k] = "K" <=> i + k = 2) /\ (r[k] = "F" <=> i + k = 3)
  <2>1. i + k \in DOMAIN q /\ r[k] = q[i + k]
    BY <1>1, <1>2
  <2>2. (q[i + k] = "K" <=> i + k = 2) /\ (q[i + k] = "F" <=> i + k = 3)
    BY <2>1 DEF IsRequest
  <2> QED
    BY <2>1, <2>2
<1>4. i + Len(r) <= HeadersLen
  BY <1>1, <1>2
<1> QED
  BY <1>3, <1>4 DEF i, r, Readable

(* split_headers, with the items from i on at hand.                        *)
LEMMA HeadersSplitOK ==
    ASSUME NEW s \in Record, NEW x \in Sessions, NEW q \in Seq(Item), IsRequest(q),
           NEW j \in Nat, s.read[x] <= j, j <= Len(q), NEW g \in Guard,
           g.header_parsed, g.is_headers, g.prefix = <<>>, g.held = <<>>,
           g.forwarded = s.read[x], s.read[x] < HeadersLen, NEW fin \in BOOLEAN
    PROVE  SplitOK(split_headers(g, SubSeq(q, s.read[x] + 1, j), fin), s, x, q, j)
<1> DEFINE i == s.read[x]
           r == SubSeq(q, i + 1, j)
           k == HeadersLen - g.forwarded
           P == split_headers(g, r, fin)
<1>0. s.read \in [Sessions -> 0 .. HeadersLen]
  BY DEF Record
<1>1. i \in Nat /\ i <= j /\ i \in 0 .. HeadersLen
  BY <1>0 DEF HeadersLen
<1>a. k = HeadersLen - i /\ i < HeadersLen /\ k \in Nat
  BY <1>1 DEF HeadersLen
<1>b. g.forwarded = i
  OBVIOUS
<1>2. r \in Seq(Item) /\ Len(r) = j - i
  BY <1>1, Piece
<1>3. CASE Len(r) <= k
  <2>1. j <= HeadersLen
    BY <1>1, <1>a, <1>2, <1>3 DEF HeadersLen
  <2>2. Readable(s, x, r)
    BY <2>1, RequestReadable
  <2>3. IsPass(P, Forward(g, Len(r)), r, fin, FALSE)
    BY <1>2, <1>3, SplitHeaders
  <2> HIDE DEF r, i
  <2>4. g.forwarded + Len(r) <= HeadersLen /\ Len(r) \in Nat /\ i + Len(r) = j
    BY <1>1, <1>2, <1>b, <2>1 DEF HeadersLen
  <2>5. LET t == Forward(g, Len(r))
        IN  /\ t.header_parsed /\ t.is_headers /\ t.prefix = <<>> /\ t.held = <<>>
            /\ t.forwarded = i + Len(r)
    BY <1>b, <2>4, ForwardIs
  <2>6. AtMost(i + Len(r)) = j
    BY <1>1, <2>1, <2>4 DEF AtMost, HeadersLen
  <2>7. GuardIs(Forward(g, Len(r)), q, j, j)
    BY <2>4, <2>5 DEF GuardIs
  <2> HIDE DEF P, r, i
  <2> QED
    BY <2>2, <2>3, <2>6, <2>7, Zenon DEF SplitOK, IsPass, P, r, i
<1>4. CASE ~(Len(r) <= k)
  <2> DEFINE a == SubSeq(r, 1, k)
             b == SubSeq(r, k + 1, Len(r))
  <2>1. j > HeadersLen
    BY <1>1, <1>a, <1>2, <1>4 DEF HeadersLen
  <2>2. IsPass(P, Holding(g, b, fin), a, FALSE, FALSE)
    BY <1>2, <1>4, SplitHeaders
  <2>3. a = SubSeq(q, i + 1, HeadersLen)
    <3>1. HeadersLen \in Nat /\ i <= HeadersLen /\ HeadersLen <= Len(q)
      BY <1>1, <2>1 DEF HeadersLen
    <3> HIDE DEF i, k
    <3>2. LET v == SubSeq(q, i + 1, HeadersLen)
          IN  /\ v \in Seq(Item) /\ Len(v) = k /\ \A z \in 1 .. k : v[z] = q[i + z]
      BY <1>1, <1>a, <3>1, Piece
    <3>3. \A z \in 1 .. Len(r) : r[z] = q[i + z]
      BY <1>1, <1>2, Piece DEF r
    <3>4. k \in Nat /\ k <= Len(r)
      BY <1>2, <1>a, <1>4
    <3> HIDE DEF r
    <3>5. a \in Seq(Item) /\ Len(a) = k /\ \A z \in 1 .. k : a[z] = r[z]
      BY <1>2, <3>4
    <3>6. \A z \in 1 .. k : a[z] = q[i + z]
      BY <3>3, <3>4, <3>5, <1>2
    <3> HIDE DEF a
    <3> DEFINE v == SubSeq(q, i + 1, HeadersLen)
    <3> HIDE DEF v
    <3>7. v \in Seq(Item) /\ Len(v) = k /\ \A z \in 1 .. k : v[z] = q[i + z]
      BY <3>2 DEF v, i
    <3>8. a = v
      BY <3>5, <3>6, <3>7
    <3> QED
      BY <3>8 DEF a, i, v
  <2>4. Readable(s, x, SubSeq(q, i + 1, HeadersLen))
    <3>1. HeadersLen \in Nat /\ s.read[x] <= HeadersLen /\ HeadersLen <= Len(q) /\ HeadersLen <= HeadersLen
      BY <1>1, <2>1 DEF HeadersLen
    <3> QED
      BY <3>1, RequestReadable
  <2>5. Len(SubSeq(q, i + 1, HeadersLen)) = k
    <3>1. HeadersLen \in Nat /\ i <= HeadersLen /\ HeadersLen <= Len(q)
      BY <1>1, <2>1 DEF HeadersLen
    <3> QED
      BY <1>1, <1>a, <3>1, Piece
  <2>6. AtMost(i + k) = HeadersLen
    BY <1>1, <1>a DEF AtMost, HeadersLen
  <2>a. k \in Nat /\ k <= Len(r) /\ Len(r) \in Nat
    BY <1>2, <1>a, <1>4
  <2> HIDE DEF k, r, P, i
  <2>7. b \in Seq(Item)
    BY <1>2, <2>a, Piece
  <2> HIDE DEF a, b
  <2>8. LET t == Holding(g, b, fin)
        IN  /\ t.header_parsed /\ t.is_headers /\ t.prefix = <<>>
            /\ t.forwarded = HeadersLen
    BY <2>7, HoldingIs
  <2>9. GuardIs(Holding(g, b, fin), q, HeadersLen, j)
    BY <2>8 DEF GuardIs, HeadersLen
  <2>10. Readable(s, x, a) /\ Len(a) = k
    BY <2>3, <2>4, <2>5
  <2> QED
    BY <2>2, <2>6, <2>9, <2>10, Zenon DEF SplitOK, IsPass, P, r, i
<1> QED
  BY <1>3, <1>4

LEMMA SplitSession ==
    ASSUME NEW s \in Record, NEW x \in Sessions, NEW q \in Seq(Item), IsRequest(q),
           NEW p \in Nat, NEW k \in Nat, k > 0, p + k <= Len(q),
           GuardIs(s.guard[x], q, s.read[x], p), Life(s, x), NEW fin \in BOOLEAN
    PROVE  SplitOK(split(s, x, SubSeq(q, p + 1, p + k), fin), s, x, q, p + k)
<1> DEFINE g == s.guard[x]
           v == SubSeq(q, p + 1, p + k)
           all == g.prefix \o v
           P == split(s, x, v, fin)
           j == p + k
<1>0. g \in Guard /\ s.read \in [Sessions -> 0 .. HeadersLen] /\ x \in Arriving
  BY DEF Record, Arriving
<1>1. s.read[x] \in 0 .. HeadersLen /\ j \in Nat /\ p <= j /\ j > p
  BY <1>0
<1>2. v \in Seq(Item) /\ Len(v) = k
  BY <1>1, Piece
<1> HIDE DEF g
<1>4. ASSUME ~g.header_parsed PROVE SplitOK(P, s, x, q, j)
  <2>1. /\ ~g.is_headers /\ p <= 1 /\ g.prefix = SubSeq(q, 1, p)
        /\ g.forwarded = 0 /\ g.held = <<>> /\ s.read[x] = 0
    BY <1>4 DEF GuardIs, Unparsed, g
  <2>2. all = SubSeq(q, 1, j)
    BY <1>1, <2>1, Joined
  <2>3. 0 \in Nat /\ 0 <= j /\ 0 + 1 = 1 /\ j - 0 = j
    BY <1>1
  <2>4. /\ all \in Seq(Item) /\ Len(all) = j
        /\ \A z \in 1 .. j : all[z] = q[z]
    <3>1. LET r == SubSeq(q, 0 + 1, j)
          IN  /\ r \in Seq(Item) /\ Len(r) = j - 0
              /\ \A z \in 1 .. (j - 0) : r[z] = q[0 + z]
      BY <1>1, <2>3, Piece
    <3>2. \A z \in 1 .. j : 0 + z = z
      OBVIOUS
    <3> QED
      BY <2>2, <2>3, <3>1, <3>2
  <2> HIDE DEF all, P, v, j
  <2>5. CASE Len(all) < 2 /\ fin
    <3>1. IsPass(P, Prefixed(g, <<>>), all, TRUE, FALSE)
      BY <1>0, <1>2, <1>4, <2>5, SplitCases, Zenon DEF P, all, g
    <3>2. s.read[x] <= j /\ j <= HeadersLen /\ j <= Len(q)
      BY <1>1, <2>1, <2>4, <2>5 DEF HeadersLen, j
    <3>3. Readable(s, x, SubSeq(q, s.read[x] + 1, j))
      BY <1>1, <3>2, RequestReadable
    <3>4. SubSeq(q, s.read[x] + 1, j) = all
      BY <2>1, <2>2, <2>3
    <3>5. AtMost(s.read[x] + Len(all)) # HeadersLen
      BY <1>1, <2>1, <2>4, <2>5 DEF AtMost, HeadersLen
    <3> QED
      BY <3>1, <3>3, <3>4, <3>5, Zenon DEF SplitOK, IsPass
  <2>6. CASE Len(all) < 2 /\ ~fin
    <3>1. IsPass(P, Prefixed(g, all), <<>>, FALSE, TRUE)
      BY <1>0, <1>2, <1>4, <2>6, SplitCases, Zenon DEF P, all, g
    <3>2. LET t == Prefixed(g, all)
          IN  /\ t.prefix = all /\ ~t.header_parsed /\ ~t.is_headers
              /\ t.forwarded = 0 /\ t.held = <<>>
      BY <1>0, <1>4, <2>1, <2>4, PrefixedIs
    <3>3. j <= 1
      BY <1>1, <2>4, <2>6
    <3>4. GuardIs(Prefixed(g, all), q, 0, j)
      BY <2>2, <3>2, <3>3 DEF GuardIs, Unparsed
    <3>6. P.wait /\ P.items = <<>> /\ P.guard = Prefixed(g, all)
      BY <3>1, Zenon DEF IsPass
    <3>7. GuardIs(P.guard, q, AtMost(s.read[x] + Len(P.items)), j)
      <4>1. AtMost(s.read[x] + Len(P.items)) = 0
        BY <2>1, <3>6 DEF AtMost, HeadersLen
      <4> QED
        BY <3>4, <3>6, <4>1
    <3> QED
      BY <3>6, <3>7, Zenon DEF SplitOK
  <2>7. CASE ~(Len(all) < 2)
    <3>1. Len(all) >= 2 /\ 2 \in 1 .. j /\ 2 \in DOMAIN q
      BY <1>1, <2>4, <2>7 DEF j
    <3>2. all[2] = "K"
      BY <2>4, <3>1 DEF IsRequest
    <3>3. P = split_headers(Heading(Parsed(g)), all, fin)
      BY <1>0, <1>2, <1>4, <3>1, <3>2, SplitCases, Zenon DEF P, all, g
    <3> DEFINE t == Heading(Parsed(g))
    <3>4. LET y == Parsed(g)
          IN  /\ y \in Guard /\ y.prefix = <<>> /\ y.header_parsed
              /\ y.forwarded = 0 /\ y.held = <<>>
      BY <1>0, <2>1, ParsedIs
    <3>5. /\ t \in Guard /\ t.prefix = <<>> /\ t.header_parsed /\ t.is_headers
          /\ t.forwarded = 0 /\ t.held = <<>>
      BY <3>4, HeadingIs
    <3>6. s.read[x] <= j /\ j <= Len(q) /\ s.read[x] < HeadersLen
      BY <1>1, <2>1 DEF HeadersLen, j
    <3>7. SubSeq(q, s.read[x] + 1, j) = all
      BY <2>1, <2>2, <2>3
    <3> HIDE DEF t
    <3>8. SplitOK(split_headers(t, SubSeq(q, s.read[x] + 1, j), fin), s, x, q, j)
      BY <1>1, <2>1, <3>5, <3>6, HeadersSplitOK
    <3> QED
      BY <3>3, <3>7, <3>8 DEF t
  <2> QED
    BY <2>5, <2>6, <2>7
<1>5. ASSUME g.header_parsed, s.read[x] < HeadersLen PROVE SplitOK(P, s, x, q, j)
  <2>1. /\ g.is_headers /\ g.prefix = <<>> /\ g.forwarded = s.read[x]
        /\ s.read[x] = p /\ g.held = <<>>
    BY <1>5 DEF GuardIs, g
  <2> HIDE DEF all, P
  <2>2. P = split_headers(g, v, fin)
    BY <1>0, <1>2, <1>5, <2>1, SplitCases, ZenonT(60) DEF P, all, g
  <2>3. SplitOK(split_headers(g, SubSeq(q, s.read[x] + 1, j), fin), s, x, q, j)
    BY <1>0, <1>1, <1>5, <2>1, HeadersSplitOK
  <2> QED
    BY <2>1, <2>2, <2>3
<1>6. ASSUME g.header_parsed, ~(s.read[x] < HeadersLen) PROVE SplitOK(P, s, x, q, j)
  <2>1. /\ g.is_headers /\ g.prefix = <<>> /\ g.forwarded = s.read[x]
    BY <1>6 DEF GuardIs, g
  <2>2. s.read[x] = HeadersLen /\ ~(g.forwarded < HeadersLen)
    BY <1>1, <1>6, <2>1 DEF HeadersLen
  <2>3. x \in s.blocked => x \in s.pending_headers
    BY DEF Life
  <2>4. \A z \in Seq(Item) : AtMost(s.read[x] + Len(z)) = HeadersLen
    BY <2>2 DEF AtMost, HeadersLen
  <2>5. <<>> \in Seq(Item)
    OBVIOUS
  <2> HIDE DEF all, P, v, j
  <2>6. CASE x \in s.pending_headers
    <3>1. IsPass(P, Adding(g, v, fin), <<>>, FALSE, FALSE)
      BY <1>0, <1>2, <1>6, <2>1, <2>2, <2>6, SplitCases, Zenon DEF P, all, g
    <3>2. LET t == Adding(g, v, fin)
          IN  t.header_parsed /\ t.is_headers /\ t.prefix = <<>> /\ t.forwarded = HeadersLen
      BY <1>0, <1>2, <1>6, <2>1, <2>2, AddingIs
    <3>3. GuardIs(Adding(g, v, fin), q, HeadersLen, j)
      BY <3>2 DEF GuardIs, HeadersLen
    <3>4. Readable(s, x, <<>>)
      BY DEF Readable
    <3> QED
      BY <2>4, <2>5, <3>1, <3>3, <3>4, Zenon DEF SplitOK, IsPass
  <2>7. CASE x \notin s.pending_headers
    <3>a. IF x \in s.pending_headers THEN IsPass(P, Adding(g, v, fin), <<>>, FALSE, FALSE)
                                     ELSE IsPass(P, g, v, fin, FALSE)
      BY <1>0, <1>2, <1>6, <2>1, <2>2, SplitCases, Zenon DEF P, all, g
    <3>1. IsPass(P, g, v, fin, FALSE)
      BY <2>7, <3>a, Zenon
    <3>2. GuardIs(g, q, HeadersLen, j)
      BY <1>6, <2>1, <2>2 DEF GuardIs, HeadersLen
    <3>3. Readable(s, x, v)
      BY <2>2, <2>3, <2>7 DEF Readable
    <3> QED
      BY <1>2, <2>4, <3>1, <3>2, <3>3, Zenon DEF SplitOK, IsPass
  <2> QED
    BY <2>6, <2>7
<1> QED
  BY <1>4, <1>5, <1>6

LEMMA NamedIn ==
    ASSUME NEW q \in Seq(Item), IsData(q), NEW i \in Nat, NEW j \in Nat, i <= j, j <= Len(q)
    PROVE  HasName(SubSeq(q, i + 1, j)) <=> i <= 1 /\ 2 <= j
<1> DEFINE r == SubSeq(q, i + 1, j)
<1>1. DOMAIN r = 1 .. (j - i) /\ \A k \in 1 .. (j - i) : r[k] = q[i + k]
  BY Piece
<1> HIDE DEF r
<1>2. ASSUME NEW k \in 1 .. (j - i) PROVE r[k] = "W" <=> i + k = 2
  <2>1. i + k \in DOMAIN q
    OBVIOUS
  <2>2. q[i + k] = IF i + k = 1 THEN "P" ELSE IF i + k = 2 THEN "W" ELSE "D"
    BY <2>1 DEF IsData
  <2> QED
    BY <1>1, <2>2
<1>3. ASSUME i <= 1, 2 <= j PROVE HasName(r)
  <2>1. 2 - i \in 1 .. (j - i) /\ i + (2 - i) = 2
    BY <1>3
  <2> QED
    BY <1>1, <1>2, <2>1 DEF HasName
<1>4. ASSUME HasName(r) PROVE i <= 1 /\ 2 <= j
  <2>1. PICK k \in 1 .. (j - i) : r[k] = "W"
    BY <1>1, <1>4 DEF HasName
  <2>2. i + k = 2
    BY <1>2, <2>1
  <2> QED
    BY <2>1, <2>2
<1> QED
  BY <1>3, <1>4 DEF r

(* The data stream d.                                                      *)
SplitData(P, s, d, q, p, j, fin) ==
    IF P.wait
    THEN d \notin s.named /\ Unparsed(P.guard, q, j)
    ELSE /\ Bytes(P.items) = Past(j) - Past(p)
         /\ Bytes(P.items) # 0 => d \in s.named \/ HasName(P.items)
         /\ d \in s.named \/ HasName(P.items) => P.guard.header_parsed /\ ~P.guard.is_headers
         /\ d \in s.named \/ HasName(P.items) \/ fin

(* v: the items from p + 1 to j.                                           *)
SplitReady(s, d, q, p, j, v) ==
    /\ s \in Record /\ d \in Bidi /\ q \in Seq(Item) /\ IsData(q) /\ q = content[d]
    /\ p \in Nat /\ j \in Nat /\ p < j /\ j <= Len(q) /\ Passed(s, d, p)
    /\ v = SubSeq(q, p + 1, j)

LEMMA SplitStream ==
    ASSUME NEW s, NEW d, NEW q, NEW p, NEW j, NEW v, SplitReady(s, d, q, p, j, v),
           NEW fin \in BOOLEAN
    PROVE  SplitData(split(s, d, v, fin), s, d, q, p, j, fin)
<1> DEFINE g == s.guard[d]
           all == g.prefix \o v
           P == split(s, d, v, fin)
<1> USE DEF SplitReady
<1>0. d \in Arriving /\ d \in Remote
  BY DEF Arriving, Remote
<1>a. g \in Guard
  BY <1>0 DEF Record
<1>1. j \in Nat /\ p <= j /\ j > p /\ j <= Len(q)
  OBVIOUS
<1>2. v \in Seq(Item)
  BY <1>1, Piece
<1>3. CASE d \in s.named
  <2>1. g.header_parsed /\ ~g.is_headers
    BY <1>3 DEF Passed
  <2>2. Bytes(v) = Past(j) - Past(p)
    BY <1>1, BytesOf
  <2> HIDE DEF g, all, P
  <2>3. IsPass(P, g, v, fin, FALSE)
    BY <1>0, <1>2, <2>1, SplitCases, ZenonT(60) DEF P, all, g
  <2>4. P.wait = FALSE /\ P.items = v /\ P.guard = g
    BY <2>3, Zenon DEF IsPass
  <2>5. SplitData(P, s, d, q, p, j, fin)
    BY <1>3, <2>1, <2>2, <2>4, Zenon DEF SplitData
  <2> QED
    BY <2>5 DEF P
<1>4. CASE d \notin s.named
  <2>1. ~g.header_parsed /\ ~g.is_headers /\ p <= 1 /\ g.prefix = SubSeq(q, 1, p)
    BY <1>4 DEF Passed, Unparsed
  <2>2. all = SubSeq(q, 1, j)
    BY <1>1, <2>1, Joined
  <2>3. 0 \in Nat /\ 0 <= j /\ 0 + 1 = 1 /\ j - 0 = j
    BY <1>1
  <2> DEFINE a == SubSeq(q, 0 + 1, j)
  <2>4. /\ a \in Seq(Item) /\ Len(a) = j - 0 /\ \A z \in 1 .. (j - 0) : a[z] = q[0 + z]
    BY <1>1, <2>3, Piece
  <2>5. Bytes(a) = Past(j) - Past(0)
    BY <1>1, <2>3, BytesOf
  <2>6. HasName(a) <=> 0 <= 1 /\ 2 <= j
    BY <1>1, <2>3, NamedIn
  <2>7. a = all
    BY <2>2, <2>3
  <2>8. Past(0) = 0 /\ Past(p) = 0 /\ (j < 2 => Past(j) = 0) /\ Past(j) \in Nat
    BY <1>1, <2>1 DEF Past
  <2> HIDE DEF g, all, P, a
  <2>9. all \in Seq(Item) /\ Len(all) = j /\ Bytes(all) = Past(j) - Past(p)
        /\ (HasName(all) <=> ~(j < 2)) /\ (Bytes(all) # 0 => HasName(all))
    BY <1>1, <2>3, <2>4, <2>5, <2>6, <2>7, <2>8
  <2>10. CASE j < 2 /\ fin
    <3>1. IsPass(P, Prefixed(g, <<>>), all, TRUE, FALSE)
      BY <1>0, <1>2, <2>1, <2>9, <2>10, SplitCases, Zenon DEF P, all, g
    <3>2. P.wait = FALSE /\ P.items = all
      BY <3>1, Zenon DEF IsPass
    <3>3. SplitData(P, s, d, q, p, j, fin)
      BY <1>4, <2>9, <2>10, <3>2, Zenon DEF SplitData
    <3> QED
      BY <3>3 DEF P
  <2>11. CASE j < 2 /\ ~fin
    <3>1. IsPass(P, Prefixed(g, all), <<>>, FALSE, TRUE)
      BY <1>0, <1>2, <2>1, <2>9, <2>11, SplitCases, Zenon DEF P, all, g
    <3>2. P.wait = TRUE /\ P.guard = Prefixed(g, all)
      BY <3>1, Zenon DEF IsPass
    <3>3. LET t == Prefixed(g, all)
          IN  t.prefix = all /\ ~t.header_parsed /\ ~t.is_headers
      BY <1>a, <2>1, <2>9, PrefixedIs DEF g
    <3>4. Unparsed(Prefixed(g, all), q, j)
      BY <1>1, <2>2, <2>11, <3>3 DEF Unparsed
    <3>5. SplitData(P, s, d, q, p, j, fin)
      BY <1>4, <3>2, <3>4, Zenon DEF SplitData
    <3> QED
      BY <3>5 DEF P
  <2>12. CASE ~(j < 2)
    <3>1. Len(all) >= 2 /\ 2 \in 1 .. (j - 0) /\ 2 \in DOMAIN q /\ 0 + 2 = 2
      BY <1>1, <2>9, <2>12
    <3>2. all[2] # "K"
      BY <2>4, <2>7, <3>1 DEF IsData
    <3>3. IsPass(P, Parsed(g), all, fin, FALSE)
      BY <1>0, <1>2, <2>1, <3>1, <3>2, SplitCases, ZenonT(60) DEF P, all, g
    <3>4. P.wait = FALSE /\ P.guard = Parsed(g) /\ P.items = all
      BY <3>3, Zenon DEF IsPass
    <3>5. Parsed(g).header_parsed /\ ~Parsed(g).is_headers
      BY <1>a, <2>1, ParsedIs DEF g
    <3>6. SplitData(P, s, d, q, p, j, fin)
      BY <2>9, <2>12, <3>4, <3>5, Zenon DEF SplitData
    <3> QED
      BY <3>6 DEF P
  <2> QED
    BY <2>10, <2>11, <2>12
<1> QED
  BY <1>3, <1>4

-----------------------------------------------------------------------------
(* receive_stream_data.  p and f become r and g: items of x arrive, and    *)
(* its FIN perhaps.                                                        *)

Elsewhere(x, p, r, f, g) ==
    /\ f \subseteq g /\ g \subseteq f \cup {x}
    /\ \A y \in Arriving : y # x => r[y] = p[y]

(* v: after the read, before process_after_read(v, x, fin).                *)
Arrived(s, v, x, r, g, fin) ==
    /\ v.error = "none" /\ v.confirmed = s.confirmed
    /\ \A z \in Sessions : z # x => Same(s, v, z)
    /\ \A e \in Remote : e # x => SameStream(s, v, e)
    /\ x \in Sessions /\ ~v.closed /\ v.state[x] # "gone" => Guarded(v, x, r[x])
    /\ x \in Remote \ g /\ ~v.closed /\ x \notin v.deleted => Passed(v, x, r[x])
    /\ x \in Sessions =>
          /\ x \in g /\ ~fin /\ ~v.closed /\ v.state[x] # "gone" => HeldFin(v, x)
          /\ x \in v.pre_accept_fin \cup v.fin_accepted \cup v.qpack_blocked_fin => x \in g
          /\ v.guard[x].held_fin => x \in g
          /\ x \notin s.confirmed => v.over[x] = s.over[x]

LEMMA ArrivedReady ==
    ASSUME NEW n, NEW m, NEW s, NEW p, NEW a, NEW f, Mid(s, n, p, a, f), Ends(s, f),
           ~s.closed, NEW x \in Arriving, x \notin a, NEW r, NEW g,
           Elsewhere(x, p, r, f, g), NEW v, NEW fin \in BOOLEAN, Good(v, m),
           Arrived(s, v, x, r, g, fin)
    PROVE  /\ Guards(v, r, a, g) /\ Unprocessed(v, g, x, fin) /\ FinsOnly(v, g)
           /\ flushable(v) \subseteq flushable(s) \cup {x}
<1>0. Guards(s, p, a, f) /\ FinsOnly(s, f)
  BY DEF Mid
<1>1. \A z \in Sessions : Life(v, z)
  BY GoodFacts
<1>2. Sessions \subseteq Arriving /\ Remote \subseteq Arriving
  BY DEF Arriving
<1>3. Guards(v, r, a, g)
  <2>1. CASE v.closed
    BY <2>1 DEF Guards
  <2>2. CASE ~v.closed
    <3>1. ASSUME NEW c \in Sessions \ a, v.state[c] # "gone" PROVE Guarded(v, c, r[c])
      <4>1. CASE c = x
        BY <2>2, <3>1, <4>1 DEF Arrived
      <4>2. CASE c # x
        <5>1. Same(s, v, c) /\ r[c] = p[c]
          BY <1>2, <4>2 DEF Arrived, Elsewhere
        <5>2. Guarded(s, c, p[c])
          BY <1>0, <3>1, <5>1 DEF Guards, Same
        <5> QED
          BY <5>1, <5>2 DEF Guarded, Same
      <4> QED
        BY <4>1, <4>2
    <3>2. ASSUME NEW c \in Sessions \cap a PROVE v.guard[c].held = <<>>
      <4>1. c # x
        OBVIOUS
      <4> QED
        BY <1>0, <4>1 DEF Guards, Same, Arrived
    <3>3. ASSUME NEW d \in Remote \ (a \cup g), d \notin v.deleted PROVE Passed(v, d, r[d])
      <4>1. CASE d = x
        BY <2>2, <3>3, <4>1 DEF Arrived
      <4>2. CASE d # x
        <5>1. SameStream(s, v, d) /\ r[d] = p[d] /\ d \notin f
          BY <1>2, <4>2 DEF Arrived, Elsewhere
        <5>2. Passed(s, d, p[d])
          BY <1>0, <3>3, <5>1 DEF Guards, SameStream
        <5> QED
          BY <5>1, <5>2 DEF Passed, SameStream
      <4> QED
        BY <4>1, <4>2
    <3> QED
      BY <3>1, <3>2, <3>3 DEF Guards
  <2> QED
    BY <2>1, <2>2
<1>4. Unprocessed(v, g, x, fin)
  <2> SUFFICES ASSUME ~v.closed, NEW z \in g \cap Sessions, ~(fin /\ z = x)
               PROVE  /\ z \in v.session_ids =>
                            \/ z \in v.pre_accept_fin \cup v.fin_accepted \cup v.qpack_blocked_fin
                            \/ HeldFin(v, z)
                      /\ z \in v.blocked => z \in v.qpack_blocked_fin \/ HeldFin(v, z)
    BY DEF Unprocessed
  <2>1. CASE z # x
    <3>1. Same(s, v, z) /\ z \in f
      BY <2>1 DEF Arrived, Elsewhere
    <3>2. /\ z \in s.session_ids => z \in s.pre_accept_fin \cup s.fin_accepted
          /\ z \in s.blocked => z \in s.qpack_blocked_fin \/ HeldFin(s, z)
      BY <3>1 DEF Ends
    <3>3. HeldFin(s, z) <=> HeldFin(v, z)
      BY <3>1 DEF HeldFin, Same
    <3> QED
      BY <3>1, <3>2, <3>3 DEF Same
  <2>2. CASE z = x
    <3>1. v.state[z] = "gone" => z \notin v.session_ids /\ z \notin v.blocked
      BY <1>1 DEF Life
    <3>2. v.state[z] # "gone" => HeldFin(v, z)
      BY <2>2 DEF Arrived
    <3> QED
      BY <3>1, <3>2
  <2> QED
    BY <2>1, <2>2
<1>5. FinsOnly(v, g)
  <2>1. v.pre_accept_fin \cup v.fin_accepted \cup v.qpack_blocked_fin \subseteq Sessions
    BY DEF Good, Record
  <2>2. ASSUME NEW z \in Sessions,
               z \in v.pre_accept_fin \cup v.fin_accepted \cup v.qpack_blocked_fin
        PROVE  z \in g
    <3>1. CASE z = x
      BY <2>2, <3>1 DEF Arrived
    <3>2. CASE z # x
      <4>1. Same(s, v, z)
        BY <3>2 DEF Arrived
      <4>2. z \in f
        BY <1>0, <2>2, <4>1 DEF FinsOnly, Same
      <4> QED
        BY <4>2 DEF Elsewhere
    <3> QED
      BY <3>1, <3>2
  <2>3. ASSUME NEW z \in Sessions, v.guard[z].held_fin PROVE z \in g
    <3>1. CASE z = x
      BY <2>3, <3>1 DEF Arrived
    <3>2. CASE z # x
      <4>1. Same(s, v, z)
        BY <3>2 DEF Arrived
      <4>2. z \in f
        BY <1>0, <2>3, <4>1 DEF FinsOnly, Same
      <4> QED
        BY <4>2 DEF Elsewhere
    <3> QED
      BY <3>1, <3>2
  <2> QED
    BY <2>1, <2>2, <2>3 DEF FinsOnly
<1>6. flushable(v) \subseteq flushable(s) \cup {x}
  <2> SUFFICES ASSUME NEW z \in flushable(v), z # x PROVE z \in flushable(s)
    OBVIOUS
  <2>1. /\ z \in Sessions /\ v.guard[z].held # <<>> /\ v.guard[z].forwarded = HeadersLen
        /\ z \notin v.pending_headers
    BY FlushableFacts
  <2>2. Same(s, v, z)
    BY <2>1 DEF Arrived
  <2> QED
    BY <2>1, <2>2, FlushableFacts DEF Same
<1> QED
  BY <1>3, <1>4, <1>5, <1>6

(* What receiving for x leaves.                                            *)
Received(s, t, m, r, a, g, x) ==
    /\ Mid(t, m, r, a, g) /\ Fed(t) /\ Ends(t, g)
    /\ \A z \in Sessions : z # x \/ z \notin s.confirmed => SameOver(s, t, z)

(* The same before flush_unblocked_held_data.                              *)
Handled(s, v, t, m, r, a, g, x) ==
    /\ Mid(t, m, r, a, g) /\ flushable(t) \subseteq flushable(v)
    /\ \A z \in Sessions : z # x \/ z \notin s.confirmed => SameOver(s, t, z)

LEMMA ArrivedProcessed ==
    ASSUME NEW n, NEW m, NEW s, NEW p, NEW a, NEW f, Mid(s, n, p, a, f), Ends(s, f),
           Fed(s), ~s.closed, NEW x \in Arriving, x \notin a, NEW r, NEW g,
           Elsewhere(x, p, r, f, g), NEW v, NEW fin \in BOOLEAN, Good(v, m),
           Arrived(s, v, x, r, g, fin), fin => x \in g
    PROVE  LET t == process_after_read(v, x, fin)
           IN  /\ Received(s, flush_unblocked_held_data(t), m, r, a, g, x)
               /\ Handled(s, v, t, m, r, a, g, x)
<1> DEFINE t == process_after_read(v, x, fin)
           u == flush_unblocked_held_data(t)
<1>1. /\ Guards(v, r, a, g) /\ Unprocessed(v, g, x, fin) /\ FinsOnly(v, g)
      /\ flushable(v) \subseteq flushable(s) \cup {x}
  BY ArrivedReady
<1>2. v.error = "none" /\ v.confirmed = s.confirmed
  BY DEF Arrived
<1>3. /\ Mid(t, m, r, a, g) /\ t.confirmed = s.confirmed
      /\ flushable(t) \subseteq flushable(v)
      /\ \A z \in Sessions : z \notin v.pending_fin => SameOver(v, t, z)
  <2>1. v.error = "none" /\ (fin => x \in g)
    BY <1>2
  <2>2. /\ Mid(t, m, r, a, g) /\ t.confirmed = v.confirmed
        /\ flushable(t) \subseteq flushable(v)
        /\ \A z \in Sessions : z \notin v.pending_fin => SameOver(v, t, z)
    <3>1. t = process_after_read(v, x, fin)
      OBVIOUS
    <3> HIDE DEF t
    <3> QED
      BY <1>1, <2>1, <3>1, ProcessKeeps
  <2> QED
    BY <1>2, <2>2
<1>4. flushable(s) = {}
  BY DEF Fed
<1>5. flushable(t) \subseteq {x}
  BY <1>1, <1>3, <1>4
<1> HIDE DEF t
<1>6. /\ Mid(u, m, r, a, g) /\ Fed(u)
      /\ \A z \in Sessions : z \notin flushable(t) \/ z \notin t.confirmed => SameOver(t, u, z)
  BY <1>3, FlushKeeps
<1> HIDE DEF u
<1>7. Ends(u, g)
  BY <1>6, FedEnds
<1>8. \A z \in Sessions : Life(v, z)
  BY GoodFacts
<1>9. ASSUME NEW z \in Sessions, z # x \/ z \notin s.confirmed PROVE SameOver(s, t, z)
  <2>1. v.over[z] = s.over[z] /\ z \notin v.pending_fin
    <3>1. CASE z # x
      <4>1. Same(s, v, z) /\ s.pending_fin = {}
        BY <3>1 DEF Arrived, Mid, Calm
      <4> QED
        BY <4>1 DEF Same
    <3>2. CASE z = x
      <4>1. v.over[z] = s.over[z]
        BY <1>9, <3>2 DEF Arrived
      <4>2. z \notin v.pending_fin
        BY <1>2, <1>8, <1>9, <3>2 DEF Life
      <4> QED
        BY <4>1, <4>2
    <3> QED
      BY <3>1, <3>2
  <2> QED
    BY <1>3, <2>1 DEF SameOver
<1>10. ASSUME NEW z \in Sessions, z # x \/ z \notin s.confirmed PROVE SameOver(s, u, z)
  BY <1>3, <1>5, <1>6, <1>9, <1>10 DEF SameOver
<1> QED
  BY <1>3, <1>6, <1>7, <1>9, <1>10 DEF Received, Handled, t, u

(* Only the guard of x may differ.                                         *)
Reguarded(s, w, x) == /\ Keeps(s, w, {"guard"})
                      /\ \A z \in Arriving : z # x => w.guard[z] = s.guard[z]

LEMMA ReguardedSame ==
    ASSUME NEW s, NEW w, NEW x, Reguarded(s, w, x)
    PROVE  /\ \A z \in Sessions : z # x => Same(s, w, z)
           /\ \A e \in Remote : e # x => SameStream(s, w, e)
           /\ w.confirmed = s.confirmed /\ w.error = s.error /\ w.closed = s.closed
           /\ w.state = s.state /\ w.read = s.read /\ w.over = s.over
           /\ w.pre_accept_fin = s.pre_accept_fin /\ w.fin_accepted = s.fin_accepted
           /\ w.qpack_blocked_fin = s.qpack_blocked_fin /\ w.blocked = s.blocked
           /\ w.named = s.named /\ w.deleted = s.deleted /\ w.rejected = s.rejected
           /\ w.pending_headers = s.pending_headers
<1>1. /\ w.confirmed = s.confirmed /\ w.error = s.error /\ w.closed = s.closed
      /\ w.state = s.state /\ w.read = s.read /\ w.over = s.over
      /\ w.pre_accept_fin = s.pre_accept_fin /\ w.fin_accepted = s.fin_accepted
      /\ w.qpack_blocked_fin = s.qpack_blocked_fin /\ w.blocked = s.blocked
      /\ w.named = s.named /\ w.deleted = s.deleted /\ w.rejected = s.rejected
  BY DEF Reguarded, Keeps, Names
<1>2. /\ w.session_ids = s.session_ids /\ w.accepted = s.accepted
      /\ w.pending_headers = s.pending_headers /\ w.pending_fin = s.pending_fin
      /\ w.stale_2xx = s.stale_2xx /\ w.written = s.written /\ w.ended = s.ended
      /\ w.response = s.response /\ w.ready = s.ready /\ w.why = s.why
  BY DEF Reguarded, Keeps, Names
<1>3. Sessions \subseteq Arriving /\ Remote \subseteq Arriving
  BY DEF Arriving
<1>4. \A z \in Arriving : z # x => w.guard[z] = s.guard[z]
  BY DEF Reguarded
<1>5. \A z \in Sessions : z # x => Same(s, w, z)
  BY <1>1, <1>2, <1>3, <1>4 DEF Same
<1>6. \A e \in Remote : e # x => SameStream(s, w, e)
  BY <1>1, <1>3, <1>4 DEF SameStream
<1> QED
  BY <1>1, <1>2, <1>5, <1>6

LEMMA SetGuardReguarded ==
    ASSUME NEW n, NEW s, Good(s, n), NEW x \in Arriving, NEW G \in Guard
    PROVE  LET w == SetGuard(s, x, G)
           IN  Good(w, n) /\ Reguarded(s, w, x) /\ w.guard[x] = G
BY SetGuardGood, SetGuardShape, SMTT(40) DEF Reguarded, Good

(* Nothing of the CONNECT stream x is handed to nghttp3.                   *)
LEMMA SessionHeld ==
    ASSUME NEW n, NEW s, NEW p, NEW a, NEW f, Mid(s, n, p, a, f), NEW x \in Sessions,
           x \notin f, NEW r, NEW g, NEW w, Reguarded(s, w, x), NEW fin \in BOOLEAN,
           x \in g <=> fin, w.guard[x].held_fin => x \in g,
           s.state[x] # "gone" => GuardIs(w.guard[x], content[x], s.read[x], r[x])
    PROVE  Arrived(s, w, x, r, g, fin)
<1>1. /\ \A z \in Sessions : z # x => Same(s, w, z)
      /\ \A e \in Remote : e # x => SameStream(s, w, e)
      /\ w.confirmed = s.confirmed /\ w.error = s.error
      /\ w.state = s.state /\ w.read = s.read /\ w.over = s.over
      /\ w.pre_accept_fin = s.pre_accept_fin /\ w.fin_accepted = s.fin_accepted
      /\ w.qpack_blocked_fin = s.qpack_blocked_fin
  BY ReguardedSame
<1>2. s.error = "none" /\ x \notin s.pre_accept_fin \cup s.fin_accepted \cup s.qpack_blocked_fin
  BY DEF Mid, Calm, FinsOnly
<1>3. x \notin Remote
  BY SessionAssumption DEF Streams
<1>4. w.state[x] # "gone" => Guarded(w, x, r[x])
  BY <1>1, GuardedIs
<1> QED
  BY <1>1, <1>2, <1>3, <1>4 DEF Arrived

(* q is read of it, and the FIN if b.                                      *)
LEMMA SessionRead ==
    ASSUME NEW n, NEW s, NEW p, NEW a, NEW f, Mid(s, n, p, a, f), NEW x \in Sessions,
           x \notin f, NEW r, NEW g, NEW w, Good(w, n), Reguarded(s, w, x),
           NEW q \in Seq(Item), NEW b \in BOOLEAN, Readable(w, x, q),
           w.guard[x].held_fin => x \in g, x \in g /\ ~b => HeldFin(w, x),
           s.state[x] # "gone" /\ (b => AtMost(s.read[x] + Len(q)) = HeadersLen) =>
               GuardIs(w.guard[x], content[x], AtMost(s.read[x] + Len(q)), r[x])
    PROVE  LET u == read_from_nghttp3(w, x, q, b)
           IN  Good(u, n) /\ Arrived(s, u, x, r, g, b)
<1> DEFINE u == read_from_nghttp3(w, x, q, b)
<1>1. /\ \A z \in Sessions : z # x => Same(s, w, z)
      /\ \A e \in Remote : e # x => SameStream(s, w, e)
      /\ w.confirmed = s.confirmed /\ w.error = s.error
      /\ w.state = s.state /\ w.read = s.read /\ w.over = s.over
      /\ w.pre_accept_fin = s.pre_accept_fin /\ w.fin_accepted = s.fin_accepted
      /\ w.qpack_blocked_fin = s.qpack_blocked_fin
  BY ReguardedSame
<1>2. s.error = "none" /\ x \notin s.pre_accept_fin \cup s.fin_accepted \cup s.qpack_blocked_fin
  BY DEF Mid, Calm, FinsOnly
<1>3. x \notin Remote
  BY SessionAssumption DEF Streams
<1>4. Good(u, n) /\ Taken(w, u, x, Len(q), b)
  BY <1>1, <1>2, ReadSession
<1> HIDE DEF u
<1>5. /\ OnlySession(w, u, x) /\ u.confirmed = w.confirmed /\ u.error = "none"
      /\ x \notin u.pre_accept_fin \cup u.fin_accepted \cup u.qpack_blocked_fin
      /\ u.guard[x] = w.guard[x] \/ u.guard[x] = NoGuard
      /\ w.state[x] = "gone" => u.state[x] = "gone"
      /\ x \notin w.confirmed => u.over[x] = w.over[x]
  BY <1>1, <1>2, <1>4 DEF Taken
<1>6. ASSUME ~u.closed, u.state[x] # "gone"
      PROVE  /\ u.guard[x] = w.guard[x]
             /\ u.read[x] = AtMost(s.read[x] + Len(q)) /\ (b => u.read[x] = HeadersLen)
  BY <1>1, <1>4, <1>6 DEF Taken, AtMost
<1>7. ASSUME NEW z \in Sessions, z # x PROVE Same(s, u, z)
  BY <1>1, <1>5, <1>7, SameAfter DEF OnlySession
<1>8. ASSUME NEW e \in Remote PROVE SameStream(s, u, e)
  BY <1>1, <1>3, <1>5 DEF OnlySession, SameStream
<1>9. ASSUME ~u.closed, u.state[x] # "gone" PROVE Guarded(u, x, r[x])
  <2>1. s.state[x] # "gone"
    BY <1>1, <1>5, <1>9
  <2>2. GuardIs(w.guard[x], content[x], AtMost(s.read[x] + Len(q)), r[x])
    BY <1>6, <1>9, <2>1
  <2> QED
    BY <1>6, <1>9, <2>2, GuardedIs
<1>10. ASSUME x \in g, ~b, ~u.closed, u.state[x] # "gone" PROVE HeldFin(u, x)
  <2>1. HeldFin(w, x)
    BY <1>10
  <2>2. u.guard[x] = w.guard[x]
    BY <1>6, <1>10
  <2> QED
    BY <2>1, <2>2 DEF HeldFin
<1>11. u.guard[x].held_fin => x \in g
  BY <1>5 DEF NoGuard
<1>12. x \notin s.confirmed => u.over[x] = s.over[x]
  BY <1>1, <1>5
<1> QED
  BY <1>1, <1>3, <1>4, <1>5, <1>7, <1>8, <1>9, <1>10, <1>11, <1>12 DEF Arrived, u

(* R: what receive_stream_data returns, P: what split does.                *)
ReceiveCases(s, x, q, fin, R, P, w) ==
    /\ bypass_guard(s, x, q) =>
         R = flush_unblocked_held_data(
                 process_after_read(read_from_nghttp3(s, x, q, fin), x, fin))
    /\ ~bypass_guard(s, x, q) /\ P.wait => R = process_after_read(w, x, FALSE)
    /\ ~bypass_guard(s, x, q) /\ ~P.wait /\ P.items = <<>> /\ ~P.fin =>
         R = flush_unblocked_held_data(process_after_read(w, x, fin))
    /\ ~bypass_guard(s, x, q) /\ ~P.wait /\ ~(P.items = <<>> /\ ~P.fin) =>
         R = flush_unblocked_held_data(
                 process_after_read(read_from_nghttp3(w, x, P.items, P.fin), x, P.fin))

LEMMA ReceiveIs ==
    ASSUME NEW s, ~s.closed, NEW x, x \notin s.rejected, NEW q, NEW fin \in BOOLEAN
    PROVE  LET P == split(s, x, q, fin)
           IN  ReceiveCases(s, x, q, fin, receive_stream_data(s, x, q, fin), P,
                            SetGuard(s, x, P.guard))
<1> DEFINE R == receive_stream_data(s, x, q, fin)
           P == split(s, x, q, fin)
           w == SetGuard(s, x, P.guard)
           held == P.items = <<>> /\ ~P.fin /\ ~P.wait
           u == IF held THEN w ELSE read_from_nghttp3(w, x, P.items, P.fin)
<1>1. R = IF bypass_guard(s, x, q)
          THEN flush_unblocked_held_data(
                   process_after_read(read_from_nghttp3(s, x, q, fin), x, fin))
          ELSE IF P.wait THEN process_after_read(w, x, FALSE)
          ELSE flush_unblocked_held_data(process_after_read(u, x, IF held THEN fin ELSE P.fin))
  BY Zenon DEF receive_stream_data, SetGuard
<1> HIDE DEF R, P, w
<1> QED
  BY <1>1, Zenon DEF R, P, w, ReceiveCases

LEMMA ReceiveSession ==
    ASSUME NEW n, NEW s, NEW p, NEW a, NEW f, Mid(s, n, p, a, f), Ends(s, f), Fed(s),
           ~s.closed, NEW x \in Sessions, x \notin a, x \notin f,
           NEW i \in Nat, p[x] = i, NEW k \in Nat, NEW fin \in BOOLEAN,
           NEW q \in Seq(Item), q = content[x], IsRequest(q), i + k <= Len(q),
           NEW r, NEW g, Elsewhere(x, p, r, f, g), r[x] = i + k, x \in g <=> fin,
           k > 0 \/ fin
    PROVE  Received(s, receive_stream_data(s, x, SubSeq(q, i + 1, i + k), fin), n, r, a, g, x)
<1> DEFINE v == SubSeq(q, i + 1, i + k)
           R == receive_stream_data(s, x, v, fin)
           P == split(s, x, v, fin)
           w == SetGuard(s, x, P.guard)
<1>0. s \in Record /\ s.error = "none" /\ Good(s, n) /\ Life(s, x) /\ x \in Arriving
  BY GoodFacts DEF Mid, Calm, Good, Arriving
<1>1. s.rejected \subseteq Remote /\ s.stream_info \subseteq Streams /\ s.guard[x] \in Guard
      /\ s.read[x] \in 0 .. HeadersLen
  BY <1>0 DEF Record
<1>2. x \notin Remote /\ x \notin Streams /\ x \notin s.rejected /\ x \notin s.stream_info
      /\ x \notin Uni
  BY <1>1, SessionAssumption DEF Streams, Remote
<1>3. i + k \in Nat /\ i <= i + k /\ k = (i + k) - i
  OBVIOUS
<1>4. v \in Seq(Item) /\ Len(v) = k /\ (v = <<>> <=> k = 0)
  <2>1. v \in Seq(Item) /\ Len(v) = (i + k) - i
    BY <1>3, Piece
  <2> QED
    BY <1>3, <2>1
<1>5. bypass_guard(s, x, v) <=> v = <<>>
  BY <1>2 DEF bypass_guard
<1>6. s.state[x] # "gone" => GuardIs(s.guard[x], q, s.read[x], i)
  <2>1. Guards(s, p, a, f)
    BY DEF Mid
  <2>2. s.state[x] # "gone" => Guarded(s, x, i)
    BY <2>1 DEF Guards
  <2> QED
    BY <2>2, GuardedIs
<1>7. ~s.guard[x].held_fin
  BY DEF Mid, FinsOnly
<1>8. fin => x \in g
  OBVIOUS
<1> HIDE DEF v
<1>9. CASE v = <<>>
  <2>1. k = 0 /\ fin /\ r[x] = i
    BY <1>4, <1>9
  <2> DEFINE u == read_from_nghttp3(s, x, v, fin)
  <2>2. R = flush_unblocked_held_data(process_after_read(u, x, fin))
    <3>1. ReceiveCases(s, x, v, fin, R, P, w)
      BY <1>2, ReceiveIs
    <3> HIDE DEF R, P, w, u
    <3> QED
      BY <1>5, <1>9, <3>1, Zenon DEF ReceiveCases, u
  <2>3. Readable(s, x, v)
    BY <1>9 DEF Readable
  <2>4. Reguarded(s, s, x)
    BY DEF Reguarded, Keeps
  <2>5. s.state[x] # "gone" /\ (fin => AtMost(s.read[x] + Len(v)) = HeadersLen) =>
            GuardIs(s.guard[x], q, AtMost(s.read[x] + Len(v)), r[x])
    <3>1. AtMost(s.read[x] + Len(v)) = s.read[x]
      BY <1>1, <1>4, <2>1 DEF AtMost, HeadersLen
    <3> QED
      BY <1>6, <2>1, <3>1
  <2>6. Good(u, n) /\ Arrived(s, u, x, r, g, fin)
    BY <1>0, <1>4, <1>7, <2>1, <2>3, <2>4, <2>5, SessionRead
  <2> HIDE DEF R, u
  <2> QED
    BY <1>0, <1>8, <2>2, <2>6, ArrivedProcessed DEF R, v
<1>10. CASE v # <<>>
  <2>1. k > 0 /\ ~bypass_guard(s, x, v)
    BY <1>4, <1>5, <1>10
  <2>2. SplitFin(P, s.guard[x], fin)
    BY <1>0, <1>4, <1>10, SplitTyped
  <2>3. s.state[x] # "gone" => SplitOK(P, s, x, q, i + k)
    BY <1>0, <1>6, <2>1, SplitSession DEF v
  <2>4. P.guard \in Guard /\ P.items \in Seq(Item) /\ P.fin \in BOOLEAN /\ P.wait \in BOOLEAN
    BY <2>2, Zenon DEF SplitFin
  <2>5. (P.fin => fin) /\ (P.guard.held_fin => fin)
    BY <1>7, <2>2, Zenon DEF SplitFin
  <2>6. P.wait => /\ ~fin /\ ~P.fin /\ P.items = <<>>
                  /\ P.guard.held = s.guard[x].held /\ P.guard.forwarded = s.guard[x].forwarded
    BY <2>2, Zenon DEF SplitFin
  <2>7. fin /\ ~P.fin => /\ P.guard.held # <<>> /\ P.guard.held_fin
                         /\ P.guard.forwarded = HeadersLen
    BY <2>2, Zenon DEF SplitFin
  <2> HIDE DEF P
  <2>8. Good(w, n) /\ Reguarded(s, w, x) /\ w.guard[x] = P.guard
    BY <1>0, <2>4, SetGuardReguarded
  <2>9. /\ (P.wait => R = process_after_read(w, x, FALSE))
        /\ (~P.wait /\ P.items = <<>> /\ ~P.fin =>
                R = flush_unblocked_held_data(process_after_read(w, x, fin)))
        /\ (~P.wait /\ ~(P.items = <<>> /\ ~P.fin) =>
                R = flush_unblocked_held_data(
                        process_after_read(read_from_nghttp3(w, x, P.items, P.fin), x, P.fin)))
    <3>1. ReceiveCases(s, x, v, fin, R, P, w)
      BY <1>2, ReceiveIs DEF P
    <3> HIDE DEF R, P, w
    <3> QED
      BY <2>1, <3>1, Zenon DEF ReceiveCases
  <2>10. w.read = s.read /\ w.state = s.state /\ w.blocked = s.blocked /\ w.over = s.over
         /\ w.pending_headers = s.pending_headers
         /\ \A z \in Sessions : z # x => Same(s, w, z)
    BY <2>8, ReguardedSame
  <2> HIDE DEF w, R
  <2>11. s.state[x] # "gone" /\ (P.fin => AtMost(s.read[x] + Len(P.items)) = HeadersLen) =>
             GuardIs(P.guard, q, AtMost(s.read[x] + Len(P.items)), r[x])
    BY <2>3, Zenon DEF SplitOK
  <2>12. ASSUME P.items = <<>>, ~P.fin, s.state[x] # "gone"
         PROVE  GuardIs(P.guard, q, s.read[x], r[x])
    <3>1. AtMost(s.read[x] + Len(P.items)) = s.read[x]
      BY <1>1, <2>12 DEF AtMost, HeadersLen
    <3> QED
      BY <2>11, <2>12, <3>1
  <2>13. CASE P.wait
    <3> DEFINE t == process_after_read(w, x, fin)
    <3>1. ~fin /\ x \notin g /\ P.items = <<>> /\ ~P.fin
      BY <2>6, <2>13
    <3>2. s.state[x] # "gone" => GuardIs(w.guard[x], content[x], s.read[x], r[x])
      BY <2>8, <2>12, <3>1
    <3>3. w.guard[x].held_fin => x \in g
      BY <2>5, <2>8
    <3>4. Arrived(s, w, x, r, g, fin)
      BY <2>8, <3>2, <3>3, SessionHeld
    <3>5. R = t
      <4>1. fin = FALSE
        BY <3>1
      <4> QED
        BY <2>9, <2>13, <4>1
    <3>6. /\ Mid(t, n, r, a, g) /\ flushable(t) \subseteq flushable(w)
          /\ \A z \in Sessions : z # x \/ z \notin s.confirmed => SameOver(s, t, z)
      <4>1. Handled(s, w, t, n, r, a, g, x)
        BY <1>0, <1>8, <2>8, <3>4, ArrivedProcessed
      <4> QED
        BY <4>1 DEF Handled
    <3> HIDE DEF t
    <3>7. flushable(w) \subseteq flushable(s)
      <4> SUFFICES ASSUME NEW z \in flushable(w) PROVE z \in flushable(s)
        OBVIOUS
      <4>1. /\ z \in Sessions /\ w.guard[z].held # <<>> /\ w.guard[z].forwarded = HeadersLen
            /\ z \notin w.pending_headers
        BY FlushableFacts
      <4>2. w.guard[z].held = s.guard[z].held /\ w.guard[z].forwarded = s.guard[z].forwarded
        <5>1. CASE z = x
          BY <2>6, <2>8, <2>13, <5>1
        <5>2. CASE z # x
          BY <2>10, <4>1, <5>2 DEF Same
        <5> QED
          BY <5>1, <5>2
      <4> QED
        BY <2>10, <4>1, <4>2, FlushableFacts
    <3>8. Fed(t)
      BY <3>6, <3>7 DEF Fed
    <3>9. Ends(t, g)
      BY <3>6, <3>8, FedEnds
    <3> QED
      BY <3>5, <3>6, <3>8, <3>9 DEF Received, R, v
  <2>14. CASE ~P.wait /\ P.items = <<>> /\ ~P.fin
    <3>1. s.state[x] # "gone" => GuardIs(w.guard[x], content[x], s.read[x], r[x])
      BY <2>8, <2>12, <2>14
    <3>2. w.guard[x].held_fin => x \in g
      BY <2>5, <2>8
    <3>3. Arrived(s, w, x, r, g, fin)
      BY <2>8, <3>1, <3>2, SessionHeld
    <3>4. R = flush_unblocked_held_data(process_after_read(w, x, fin))
      BY <2>9, <2>14
    <3> QED
      BY <1>0, <1>8, <2>8, <3>3, <3>4, ArrivedProcessed DEF R, v
  <2>15. CASE ~P.wait /\ ~(P.items = <<>> /\ ~P.fin)
    <3> DEFINE y == P.items
               b == P.fin
               u == read_from_nghttp3(w, x, y, b)
    <3>1. R = flush_unblocked_held_data(process_after_read(u, x, b))
      BY <2>9, <2>15
    <3>2. Readable(w, x, y)
      <4>1. CASE s.state[x] = "gone"
        BY <2>10, <4>1 DEF Readable
      <4>2. CASE s.state[x] # "gone"
        <5>1. Readable(s, x, y)
          BY <2>3, <2>15, <4>2, Zenon DEF SplitOK
        <5> QED
          BY <2>10, <5>1 DEF Readable
      <4> QED
        BY <4>1, <4>2
    <3>3. x \in g /\ ~b => HeldFin(w, x)
      BY <2>7, <2>8 DEF HeldFin
    <3>4. w.guard[x].held_fin => x \in g
      BY <2>5, <2>8
    <3>5. s.state[x] # "gone" /\ (b => AtMost(s.read[x] + Len(y)) = HeadersLen) =>
              GuardIs(w.guard[x], content[x], AtMost(s.read[x] + Len(y)), r[x])
      BY <2>8, <2>11
    <3>6. y \in Seq(Item) /\ b \in BOOLEAN /\ (b => x \in g)
      BY <2>4, <2>5
    <3> HIDE DEF y, b
    <3>7. Good(u, n) /\ Arrived(s, u, x, r, g, b)
      BY <2>8, <3>2, <3>3, <3>4, <3>5, <3>6, SessionRead
    <3> HIDE DEF u
    <3> QED
      BY <1>0, <3>1, <3>6, <3>7, ArrivedProcessed DEF R, v
  <2> QED
    BY <2>13, <2>14, <2>15
<1> QED
  BY <1>9, <1>10

(* What has been handed to nghttp3 of a deleted stream is not counted.     *)
LEMMA GoodMore ==
    ASSUME NEW n, NEW m, NEW s, Good(s, n), NEW d \in Remote,
           \A e \in Remote : e # d => m[e] = n[e], m[d] = n[d] \/ d \in s.deleted
    PROVE  Good(s, m)
<1>1. ASSUME NEW e \in Remote PROVE OneStream(s, e, m[e])
  <2>1. OneStream(s, e, n[e])
    BY DEF Good
  <2>2. m[e] = n[e] \/ e \in s.deleted
    OBVIOUS
  <2> QED
    BY <2>1, <2>2 DEF OneStream, Reported
<1> QED
  BY <1>1 DEF Good

LEMMA StreamArrived ==
    ASSUME NEW s, NEW d \in Remote, NEW r, NEW g, NEW w, Reguarded(s, w, d), NEW u,
           NoSession(w, u), u.confirmed = w.confirmed, u.error = "none",
           \A e \in Remote : e # d => SameStream(w, u, e), NEW b,
           ~u.closed /\ d \notin u.deleted /\ d \notin g => Passed(u, d, r[d])
    PROVE  Arrived(s, u, d, r, g, b)
<1>1. /\ \A z \in Sessions : z # d => Same(s, w, z)
      /\ \A e \in Remote : e # d => SameStream(s, w, e)
      /\ w.confirmed = s.confirmed
  BY ReguardedSame
<1>2. d \notin Sessions
  BY SessionAssumption DEF Streams
<1>3. \A z \in Sessions : Same(s, u, z)
  BY <1>1, <1>2, SameAfter DEF NoSession
<1>4. \A e \in Remote : e # d => SameStream(s, u, e)
  BY <1>1 DEF SameStream
<1> QED
  BY <1>1, <1>2, <1>3, <1>4 DEF Arrived

Unreject(s, B) == [s EXCEPT !.rejected = B]

LEMMA UnrejectShape ==
    ASSUME NEW s \in Record, NEW B \in SUBSET Remote
    PROVE  LET t == Unreject(s, B)
           IN  t \in Record /\ Keeps(s, t, {"rejected"}) /\ t.rejected = B
<1> DEFINE t == Unreject(s, B)
<1>1. t \in Record
  BY DEF Unreject, Record
<1>2. Keeps(s, t, {"rejected"})
  BY Fields DEF Unreject, Keeps
<1>3. t.rejected = B
  BY Fields DEF Unreject, Names
<1> QED
  BY <1>1, <1>2, <1>3

(* A chunk of a stream that was rejected.                                  *)
LEMMA RejectedReceived ==
    ASSUME NEW n, NEW m, NEW s, NEW p, NEW a, NEW f, Mid(s, n, p, a, f), Ends(s, f),
           Fed(s), NEW d \in Remote, d \in s.deleted, NEW r, NEW g,
           Elsewhere(d, p, r, f, g), \A e \in Remote : e # d => m[e] = n[e],
           NEW B, B \subseteq s.rejected
    PROVE  Received(s, Unreject(s, B), m, r, a, g, d)
<1> DEFINE t == Unreject(s, B)
<1>1. Good(s, m) /\ s \in Record
  BY GoodMore DEF Mid, Good
<1>2. B \in SUBSET Remote
  BY <1>1 DEF Record
<1>3. t \in Record /\ Keeps(s, t, {"rejected"}) /\ t.rejected = B
  BY <1>1, <1>2, UnrejectShape
<1> HIDE DEF t
<1>4. /\ t.confirmed = s.confirmed /\ t.closed = s.closed /\ t.over = s.over
      /\ t.guard = s.guard /\ t.state = s.state /\ t.read = s.read /\ t.named = s.named
      /\ t.pending_headers = s.pending_headers /\ t.session_ids = s.session_ids
      /\ t.deleted = s.deleted /\ t.blocked = s.blocked
  BY <1>3 DEF Keeps, Names
<1>5. /\ t.pre_accept_fin = s.pre_accept_fin /\ t.fin_accepted = s.fin_accepted
      /\ t.qpack_blocked_fin = s.qpack_blocked_fin /\ t.pending_fin = s.pending_fin
      /\ t.stale_2xx = s.stale_2xx /\ t.error = s.error /\ t.accepted = s.accepted
      /\ t.ended = s.ended /\ t.response = s.response /\ t.ready = s.ready
      /\ t.written = s.written /\ t.why = s.why
  BY <1>3 DEF Keeps, Names
<1>6. /\ t.out_of_place = s.out_of_place /\ t.mixed = s.mixed /\ t.kept = s.kept
      /\ t.buffered = s.buffered /\ t.got = s.got /\ t.stream_info = s.stream_info
  BY <1>3 DEF Keeps, Names
<1>7. \A z \in Sessions : Same(s, t, z)
  BY <1>4, <1>5 DEF Same
<1>8. Good(t, m)
  <2>1. \A c \in Sessions : Life(t, c)
    BY <1>1, <1>7, LifeSame DEF Good
  <2>2. ASSUME NEW e \in Remote PROVE OneStream(t, e, m[e])
    <3>1. OneStream(s, e, m[e])
      BY <1>1 DEF Good
    <3>2. Stream(t, e) /\ Counted(t, e)
      BY <1>3, <1>4, <1>5, <1>6, <3>1 DEF OneStream, Stream, Counted
    <3>3. Could(t, SessionOf[e]) <=> Could(s, SessionOf[e])
      BY <1>4, <1>5 DEF Could
    <3>4. Reported(t, e, m[e]) /\ NoneKept(t, e)
      BY <1>4, <1>5, <1>6, <3>1, <3>3 DEF OneStream, Reported, NoneKept
    <3> QED
      BY <3>2, <3>4 DEF OneStream
  <2> QED
    BY <1>1, <1>3, <1>6, <2>1, <2>2 DEF Good
<1>9. Guards(t, r, a, g)
  <2>0. Guards(s, p, a, f)
    BY DEF Mid
  <2>a. d \notin Sessions /\ Sessions \subseteq Arriving /\ Remote \subseteq Arriving
    BY SessionAssumption DEF Streams, Arriving
  <2>1. CASE s.closed
    BY <1>4, <2>1 DEF Guards
  <2>2. CASE ~s.closed
    <3>1. ASSUME NEW c \in Sessions \ a, t.state[c] # "gone" PROVE Guarded(t, c, r[c])
      <4>1. Guarded(s, c, p[c]) /\ r[c] = p[c]
        BY <1>4, <2>0, <2>2, <2>a, <3>1 DEF Guards, Elsewhere
      <4> QED
        BY <1>4, <4>1 DEF Guarded
    <3>2. \A c \in Sessions \cap a : t.guard[c].held = <<>>
      BY <1>4, <2>0, <2>2 DEF Guards
    <3>3. ASSUME NEW e \in Remote \ (a \cup g), e \notin t.deleted PROVE Passed(t, e, r[e])
      <4>1. e # d /\ e \notin f
        BY <1>4, <3>3 DEF Elsewhere
      <4>2. Passed(s, e, p[e]) /\ r[e] = p[e]
        BY <1>4, <2>0, <2>2, <2>a, <3>3, <4>1 DEF Guards, Elsewhere
      <4> QED
        BY <1>4, <4>2 DEF Passed
    <3> QED
      BY <3>1, <3>2, <3>3 DEF Guards
  <2> QED
    BY <2>1, <2>2
<1>10. Ends(t, g)
  <2>1. \A c \in g \cap Sessions : c \in f
    BY SessionAssumption DEF Elsewhere, Streams
  <2>2. \A c \in Sessions : HeldFin(t, c) <=> HeldFin(s, c)
    BY <1>4 DEF HeldFin
  <2> QED
    BY <1>4, <1>5, <2>1, <2>2 DEF Ends
<1>11. Ending(t, g)
  BY <1>10 DEF Ends, Ending
<1>12. FinsOnly(t, g)
  BY <1>4, <1>5 DEF Mid, FinsOnly, Elsewhere
<1>13. Calm(t)
  BY <1>5 DEF Mid, Calm
<1>14. Fed(t)
  BY <1>4 DEF Fed, flushable
<1>15. \A z \in Sessions : SameOver(s, t, z)
  BY <1>4 DEF SameOver
<1> QED
  BY <1>8, <1>9, <1>10, <1>11, <1>12, <1>13, <1>14, <1>15 DEF Received, Mid, t

(* y can be read of the data stream d.                                     *)
StreamReady(n, m, s, d, r, g, w, y) ==
    /\ d \in Remote /\ Good(w, n) /\ Reguarded(s, w, d)
    /\ s.error = "none" /\ d \notin s.rejected /\ y \in Seq(Item)
    /\ \A z \in Remote : z # d => m[z] = n[z]
    /\ d \notin s.deleted => Adds(s, n, m, d, Bytes(y), HasName(y))
    /\ d \notin s.deleted /\ d \notin g =>
          IF d \in s.named \/ HasName(y)
          THEN d \in Bidi => w.guard[d].header_parsed /\ ~w.guard[d].is_headers
          ELSE d \notin Bidi /\ r[d] <= 1

LEMMA StreamRead ==
    ASSUME NEW n, NEW m, NEW s, NEW d, NEW r, NEW g, NEW w, NEW y,
           StreamReady(n, m, s, d, r, g, w, y), NEW e \in BOOLEAN
    PROVE  LET u == read_from_nghttp3(w, d, y, e)
           IN  Good(u, m) /\ Arrived(s, u, d, r, g, e)
<1> USE DEF StreamReady
<1> DEFINE b == HasName(y)
           u == read_from_nghttp3(w, d, y, e)
<1>1. w.error = "none" /\ w.named = s.named /\ w.deleted = s.deleted /\ d \notin w.rejected
  BY ReguardedSame
<1>2. b \in BOOLEAN /\ (b <=> HasName(y))
  BY DEF HasName
<1>3. d \notin w.deleted => Adds(w, n, m, d, Bytes(y), b)
  BY <1>1 DEF Adds
<1> HIDE DEF b
<1>4. Good(u, m) /\ TakenData(w, u, d, b)
  BY <1>1, <1>2, <1>3, ReadStream
<1> HIDE DEF u
<1>5. /\ NoSession(w, u) /\ u.guard = w.guard /\ u.confirmed = w.confirmed
      /\ u.error = "none" /\ \A z \in Remote : z # d => SameStream(w, u, z)
      /\ d \in w.deleted => d \in u.deleted
      /\ ~u.closed /\ d \notin u.deleted => (d \in u.named <=> d \in w.named \/ b)
  BY <1>4 DEF TakenData
<1>6. ASSUME ~u.closed, d \notin u.deleted, d \notin g PROVE Passed(u, d, r[d])
  <2>1. d \notin s.deleted /\ (d \in u.named <=> d \in s.named \/ HasName(y))
    BY <1>1, <1>2, <1>5, <1>6
  <2> QED
    BY <1>5, <1>6, <2>1 DEF Passed
<1>7. Arrived(s, u, d, r, g, e)
  BY <1>5, <1>6, StreamArrived
<1> QED
  BY <1>4, <1>7 DEF u

LEMMA ReceiveStream ==
    ASSUME NEW n, NEW m, NEW s, NEW p, NEW a, NEW f, Mid(s, n, p, a, f), Ends(s, f), Fed(s),
           ~s.closed, NEW d \in Remote, d \notin a, d \notin f,
           NEW i \in Nat, p[d] = i, NEW k \in Nat, NEW fin \in BOOLEAN,
           NEW q \in Seq(Item), q = content[d], IsData(q), i + k <= Len(q),
           NEW r, NEW g, Elsewhere(d, p, r, f, g), r[d] = i + k, d \in g <=> fin,
           k > 0 \/ fin, \A e \in Remote : e # d => m[e] = n[e],
           n[d] = Past(i), m[d] = Past(i + k)
    PROVE  Received(s, receive_stream_data(s, d, SubSeq(q, i + 1, i + k), fin), m, r, a, g, d)
<1> DEFINE v == SubSeq(q, i + 1, i + k)
           R == receive_stream_data(s, d, v, fin)
           P == split(s, d, v, fin)
           w == SetGuard(s, d, P.guard)
<1>0. s \in Record /\ s.error = "none" /\ Good(s, n) /\ d \in Arriving /\ d \notin Sessions
      /\ Stream(s, d)
  BY SessionAssumption DEF Mid, Calm, Good, OneStream, Arriving, Streams
<1>1. i + k \in Nat /\ i <= i + k /\ (i + k) - i = k
  OBVIOUS
<1>2. v \in Seq(Item) /\ Len(v) = k /\ (v = <<>> <=> k = 0)
  <2>1. v \in Seq(Item) /\ Len(v) = (i + k) - i
    BY <1>1, Piece
  <2> QED
    BY <1>1, <2>1
<1>3. Bytes(v) = m[d] - n[d] /\ (HasName(v) <=> i <= 1 /\ 2 <= i + k)
  BY <1>1, BytesOf, NamedIn
<1>4. n[d] \in Nat /\ m[d] \in Nat /\ m[d] - n[d] \in Nat /\ m[d] = n[d] + (m[d] - n[d])
      /\ (m[d] - n[d] # 0 => 3 <= i + k)
  <2> DEFINE x == Past(i)
             y == Past(i + k)
  <2>1. x \in Nat /\ y \in Nat /\ y - x \in Nat /\ (y - x # 0 => 3 <= i + k)
    BY <1>1 DEF Past
  <2>2. n[d] = x /\ m[d] = y
    OBVIOUS
  <2> HIDE DEF x, y
  <2> QED
    BY <2>1, <2>2
<1>5. d \notin s.deleted => Passed(s, d, i)
  <2>1. Guards(s, p, a, f)
    BY DEF Mid
  <2> QED
    BY <2>1 DEF Guards
<1>6. fin => d \in g
  OBVIOUS
<1> HIDE DEF v
<1>7. CASE d \in s.rejected
  <2>1. d \in s.deleted
    BY <1>0, <1>7 DEF Stream
  <2> DEFINE B == IF fin THEN s.rejected \ {d} ELSE s.rejected
  <2>2. R = Unreject(s, B)
    BY <1>7, Zenon DEF receive_stream_data, Unreject
  <2>3. B \subseteq s.rejected
    OBVIOUS
  <2> HIDE DEF B, R
  <2>4. Received(s, Unreject(s, B), m, r, a, g, d)
    BY <2>1, <2>3, RejectedReceived
  <2> QED
    BY <2>2, <2>4 DEF R, v
<1>8. CASE d \notin s.rejected /\ bypass_guard(s, d, v)
  <2> DEFINE u == read_from_nghttp3(s, d, v, fin)
  <2>1. R = flush_unblocked_held_data(process_after_read(u, d, fin))
    <3>1. ReceiveCases(s, d, v, fin, R, P, w)
      BY <1>8, ReceiveIs
    <3> HIDE DEF R, P, w, u
    <3> QED
      BY <1>8, <3>1, Zenon DEF ReceiveCases, u
  <2>2. d \notin s.deleted => Adds(s, n, m, d, Bytes(v), HasName(v))
    <3>1. ASSUME d \notin s.deleted, m[d] - n[d] # 0 PROVE d \in s.named \/ HasName(v)
      <4>1. d \notin s.named => i <= 1
        BY <1>5, <3>1 DEF Passed
      <4>2. 2 <= i + k
        BY <1>1, <1>4, <3>1
      <4> QED
        BY <1>3, <4>1, <4>2
    <3> QED
      BY <1>3, <1>4, <3>1 DEF Adds
  <2>3. ASSUME d \notin s.deleted, d \notin g
        PROVE  IF d \in s.named \/ HasName(v)
               THEN d \in Bidi => s.guard[d].header_parsed /\ ~s.guard[d].is_headers
               ELSE d \notin Bidi /\ r[d] <= 1
    <3>1. Passed(s, d, i) /\ ~fin /\ k > 0
      BY <1>5, <2>3
    <3>2. ASSUME d \in Bidi PROVE d \in s.named
      <4>1. d \in s.stream_info
        BY <1>2, <1>8, <3>1, <3>2, SessionAssumption DEF bypass_guard
      <4> QED
        BY <1>0, <4>1 DEF Stream
    <3>3. ASSUME d \notin s.named, ~HasName(v) PROVE r[d] <= 1
      <4>1. i <= 1
        BY <3>1, <3>3 DEF Passed
      <4> QED
        BY <1>1, <1>3, <3>3, <4>1
    <3> QED
      BY <3>1, <3>2, <3>3 DEF Passed
  <2>4. Reguarded(s, s, d)
    BY DEF Reguarded, Keeps
  <2>5. Good(u, m) /\ Arrived(s, u, d, r, g, fin)
    <3>1. StreamReady(n, m, s, d, r, g, s, v)
      BY <1>0, <1>2, <1>8, <2>2, <2>3, <2>4 DEF StreamReady
    <3> QED
      BY <3>1, StreamRead
  <2> HIDE DEF R, u
  <2> QED
    BY <1>0, <1>6, <2>1, <2>5, ArrivedProcessed DEF R, v
<1>9. CASE d \notin s.rejected /\ ~bypass_guard(s, d, v)
  <2>1. v # <<>> /\ k > 0 /\ d \in Bidi
    BY <1>2, <1>9 DEF bypass_guard, Remote
  <2>2. SplitFin(P, s.guard[d], fin)
    BY <1>0, <1>2, <2>1, SplitTyped
  <2>3. d \notin s.deleted => SplitData(P, s, d, q, i, i + k, fin)
    <3> DEFINE j == i + k
    <3>1. j \in Nat /\ i < j /\ j <= Len(q) /\ v = SubSeq(q, i + 1, j)
      BY <2>1 DEF v
    <3> HIDE DEF j
    <3>2. d \notin s.deleted => SplitData(P, s, d, q, i, j, fin)
      <4>1. d \notin s.deleted => SplitReady(s, d, q, i, j, v)
        BY <1>0, <1>5, <2>1, <3>1 DEF SplitReady
      <4> QED
        BY <4>1, SplitStream
    <3> QED
      BY <3>2 DEF j
  <2>4. /\ P.guard \in Guard /\ P.items \in Seq(Item) /\ P.fin \in BOOLEAN /\ P.wait \in BOOLEAN
        /\ (P.fin => fin) /\ (P.wait => ~fin)
    BY <2>2, Zenon DEF SplitFin
  <2> HIDE DEF P
  <2>5. Good(w, n) /\ Reguarded(s, w, d) /\ w.guard[d] = P.guard
    BY <1>0, <2>4, SetGuardReguarded
  <2>6. ReceiveCases(s, d, v, fin, R, P, w)
    BY <1>9, ReceiveIs DEF P
  <2>7. /\ w.confirmed = s.confirmed /\ w.error = s.error /\ w.closed = s.closed
        /\ w.named = s.named /\ w.deleted = s.deleted /\ w.rejected = s.rejected
    BY <2>5, ReguardedSame
  <2> HIDE DEF w, R
  <2>8. NoSession(w, w) /\ \A e \in Remote : SameStream(w, w, e)
    BY DEF NoSession, Same, SameStream
  <2>9. CASE P.wait
    <3> DEFINE t == process_after_read(w, d, fin)
    <3>1. fin = FALSE /\ d \notin g
      BY <2>4, <2>9
    <3>2. R = t
      <4>1. R = process_after_read(w, d, FALSE)
        BY <1>9, <2>6, <2>9, Zenon DEF ReceiveCases
      <4> QED
        BY <3>1, <4>1
    <3>3. d \notin s.deleted => d \notin s.named /\ Unparsed(P.guard, q, i + k)
      BY <2>3, <2>9, Zenon DEF SplitData
    <3>4. m[d] = n[d] \/ d \in w.deleted
      BY <1>1, <2>7, <3>3 DEF Unparsed, Past
    <3>5. Good(w, m)
      BY <2>5, <3>4, GoodMore
    <3>6. ASSUME d \notin w.deleted PROVE Passed(w, d, r[d])
      BY <2>5, <2>7, <3>3, <3>6 DEF Passed, Unparsed
    <3>7. Arrived(s, w, d, r, g, fin)
      BY <1>0, <2>5, <2>7, <2>8, <3>6, StreamArrived
    <3>8. Handled(s, w, t, m, r, a, g, d)
      BY <1>0, <1>6, <3>5, <3>7, ArrivedProcessed
    <3> HIDE DEF t
    <3>9. /\ Mid(t, m, r, a, g) /\ flushable(t) \subseteq flushable(w)
          /\ \A z \in Sessions : z # d \/ z \notin s.confirmed => SameOver(s, t, z)
      BY <3>8 DEF Handled
    <3>10. flushable(w) \subseteq flushable(s)
      <4> SUFFICES ASSUME NEW z \in flushable(w) PROVE z \in flushable(s)
        OBVIOUS
      <4>1. /\ z \in Sessions /\ w.guard[z].held # <<>> /\ w.guard[z].forwarded = HeadersLen
            /\ z \notin w.pending_headers
        BY FlushableFacts
      <4>2. Same(s, w, z)
        BY <1>0, <2>5, <4>1, ReguardedSame
      <4> QED
        BY <4>1, <4>2, FlushableFacts DEF Same
    <3>11. Fed(t)
      BY <3>9, <3>10 DEF Fed
    <3>12. Ends(t, g)
      BY <3>9, <3>11, FedEnds
    <3> QED
      BY <3>2, <3>9, <3>11, <3>12 DEF Received, R, v
  <2>10. CASE ~P.wait /\ P.items = <<>> /\ ~P.fin
    <3>1. R = flush_unblocked_held_data(process_after_read(w, d, fin))
      BY <1>9, <2>6, <2>10, Zenon DEF ReceiveCases
    <3>2. ASSUME d \notin s.deleted
          PROVE  m[d] = n[d] /\ (d \notin g => Passed(w, d, r[d]))
      <4>1. /\ Bytes(P.items) = Past(i + k) - Past(i)
            /\ d \in s.named \/ HasName(P.items) => P.guard.header_parsed /\ ~P.guard.is_headers
            /\ d \in s.named \/ HasName(P.items) \/ fin
        BY <2>3, <2>10, <3>2, Zenon DEF SplitData
      <4>2. ~HasName(P.items) /\ {z \in DOMAIN P.items : P.items[z] = "D"} = {}
        BY <2>10 DEF HasName
      <4>3. Bytes(P.items) = 0
        BY <4>2, FS_EmptySet DEF Bytes
      <4>4. m[d] = n[d]
        BY <1>4, <4>1, <4>3
      <4> QED
        BY <2>5, <2>7, <4>1, <4>2, <4>4 DEF Passed
    <3>3. Good(w, m)
      BY <2>5, <2>7, <3>2, GoodMore
    <3>4. Arrived(s, w, d, r, g, fin)
      BY <1>0, <2>5, <2>7, <2>8, <3>2, StreamArrived
    <3> QED
      BY <1>0, <1>6, <3>1, <3>3, <3>4, ArrivedProcessed DEF R, v
  <2>11. CASE ~P.wait /\ ~(P.items = <<>> /\ ~P.fin)
    <3> DEFINE y == P.items
               e == P.fin
               u == read_from_nghttp3(w, d, y, e)
    <3>1. R = flush_unblocked_held_data(process_after_read(u, d, e))
      BY <1>9, <2>6, <2>11, Zenon DEF ReceiveCases
    <3>2. ASSUME d \notin s.deleted
          PROVE  /\ Bytes(y) = Past(i + k) - Past(i)
                 /\ Bytes(y) # 0 => d \in s.named \/ HasName(y)
                 /\ d \in s.named \/ HasName(y) => P.guard.header_parsed /\ ~P.guard.is_headers
                 /\ d \in s.named \/ HasName(y) \/ fin
      BY <2>3, <2>11, <3>2, Zenon DEF SplitData
    <3>3. y \in Seq(Item) /\ e \in BOOLEAN /\ (e => d \in g)
      BY <2>4
    <3> HIDE DEF y, e
    <3>4. d \notin s.deleted => Adds(s, n, m, d, Bytes(y), HasName(y))
      BY <1>4, <3>2 DEF Adds
    <3>5. d \notin s.deleted /\ d \notin g =>
              IF d \in s.named \/ HasName(y)
              THEN d \in Bidi => w.guard[d].header_parsed /\ ~w.guard[d].is_headers
              ELSE d \notin Bidi /\ r[d] <= 1
      BY <2>5, <3>2
    <3>6. Good(u, m) /\ Arrived(s, u, d, r, g, e)
      <4>1. StreamReady(n, m, s, d, r, g, w, y)
        BY <1>0, <1>9, <2>5, <3>3, <3>4, <3>5 DEF StreamReady
      <4> QED
        BY <3>3, <4>1, StreamRead
    <3> HIDE DEF u
    <3> QED
      BY <1>0, <3>1, <3>3, <3>6, ArrivedProcessed DEF R, v
  <2> QED
    BY <2>9, <2>10, <2>11
<1> QED
  BY <1>7, <1>8, <1>9

-----------------------------------------------------------------------------
(* The encoder stream.                                                     *)

LEMMA UnblockedShape ==
    ASSUME NEW s \in Record, NEW c
    PROVE  /\ Unblocked(s, c) \in Record /\ Keeps(s, Unblocked(s, c), {"blocked"})
           /\ Unblocked(s, c).blocked = s.blocked \ {c}
<1>1. Unblocked(s, c) \in Record
  BY DEF Unblocked, Record
<1>2. Keeps(s, Unblocked(s, c), {"blocked"})
  BY Fields DEF Unblocked, Keeps
<1>3. Unblocked(s, c).blocked = s.blocked \ {c}
  BY Fields DEF Unblocked, Names
<1> QED
  BY <1>1, <1>2, <1>3

TableFields == {"pending_headers", "session_ids", "ready", "out_of_place",
                "qpack_blocked_fin", "response", "pre_accept_fin", "accepted",
                "buffered", "blocked"}

LEMMA UnblockTyped ==
    ASSUME NEW s \in Record, NEW c \in Sessions
    PROVE  Unblock(s, c) \in Record
<1> DEFINE t == Unblocked(s, c)
<1>1. t \in Record
  BY UnblockedShape
<1> HIDE DEF t
<1>2. end_headers_cb(t, c) \in Record
  BY <1>1, ReadyShape, RefuseShape
<1> QED
  BY <1>2 DEF Unblock, t

(* The request c is decoded.                                               *)
Decoded(s, t, c) ==
    /\ c \notin t.pre_accept_fin
    /\ c \in t.qpack_blocked_fin => c \in s.qpack_blocked_fin
    /\ c \in t.session_ids /\ c \in s.qpack_blocked_fin => c \in t.qpack_blocked_fin

LEMMA UnblockGood ==
    ASSUME NEW n, NEW s, Good(s, n), NEW c \in s.blocked
    PROVE  LET u == Unblock(s, c)
           IN  /\ Good(u, n) /\ Keeps(s, u, TableFields) /\ OnlySession(s, u, c)
               /\ u.blocked = s.blocked \ {c} /\ Decoded(s, u, c)
<1> DEFINE t == Unblocked(s, c)
           u == end_headers_cb(t, c)
<1>0. s \in Record /\ c \in Sessions /\ Life(s, c)
  BY DEF Good, Record
<1>1. t \in Record /\ Keeps(s, t, {"blocked"}) /\ t.blocked = s.blocked \ {c}
  BY <1>0, UnblockedShape
<1> HIDE DEF t
<1>2. /\ t.ready = s.ready /\ t.response = s.response /\ t.ended = s.ended
      /\ t.confirmed = s.confirmed /\ t.written = s.written
      /\ t.fin_accepted = s.fin_accepted /\ t.stale_2xx = s.stale_2xx
      /\ t.pending_fin = s.pending_fin /\ t.pre_accept_fin = s.pre_accept_fin
      /\ t.over = s.over /\ t.why = s.why
      /\ t.session_ids = s.session_ids /\ t.accepted = s.accepted
      /\ t.pending_headers = s.pending_headers
      /\ t.qpack_blocked_fin = s.qpack_blocked_fin
      /\ t.read = s.read /\ t.state = s.state
      /\ t.guard = s.guard /\ t.closed = s.closed /\ t.error = s.error
  BY <1>1 DEF Keeps, Names
<1>3. /\ t.out_of_place = s.out_of_place /\ t.mixed = s.mixed
      /\ t.rejected = s.rejected /\ t.named = s.named /\ t.got = s.got
      /\ t.kept = s.kept /\ t.buffered = s.buffered /\ t.deleted = s.deleted
      /\ t.stream_info = s.stream_info
  BY <1>1 DEF Keeps, Names
<1>4. OnlySession(s, t, c)
  <2>1. \A z \in Sessions : z # c => Same(s, t, z)
    BY <1>1, <1>2 DEF Same
  <2>2. \A d \in Remote : SameStream(s, t, d)
    BY <1>2, <1>3 DEF SameStream
  <2> QED
    BY <2>1, <2>2 DEF OnlySession
<1>5. \A z \in Sessions : z # c => Life(t, z)
  BY <1>4, LifeSame DEF OnlySession, Good
<1>6. \A d \in Remote : Around(s, t, d)
  BY <1>2, <1>3 DEF Around, Could, Settled
<1>7. \A d \in Remote : OneStream(t, d, n[d])
  BY <1>1, <1>6, AroundGood DEF Good
<1>8. GoodBut(t, n, c)
  BY <1>1, <1>3, <1>5, <1>7 DEF GoodBut, Good
<1>9. Fresh(t, c)
  BY <1>0, <1>1, <1>2 DEF Fresh, Life, HeadersLen
<1>10. /\ Good(u, n) /\ OnlySession(t, u, c)
       /\ Keeps(t, u, {"pending_headers", "session_ids", "ready", "out_of_place",
                       "qpack_blocked_fin", "response", "pre_accept_fin",
                       "accepted", "buffered"})
       /\ c \notin u.pre_accept_fin /\ c \notin u.pending_headers
       /\ c \in u.qpack_blocked_fin => c \in t.qpack_blocked_fin
       /\ c \in u.session_ids /\ c \in t.qpack_blocked_fin => c \in u.qpack_blocked_fin
  BY <1>0, <1>8, <1>9, EndHeadersGood
<1> HIDE DEF u
<1>11. u.blocked = t.blocked
  BY <1>10 DEF Keeps, Names
<1>12. Keeps(s, u, TableFields)
  BY <1>1, <1>10 DEF Keeps, TableFields
<1>13. OnlySession(s, u, c)
  BY <1>4, <1>10, OnlyAfter
<1>14. Decoded(s, u, c)
  BY <1>2, <1>10 DEF Decoded
<1> QED
  BY <1>1, <1>10, <1>11, <1>12, <1>13, <1>14 DEF Unblock, u, t

(* All requests of z are.                                                  *)
AllDecoded(s, t, n, z) ==
    /\ Good(t, n) /\ Keeps(s, t, TableFields) /\ t.blocked = s.blocked \ z
    /\ \A c \in z : Decoded(s, t, c)
    /\ \A c \in Sessions \ z : Same(s, t, c)

LEMMA DecodedNext ==
    ASSUME NEW n, NEW s, NEW z \in SUBSET s.blocked, NEW k \in z, s \in Record,
           NEW r, AllDecoded(s, r, n, z \ {k})
    PROVE  AllDecoded(s, Unblock(r, k), n, z)
<1> DEFINE u == Unblock(r, k)
<1>0. k \in Sessions /\ k \in s.blocked /\ z \subseteq Sessions
  BY DEF Record
<1>1. /\ Good(r, n) /\ Keeps(s, r, TableFields) /\ r.blocked = s.blocked \ (z \ {k})
      /\ \A c \in z \ {k} : Decoded(s, r, c)
      /\ \A c \in Sessions \ (z \ {k}) : Same(s, r, c)
  BY DEF AllDecoded
<1>2. k \in r.blocked
  BY <1>0, <1>1
<1>3. /\ Good(u, n) /\ Keeps(r, u, TableFields) /\ OnlySession(r, u, k)
      /\ u.blocked = r.blocked \ {k} /\ Decoded(r, u, k)
  BY <1>1, <1>2, UnblockGood
<1> HIDE DEF u
<1>4. Keeps(s, u, TableFields)
  BY <1>1, <1>3 DEF Keeps
<1>5. u.blocked = s.blocked \ z
  BY <1>1, <1>3
<1>6. ASSUME NEW c \in z PROVE Decoded(s, u, c)
  <2>1. CASE c = k
    <3>1. Same(s, r, k)
      BY <1>0, <1>1
    <3> QED
      BY <1>3, <2>1, <3>1 DEF Decoded, Same
  <2>2. CASE c # k
    <3>1. Decoded(s, r, c) /\ Same(r, u, c)
      BY <1>0, <1>1, <1>3, <1>6, <2>2 DEF OnlySession
    <3> QED
      BY <3>1 DEF Decoded, Same
  <2> QED
    BY <2>1, <2>2
<1>7. ASSUME NEW c \in Sessions \ z PROVE Same(s, u, c)
  <2>1. Same(s, r, c) /\ Same(r, u, c)
    BY <1>1, <1>3, <1>7 DEF OnlySession
  <2> QED
    BY <2>1, SameAfter
<1> QED
  BY <1>3, <1>4, <1>5, <1>6, <1>7 DEF AllDecoded, u

LEMMA UnblockingAll ==
    ASSUME NEW n, NEW s, Good(s, n)
    PROVE  AllDecoded(s, TheUnblocking(s, s.blocked)[s.blocked], n, s.blocked)
<1> DEFINE Z == s.blocked
           J == TheUnblocking(s, Z)
<1>0. s \in Record /\ Z \in SUBSET Sessions /\ IsFiniteSet(Z)
  <2>1. s \in Record /\ Z \in SUBSET Sessions
    BY DEF Good, Record
  <2> QED
    BY <2>1, SessionAssumption, FS_Subset
<1>1. /\ J[{}] = s
      /\ \A z \in SUBSET Z : z # {} => J[z] = Unblock(J[z \ {Pick(z)}], Pick(z))
  <2>1. \A c \in Z, r \in Record : Unblock(r, c) \in Record
    BY <1>0, UnblockTyped
  <2> HIDE DEF Z
  <2> QED
    BY <1>0, <2>1, UnblockingSteps
<1> HIDE DEF J
<1> DEFINE G == {z \in SUBSET Z : AllDecoded(s, J[z], n, z)}
<1>2. {} \in G
  <2>1. Keeps(s, s, TableFields)
    BY DEF Keeps
  <2>2. \A c \in Sessions : Same(s, s, c)
    BY DEF Same
  <2>3. AllDecoded(s, s, n, {})
    BY <2>1, <2>2 DEF AllDecoded
  <2> QED
    BY <1>1, <2>3
<1>3. ASSUME NEW z \in SUBSET Z, z # {}, z \ {Pick(z)} \in G PROVE z \in G
  <2> DEFINE k == Pick(z)
             r == J[z \ {k}]
  <2>1. k \in z
    BY <1>3, PickingIs
  <2>2. J[z] = Unblock(r, k) /\ AllDecoded(s, r, n, z \ {k})
    BY <1>1, <1>3
  <2> HIDE DEF k, r
  <2>3. AllDecoded(s, Unblock(r, k), n, z)
    BY <1>0, <2>1, <2>2, DecodedNext
  <2> QED
    BY <2>2, <2>3
<1>4. Z \in G
  <2> HIDE DEF G, Z
  <2>1. \A z \in SUBSET Z : z \in G
    BY <1>0, <1>2, <1>3, SubsetInduction
  <2> QED
    BY <2>1
<1> QED
  BY <1>4 DEF J

LEMMA TableReceived ==
    ASSUME NEW n, NEW s, NEW p, NEW a, NEW f, Mid(s, n, p, a, f), Ends(s, f), Fed(s),
           ~s.closed
    PROVE  LET t == flush_unblocked_held_data(process_after_read(
                        TheUnblocking(s, s.blocked)[s.blocked], "encoder", FALSE))
           IN  /\ Mid(t, n, p, a, f) /\ Fed(t) /\ Ends(t, f)
               /\ \A z \in Sessions : SameOver(s, t, z)
<1> DEFINE Z == s.blocked
           v == TheUnblocking(s, Z)[Z]
           u == process_after_read(v, "encoder", FALSE)
           t == flush_unblocked_held_data(u)
<1>0. /\ s \in Record /\ Good(s, n) /\ \A c \in Sessions : Life(s, c)
      /\ Guards(s, p, a, f) /\ FinsOnly(s, f) /\ Calm(s)
  BY DEF Mid, Good
<1>1. AllDecoded(s, v, n, Z)
  BY <1>0, UnblockingAll
<1> HIDE DEF v
<1>2. /\ Good(v, n) /\ v.blocked = {}
      /\ \A c \in Z : Decoded(s, v, c)
      /\ \A c \in Sessions \ Z : Same(s, v, c)
  BY <1>1 DEF AllDecoded
<1>3. /\ v.guard = s.guard /\ v.read = s.read /\ v.state = s.state
      /\ v.closed = s.closed /\ v.error = s.error /\ v.confirmed = s.confirmed
      /\ v.named = s.named /\ v.deleted = s.deleted /\ v.over = s.over
      /\ v.pending_fin = s.pending_fin /\ v.fin_accepted = s.fin_accepted
  BY <1>1 DEF AllDecoded, Keeps, TableFields, Names
<1>4. Guards(v, p, a, f)
  BY <1>0, <1>3 DEF Guards, Guarded, Passed
<1>5. Unprocessed(v, f, "encoder", FALSE)
  <2>1. ASSUME NEW c \in f \cap Sessions
        PROVE  c \in v.session_ids =>
                 \/ c \in v.pre_accept_fin \cup v.fin_accepted \cup v.qpack_blocked_fin
                 \/ HeldFin(v, c)
    <3>1. CASE c \in Z
      BY <1>2, <1>3, <2>1, <3>1 DEF Ends, Decoded, HeldFin
    <3>2. CASE c \notin Z
      BY <1>2, <2>1, <3>2 DEF Ends, Same
    <3> QED
      BY <3>1, <3>2
  <2> QED
    BY <1>2, <2>1 DEF Unprocessed
<1>6. FinsOnly(v, f)
  <2>1. v.pre_accept_fin \subseteq Sessions /\ v.qpack_blocked_fin \subseteq Sessions
    BY <1>2 DEF Good, Record
  <2>2. ASSUME NEW c \in Sessions,
               c \in v.pre_accept_fin \/ c \in v.qpack_blocked_fin
        PROVE  c \in f
    <3>1. CASE c \in Z
      BY <1>0, <1>2, <2>2, <3>1 DEF FinsOnly, Decoded
    <3>2. CASE c \notin Z
      BY <1>0, <1>2, <2>2, <3>2 DEF FinsOnly, Same
    <3> QED
      BY <3>1, <3>2
  <2> QED
    BY <1>0, <1>3, <2>1, <2>2 DEF FinsOnly
<1>7. v.error = "none" /\ v.pending_fin = {}
  BY <1>0, <1>3 DEF Calm
<1>8. /\ Mid(u, n, p, a, f) /\ u.confirmed = v.confirmed
      /\ flushable(u) \subseteq flushable(v)
      /\ \A z \in Sessions : SameOver(v, u, z)
  BY <1>2, <1>4, <1>5, <1>6, <1>7, ProcessKeeps
<1> HIDE DEF u
<1>9. /\ Mid(t, n, p, a, f) /\ Fed(t)
      /\ \A z \in Sessions : z \notin flushable(u) \/ z \notin u.confirmed =>
            SameOver(u, t, z)
  BY <1>8, FlushKeeps
<1> HIDE DEF t
<1>10. ASSUME NEW z \in flushable(v) PROVE z \notin s.confirmed
  <2>1. /\ z \in Sessions /\ v.guard[z].held # <<>> /\ v.guard[z].forwarded = HeadersLen
        /\ z \notin v.pending_headers
    BY FlushableFacts
  <2>2. z \notin flushable(s)
    BY DEF Fed
  <2>3. z \in s.pending_headers
    BY <1>3, <2>1, <2>2, FlushableFacts
  <2>4. z \in Z
    BY <1>2, <2>1, <2>3 DEF Same
  <2> QED
    BY <1>0, <2>1, <2>4 DEF Life
<1>11. \A z \in Sessions : SameOver(s, t, z)
  BY <1>3, <1>8, <1>9, <1>10 DEF SameOver
<1>12. Ends(t, f)
  BY <1>9, FedEnds
<1> QED
  BY <1>9, <1>11, <1>12 DEF t, u, v

-----------------------------------------------------------------------------
(* Calls that receive nothing.  b: the streams reset after the call.       *)

Stays(s, w, z, b) ==
    /\ z \in w.session_ids =>
          /\ z \in s.session_ids
          /\ z \in s.pre_accept_fin \cup s.fin_accepted =>
                z \in w.pre_accept_fin \cup w.fin_accepted
    /\ z \in w.blocked => /\ z \in s.blocked /\ w.guard[z] = s.guard[z]
                          /\ z \in s.qpack_blocked_fin => z \in w.qpack_blocked_fin
    /\ z \in w.pre_accept_fin \cup w.fin_accepted \cup w.qpack_blocked_fin =>
          z \in s.pre_accept_fin \cup s.fin_accepted \cup s.qpack_blocked_fin
    /\ \/ w.guard[z] = NoGuard /\ (w.state[z] = "gone" \/ z \in b)
       \/ /\ w.guard[z] = s.guard[z] /\ w.read[z] = s.read[z]
          /\ z \in w.pending_headers <=> z \in s.pending_headers
          /\ w.state[z] # "gone" => s.state[z] # "gone"

LEMMA SameStays ==
    ASSUME NEW s, NEW w, NEW z, Same(s, w, z), NEW b PROVE Stays(s, w, z, b)
BY DEF Same, Stays

LEMMA NoGuardFacts == NoGuard.held = <<>> /\ ~NoGuard.held_fin
BY DEF NoGuard

(* What such a call leaves.                                                *)
Called(s, w, n, a, b, f) ==
    /\ Good(w, n) /\ Calm(w) /\ w.closed = s.closed /\ a \subseteq b
    /\ \A z \in Sessions : Stays(s, w, z, b) /\ (z \in b => z \in a \/ w.guard[z] = NoGuard)
    /\ \A d \in Remote : d \in b \/ d \in w.deleted \/ SameStream(s, w, d)

LEMMA CallKeeps ==
    ASSUME NEW n, NEW s, NEW p, NEW a, NEW f, Mid(s, n, p, a, f), Ends(s, f), Fed(s),
           NEW w, NEW b, Called(s, w, n, a, b, f)
    PROVE  Mid(w, n, p, b, f) /\ Fed(w) /\ Ends(w, f)
<1>1. /\ Good(s, n) /\ Guards(s, p, a, f) /\ FinsOnly(s, f) /\ Calm(s)
      /\ Good(w, n) /\ Calm(w) /\ w.closed = s.closed /\ a \subseteq b
  BY DEF Mid, Called
<1>2. ASSUME NEW z \in Sessions
      PROVE  Stays(s, w, z, b) /\ (z \in b => z \in a \/ w.guard[z] = NoGuard)
  BY <1>2 DEF Called
<1>3. Guards(w, p, b, f)
  <2>1. SUFFICES ASSUME ~s.closed
                 PROVE  /\ \A c \in Sessions \ b : w.state[c] # "gone" => Guarded(w, c, p[c])
                        /\ \A c \in Sessions \cap b : w.guard[c].held = <<>>
                        /\ \A d \in Remote \ (b \cup f) :
                              d \notin w.deleted => Passed(w, d, p[d])
    BY <1>1 DEF Guards
  <2>2. ASSUME NEW c \in Sessions \ b, w.state[c] # "gone" PROVE Guarded(w, c, p[c])
    <3>1. w.guard[c] = s.guard[c] /\ w.read[c] = s.read[c] /\ s.state[c] # "gone"
      BY <1>2, <2>2 DEF Stays
    <3>2. Guarded(s, c, p[c])
      BY <1>1, <2>1, <2>2, <3>1 DEF Guards
    <3> QED
      BY <3>1, <3>2 DEF Guarded
  <2>3. ASSUME NEW c \in Sessions \cap b PROVE w.guard[c].held = <<>>
    <3>1. w.guard[c] = NoGuard \/ (c \in a /\ w.guard[c] = s.guard[c])
      BY <1>2, <2>3 DEF Stays
    <3>2. c \in a => s.guard[c].held = <<>>
      BY <1>1, <2>1, <2>3 DEF Guards
    <3> QED
      BY <3>1, <3>2, NoGuardFacts
  <2>4. ASSUME NEW d \in Remote \ (b \cup f), d \notin w.deleted PROVE Passed(w, d, p[d])
    <3>1. SameStream(s, w, d)
      BY <2>4 DEF Called
    <3>2. d \notin a /\ d \notin s.deleted
      BY <1>1, <2>4, <3>1 DEF SameStream
    <3>3. Passed(s, d, p[d])
      BY <1>1, <2>1, <2>4, <3>2 DEF Guards
    <3> QED
      BY <3>1, <3>3 DEF Passed, SameStream
  <2> QED
    BY <2>2, <2>3, <2>4
<1>4. Fed(w)
  <2>1. ASSUME NEW c \in flushable(w), ~s.closed PROVE FALSE
    <3>1. /\ c \in Sessions /\ w.guard[c].held # <<>> /\ w.guard[c].forwarded = HeadersLen
          /\ c \notin w.pending_headers
      BY FlushableFacts
    <3>2. w.guard[c] = s.guard[c] /\ (c \in w.pending_headers <=> c \in s.pending_headers)
      BY <1>2, <3>1, NoGuardFacts DEF Stays
    <3>3. c \in flushable(s)
      BY <3>1, <3>2, FlushableFacts
    <3> QED
      BY <2>1, <3>3 DEF Fed
  <2> QED
    BY <1>1, <2>1 DEF Fed
<1>5. Ends(w, f)
  <2>1. ASSUME NEW c \in f \cap Sessions, ~s.closed
        PROVE  /\ c \in w.session_ids => c \in w.pre_accept_fin \cup w.fin_accepted
               /\ c \in w.blocked => c \in w.qpack_blocked_fin \/ HeldFin(w, c)
    BY <1>2, <2>1 DEF Ends, Stays, HeldFin
  <2> QED
    BY <1>1, <2>1 DEF Ends
<1>6. FinsOnly(w, f)
  <2>1. w.pre_accept_fin \cup w.fin_accepted \cup w.qpack_blocked_fin \subseteq Sessions
    BY <1>1 DEF Good, Record
  <2>2. \A c \in Sessions :
           c \in w.pre_accept_fin \cup w.fin_accepted \cup w.qpack_blocked_fin =>
               c \in s.pre_accept_fin \cup s.fin_accepted \cup s.qpack_blocked_fin
    BY <1>2 DEF Stays
  <2>3. \A c \in Sessions : w.guard[c].held_fin => s.guard[c].held_fin
    BY <1>2, NoGuardFacts DEF Stays
  <2> QED
    BY <1>1, <2>1, <2>2, <2>3 DEF FinsOnly
<1>7. Ending(w, f)
  BY <1>5 DEF Ending, Ends
<1> QED
  BY <1>1, <1>3, <1>4, <1>5, <1>6, <1>7 DEF Mid

(* What ResponseFits says of session z.                                    *)
Fitting(s, w, z) ==
    s.over[z] = 0 /\ w.over[z] = 1 =>
       /\ w.why[z] = "capsule"
             /\ (z \in s.fin_accepted \ s.written \/ s.response[z] = "none")
          => w.state[z] = "gone" /\ z \notin w.written \cup w.fin_accepted
       /\ w.why[z] = "fin" /\ z \in s.fin_accepted => z \in w.written

LEMMA SameFitting ==
    ASSUME NEW s, NEW w, NEW z, Same(s, w, z) \/ SameOver(s, w, z) PROVE Fitting(s, w, z)
BY DEF Same, SameOver, Fitting

AllFitting(s, w) == \A z \in Sessions : Fitting(s, w, z)

(* Resets, by the client or by the application.                            *)
LEMMA ResetSession ==
    ASSUME NEW n, NEW s, Good(s, n), Calm(s), NEW x \in Sessions, NEW a, NEW b, NEW f,
           a \subseteq b, b \subseteq a \cup {x}, x \in b \/ x \in s.session_ids
    PROVE  LET w == close_stream(s, x, "reset")
           IN  Called(s, w, n, a, b, f) /\ AllFitting(s, w)
<1> DEFINE w == close_stream(s, x, "reset")
<1>1. /\ Good(w, n) /\ Global(s, w)
      /\ OnlySession(s, w, x) /\ ClosedAt(s, w, x, "reset")
  BY CloseOnly DEF Why
<1> HIDE DEF w
<1>2. Stays(s, w, x, b)
  <2>1. x \in s.session_ids => s.state[x] = "open"
    BY DEF Good, Life
  <2> QED
    BY <1>1, <2>1 DEF ClosedAt, Stays
<1>3. w.guard[x] = NoGuard /\ (w.why[x] = "reset" \/ w.over[x] = s.over[x])
  BY <1>1 DEF ClosedAt
<1>4. ASSUME NEW z \in Sessions, z # x PROVE Stays(s, w, z, b) /\ Fitting(s, w, z)
  BY <1>1, <1>4, SameStays, SameFitting DEF OnlySession
<1>5. Calm(w) /\ w.closed = s.closed
  BY <1>1 DEF Global, Calm
<1>6. Fitting(s, w, x)
  BY <1>3 DEF Fitting
<1>7. Called(s, w, n, a, b, f)
  <2>1. \A z \in Sessions : Stays(s, w, z, b) /\ (z \in b => z \in a \/ w.guard[z] = NoGuard)
    BY <1>2, <1>3, <1>4
  <2>2. \A d \in Remote : SameStream(s, w, d)
    BY <1>1 DEF OnlySession
  <2> QED
    BY <1>1, <1>5, <2>1, <2>2 DEF Called
<1> QED
  BY <1>4, <1>6, <1>7 DEF w, AllFitting

LEMMA ResetData ==
    ASSUME NEW n, NEW s, Good(s, n), Calm(s), NEW x \in Streams, NEW a, NEW b, NEW f,
           a \subseteq b, b \subseteq a \cup {x}, x \in b \/ x \in s.stream_info
    PROVE  LET w == close_stream(s, x, "reset")
           IN  Called(s, w, n, a, b, f) /\ AllFitting(s, w)
<1> DEFINE w == close_stream(s, x, "reset")
<1>1. /\ Good(w, n) /\ Global(s, w) /\ NoSession(s, w)
      /\ \A d \in Remote : d # x => SameStream(s, w, d)
      /\ x \in w.deleted <=> x \in s.named \cup s.deleted
  BY CloseStreamOnly DEF Why
<1> HIDE DEF w
<1>2. Calm(w) /\ w.closed = s.closed
  BY <1>1 DEF Global, Calm
<1>3. ASSUME NEW z \in Sessions
      PROVE  Stays(s, w, z, b) /\ Fitting(s, w, z) /\ (z \in b => z \in a)
  <2>1. z # x
    BY SessionNotStream
  <2> QED
    BY <1>1, <2>1, SameStays, SameFitting DEF NoSession
<1>4. x \in Remote => x \in b \/ x \in w.deleted
  BY <1>1 DEF Good, OneStream, Stream
<1> QED
  BY <1>1, <1>2, <1>3, <1>4 DEF w, AllFitting, Called

(* Calls that change nothing of the sessions and the client's streams.     *)
LEMMA LightCall ==
    ASSUME NEW n, NEW s, Good(s, n), Calm(s), NEW w \in Record,
           Keeps(s, w, {"out_of_place", "stream_info"}), ~w.out_of_place,
           \A d \in Remote : d \in w.stream_info => d \in s.stream_info, NEW a, NEW f
    PROVE  Called(s, w, n, a, a, f) /\ AllFitting(s, w)
<1>1. /\ w.ready = s.ready /\ w.response = s.response /\ w.ended = s.ended
      /\ w.confirmed = s.confirmed /\ w.written = s.written
      /\ w.fin_accepted = s.fin_accepted /\ w.stale_2xx = s.stale_2xx
      /\ w.pending_fin = s.pending_fin /\ w.pre_accept_fin = s.pre_accept_fin
      /\ w.over = s.over /\ w.why = s.why
      /\ w.session_ids = s.session_ids /\ w.accepted = s.accepted
      /\ w.pending_headers = s.pending_headers /\ w.blocked = s.blocked
      /\ w.qpack_blocked_fin = s.qpack_blocked_fin
      /\ w.read = s.read /\ w.state = s.state
      /\ w.guard = s.guard /\ w.closed = s.closed /\ w.error = s.error
  BY DEF Keeps, Names
<1>2. /\ w.mixed = s.mixed /\ w.rejected = s.rejected /\ w.named = s.named
      /\ w.got = s.got /\ w.kept = s.kept /\ w.buffered = s.buffered
      /\ w.deleted = s.deleted
  BY DEF Keeps, Names
<1>3. ASSUME NEW z \in Sessions PROVE Same(s, w, z)
  BY <1>1 DEF Same
<1>4. \A z \in Sessions : Life(w, z)
  BY <1>3, LifeSame DEF Good
<1>5. \A d \in Remote : Around(s, w, d)
  BY <1>1, <1>2 DEF Around, Could, Settled
<1>6. \A d \in Remote : OneStream(w, d, n[d])
  BY <1>5, AroundGood DEF Good
<1>7. Good(w, n)
  BY <1>2, <1>4, <1>6 DEF Good
<1>8. Calm(w)
  BY <1>1 DEF Calm
<1>9. \A d \in Remote : SameStream(s, w, d)
  BY <1>1, <1>2 DEF SameStream
<1> QED
  BY <1>1, <1>3, <1>7, <1>8, <1>9, SameStays, SameFitting DEF Called, AllFitting

(* A datagram, and a stream the server opens.                              *)
LEMMA DatagramGood ==
    ASSUME NEW n, NEW s, Good(s, n), Calm(s), NEW c \in Sessions, NEW a, NEW f
    PROVE  LET w == receive_datagram(s, c)
           IN  Called(s, w, n, a, a, f) /\ AllFitting(s, w)
<1> DEFINE w == receive_datagram(s, c)
<1>0. s \in Record /\ ~s.out_of_place /\ Life(s, c)
  BY DEF Good
<1>1. w \in Record /\ Keeps(s, w, {"out_of_place"}) /\ ~w.out_of_place
  <2>1. CASE is_active_session(s, c)
    <3>1. /\ push_event(s, c) \in Record /\ Keeps(s, push_event(s, c), {"out_of_place"})
          /\ push_event(s, c).out_of_place = Misplaced(s, c)
      BY <1>0, PushEventShape
    <3>2. ~Misplaced(s, c)
      BY <1>0, <2>1 DEF Misplaced, is_active_session, Life
    <3> QED
      BY <2>1, <3>1, <3>2 DEF receive_datagram
  <2>2. CASE ~is_active_session(s, c)
    BY <1>0, <2>2 DEF receive_datagram, Keeps
  <2> QED
    BY <2>1, <2>2
<1> HIDE DEF w
<1>2. Keeps(s, w, {"out_of_place", "stream_info"}) /\ w.stream_info = s.stream_info
  BY <1>1 DEF Keeps, Names
<1> QED
  BY <1>1, <1>2, LightCall DEF w

List(s, d) == [s EXCEPT !.stream_info = @ \cup {d}]

LEMMA OpenGood ==
    ASSUME NEW n, NEW s, Good(s, n), Calm(s), NEW d \in Local, NEW a, NEW f
    PROVE  LET w == [s EXCEPT !.stream_info = @ \cup {d}]
           IN  Called(s, w, n, a, a, f) /\ AllFitting(s, w)
<1> DEFINE w == List(s, d)
<1>0. s \in Record /\ ~s.out_of_place /\ d \in Streams /\ d \notin Remote
  BY SessionAssumption DEF Good, Streams
<1>1. w \in Record
  BY <1>0, ZenonT(60) DEF List, Record
<1>2. Keeps(s, w, {"stream_info"})
  BY <1>0, Fields DEF List, Keeps
<1>3. w.stream_info = s.stream_info \cup {d}
  BY <1>0, Fields DEF List, Names
<1> HIDE DEF w
<1>4. Keeps(s, w, {"out_of_place", "stream_info"}) /\ w.out_of_place = s.out_of_place
  BY <1>2 DEF Keeps, Names
<1>5. \A e \in Remote : e \in w.stream_info => e \in s.stream_info
  BY <1>0, <1>3
<1>6. Called(s, w, n, a, a, f) /\ AllFitting(s, w)
  BY <1>0, <1>1, <1>4, <1>5, LightCall
<1> QED
  BY <1>6 DEF w, List

(* reject_session and close_session, called by the application.            *)
LEMMA RejectCalled ==
    ASSUME NEW n, NEW s, Good(s, n), Calm(s), NEW c \in s.session_ids,
           s.response[c] = "none", NEW a, NEW f
    PROVE  LET w == reject_session(s, c)
           IN  Called(s, w, n, a, a, f) /\ AllFitting(s, w)
<1> DEFINE w == reject_session(s, c)
<1>0. s \in Record /\ c \in Sessions
  BY DEF Good, Record
<1>1. w \in Record /\ RejectsSession(s, w, c)
  BY <1>0, RejectShape
<1> HIDE DEF w
<1>2. Good(w, n) /\ OnlySession(s, w, c)
  BY <1>1, RejectGood
<1>3. /\ w.guard = s.guard /\ w.read = s.read /\ w.state = s.state
      /\ w.closed = s.closed /\ w.error = s.error /\ w.blocked = s.blocked
      /\ w.pending_headers = s.pending_headers /\ w.over = s.over
      /\ w.pending_fin = s.pending_fin /\ w.stale_2xx = s.stale_2xx
      /\ w.fin_accepted = s.fin_accepted /\ w.qpack_blocked_fin = s.qpack_blocked_fin
  BY <1>1 DEF RejectsSession, Keeps, Names
<1>4. w.session_ids = s.session_ids \ {c} /\ w.pre_accept_fin = s.pre_accept_fin \ {c}
  BY <1>1 DEF RejectsSession
<1>5. Stays(s, w, c, a)
  BY <1>3, <1>4 DEF Stays
<1>6. \A z \in Sessions : Stays(s, w, z, a)
  BY <1>2, <1>5, SameStays DEF OnlySession
<1>7. Calm(w)
  BY <1>3 DEF Calm
<1>8. AllFitting(s, w)
  BY <1>3 DEF AllFitting, Fitting
<1> QED
  BY <1>2, <1>3, <1>6, <1>7, <1>8 DEF w, Called, OnlySession

LEMMA CloseCalled ==
    ASSUME NEW n, NEW s, Good(s, n), Calm(s), NEW c \in s.session_ids, NEW a, NEW f
    PROVE  LET w == close_session(s, c)
           IN  Called(s, w, n, a, a, f) /\ AllFitting(s, w)
<1> DEFINE w == close_session(s, c)
<1>0. s \in Record /\ c \in Sessions
  BY DEF Good, Record
<1>1. w \in Record /\ ClosesSession(s, w, c, "app") /\ w.stale_2xx = s.stale_2xx
  BY <1>0, CloseSessionShape
<1> HIDE DEF w
<1>2. Good(w, n)
  BY <1>1, ClosesGood
<1>3. /\ w.guard = s.guard /\ w.read = s.read /\ w.state = s.state
      /\ w.closed = s.closed /\ w.error = s.error /\ w.blocked = s.blocked
      /\ w.pending_headers = s.pending_headers /\ w.pre_accept_fin = s.pre_accept_fin
      /\ w.pending_fin = s.pending_fin /\ w.named = s.named /\ w.deleted = s.deleted
      /\ w.fin_accepted = s.fin_accepted /\ w.qpack_blocked_fin = s.qpack_blocked_fin
  BY <1>1 DEF ClosesSession, Keeps, Names
<1>4. /\ w.session_ids = s.session_ids \ {c} /\ s.over \in [Sessions -> Nat]
      /\ w.over = [s.over EXCEPT ![c] = @ + 1] /\ s.why \in [Sessions -> Why]
      /\ w.why = [s.why EXCEPT ![c] = "app"]
  BY <1>0, <1>1 DEF ClosesSession, Record
<1>5. \A z \in Sessions : Stays(s, w, z, a)
  BY <1>3, <1>4 DEF Stays
<1>6. \A d \in Remote : SameStream(s, w, d)
  BY <1>3 DEF SameStream
<1>7. Calm(w)
  BY <1>1, <1>3 DEF Calm
<1>8. AllFitting(s, w)
  <2>1. w.why[c] = "app" /\ \A z \in Sessions : z # c => w.over[z] = s.over[z]
    BY <1>0, <1>4
  <2> QED
    BY <2>1 DEF AllFitting, Fitting
<1> QED
  BY <1>2, <1>3, <1>5, <1>6, <1>7, <1>8 DEF w, Called

(* get_streams_to_send.                                                    *)
Sent(s, W) == [s EXCEPT !.written = @ \cup W]

LEMMA SentGood ==
    ASSUME NEW n, NEW s, Good(s, n), NEW W \in SUBSET {c \in Sessions : s.response[c] # "none"}
    PROVE  LET w == Sent(s, W)
           IN  /\ Good(w, n) /\ Keeps(s, w, {"written"}) /\ w.written = s.written \cup W
<1> DEFINE w == Sent(s, W)
<1>0. s \in Record
  BY DEF Good
<1>1. w \in Record
  BY <1>0 DEF Sent, Record
<1>2. Keeps(s, w, {"written"})
  BY <1>0, Fields DEF Sent, Keeps
<1>3. w.written = s.written \cup W
  BY <1>0, Fields DEF Sent, Names
<1> HIDE DEF w
<1>4. /\ w.ready = s.ready /\ w.response = s.response /\ w.ended = s.ended
      /\ w.confirmed = s.confirmed
      /\ w.fin_accepted = s.fin_accepted /\ w.stale_2xx = s.stale_2xx
      /\ w.pending_fin = s.pending_fin /\ w.pre_accept_fin = s.pre_accept_fin
      /\ w.over = s.over /\ w.session_ids = s.session_ids /\ w.accepted = s.accepted
      /\ w.pending_headers = s.pending_headers /\ w.blocked = s.blocked
      /\ w.read = s.read /\ w.state = s.state /\ w.guard = s.guard
  BY <1>2 DEF Keeps, Names
<1>5. /\ w.mixed = s.mixed /\ w.rejected = s.rejected /\ w.named = s.named
      /\ w.got = s.got /\ w.kept = s.kept /\ w.buffered = s.buffered
      /\ w.deleted = s.deleted /\ w.stream_info = s.stream_info
      /\ w.out_of_place = s.out_of_place
  BY <1>2 DEF Keeps, Names
<1>6. \A z \in Sessions : Life(w, z)
  BY <1>3, <1>4 DEF Good, Life
<1>7. \A d \in Remote : Around(s, w, d)
  BY <1>4, <1>5 DEF Around, Could, Settled
<1>8. \A d \in Remote : OneStream(w, d, n[d])
  BY <1>1, <1>7, AroundGood DEF Good
<1>9. Good(w, n)
  BY <1>1, <1>5, <1>6, <1>8 DEF Good
<1> QED
  BY <1>2, <1>3, <1>9 DEF w

LEMMA WriteCalled ==
    ASSUME NEW n, NEW s, Good(s, n), Calm(s), NEW a, NEW f,
           NEW W \in SUBSET {c \in Sessions : s.response[c] # "none"}
    PROVE  LET w == get_streams_to_send(s, W)
           IN  Called(s, w, n, a, a, f) /\ AllFitting(s, w)
<1> DEFINE r == Sent(s, W)
           Z == {c \in r.fin_accepted : is_stream_flushed(r, c)}
           w == FoldSet(LAMBDA c, t : close_stream([t EXCEPT !.fin_accepted = @ \ {c}], c, "fin"),
                        r, Z)
<1>1. Good(r, n) /\ Keeps(s, r, {"written"}) /\ r.written = s.written \cup W
  BY SentGood
<1>2. get_streams_to_send(s, W) = w
  BY DEF get_streams_to_send, close_deferred, Sent
<1> HIDE DEF r
<1>3. Z \in SUBSET Sessions
  BY <1>1 DEF Good, Record
<1>4. ASSUME NEW c \in Z
      PROVE  /\ c \in Sessions /\ c \in r.fin_accepted /\ r.state[c] # "none"
             /\ c \in r.session_ids => c \in r.written
  <2>1. c \in Sessions /\ Life(r, c) /\ c \in r.fin_accepted /\ is_stream_flushed(r, c)
    BY <1>1, <1>3 DEF Good
  <2>2. r.state[c] # "none"
    BY <2>1 DEF Life, HeadersLen
  <2> QED
    BY <2>1, <2>2 DEF is_stream_flushed, Life
<1> HIDE DEF Z
<1>5. Good(w, n) /\ Global(r, w) /\ Streamwise(r, w) /\ AllFinished(r, w, Z, "fin")
  BY <1>1, <1>3, FinishingAll DEF Why
<1> HIDE DEF w
<1>6. /\ r.fin_accepted = s.fin_accepted /\ r.stale_2xx = s.stale_2xx
      /\ r.pending_fin = s.pending_fin /\ r.pre_accept_fin = s.pre_accept_fin
      /\ r.qpack_blocked_fin = s.qpack_blocked_fin
      /\ r.over = s.over /\ r.session_ids = s.session_ids /\ r.why = s.why
      /\ r.pending_headers = s.pending_headers /\ r.blocked = s.blocked
      /\ r.read = s.read /\ r.state = s.state /\ r.guard = s.guard
      /\ r.closed = s.closed /\ r.error = s.error
      /\ r.named = s.named /\ r.deleted = s.deleted
  BY <1>1 DEF Keeps, Names
<1>7. Calm(w) /\ w.closed = s.closed /\ w.written = r.written
  BY <1>5, <1>6 DEF Calm, Global
<1>8. \A d \in Remote : SameStream(s, w, d)
  BY <1>5, <1>6 DEF Streamwise, SameStream
<1>9. ASSUME NEW z \in Z PROVE Stays(s, w, z, a) /\ Fitting(s, w, z)
  <2>1. FinishedAt(r, w, z, "fin")
    BY <1>5 DEF AllFinished
  <2>2. Stays(s, w, z, a)
    BY <1>4, <1>6, <2>1 DEF FinishedAt, Stays
  <2>3. w.over[z] = s.over[z] \/ (z \in w.written /\ w.why[z] = "fin")
    BY <1>4, <1>6, <1>7, <2>1 DEF FinishedAt
  <2> QED
    BY <2>2, <2>3 DEF Fitting
<1>10. ASSUME NEW z \in Sessions \ Z PROVE Stays(s, w, z, a) /\ Fitting(s, w, z)
  <2>1. Same(r, w, z)
    BY <1>5 DEF AllFinished
  <2>2. Stays(s, w, z, a)
    BY <1>6, <2>1 DEF Same, Stays
  <2>3. SameOver(s, w, z)
    BY <1>6, <2>1 DEF Same, SameOver
  <2> QED
    BY <2>2, <2>3, SameFitting
<1>11. \A z \in Sessions : Stays(s, w, z, a) /\ Fitting(s, w, z)
  BY <1>9, <1>10
<1> QED
  BY <1>2, <1>5, <1>7, <1>8, <1>11 DEF Called, AllFitting

-----------------------------------------------------------------------------
(* accept_session: the response, and the session confirmed to nghttp3.     *)

Answer(s, c) == [s EXCEPT !.response[c] = "ok",
                          !.fin_accepted = @ \cup (s.pre_accept_fin \cap {c}),
                          !.pre_accept_fin = @ \ {c}]

Confirm(s, c) == [s EXCEPT !.confirmed = @ \cup {c}, !.capsules[c] = <<>>]

(* b: the session as it is before the first capsule that was kept.         *)
Confirms(s, b, c) ==
    /\ Keeps(s, b, {"response", "fin_accepted", "pre_accept_fin", "confirmed", "capsules"})
    /\ b.response = [s.response EXCEPT ![c] = "ok"]
    /\ b.fin_accepted = s.fin_accepted \cup (s.pre_accept_fin \cap {c})
    /\ b.pre_accept_fin = s.pre_accept_fin \ {c}
    /\ b.confirmed = s.confirmed \cup {c}

LEMMA ConfirmShape ==
    ASSUME NEW s \in Record, NEW c \in Sessions
    PROVE  LET b == Confirm(Answer(s, c), c)
           IN  b \in Record /\ Confirms(s, b, c) /\ Answer(s, c).capsules = s.capsules
<1> DEFINE R == [s.response EXCEPT ![c] = "ok"]
           t == [s EXCEPT !.response = R,
                          !.fin_accepted = @ \cup (s.pre_accept_fin \cap {c}),
                          !.pre_accept_fin = @ \ {c}]
           e == <<>>
           C == [s.capsules EXCEPT ![c] = e]
           D == s.confirmed \cup {c}
           b == [t EXCEPT !.confirmed = D, !.capsules = C]
<1>1. R \in [Sessions -> {"none", "ok", "refused"}]
  BY DEF Record
<1>2. C \in [Sessions -> Seq(Item)]
  <2>1. e \in Seq(Item)
    OBVIOUS
  <2> HIDE DEF e
  <2> QED
    BY <2>1 DEF Record
<1>3. Answer(s, c) = t
  BY Fields DEF Answer, Names
<1>13. D \in SUBSET Sessions
  BY DEF Record
<1> HIDE DEF R
<1>4. t \in Record
  BY <1>1 DEF Record
<1>5. Keeps(s, t, {"response", "fin_accepted", "pre_accept_fin"})
  BY Fields DEF Keeps
<1>6. /\ t.response = R /\ t.pre_accept_fin = s.pre_accept_fin \ {c}
      /\ t.fin_accepted = s.fin_accepted \cup (s.pre_accept_fin \cap {c})
  BY Fields DEF Names
<1> HIDE DEF t
<1>7. t.capsules = s.capsules /\ t.confirmed = s.confirmed
  BY <1>5 DEF Keeps, Names
<1>8. Confirm(t, c) = b
  BY <1>4, <1>7, Fields DEF Confirm, Names
<1> HIDE DEF C, D
<1>9. b \in Record
  BY <1>2, <1>4, <1>13 DEF Record
<1>10. Keeps(t, b, {"confirmed", "capsules"})
  BY <1>4, Fields DEF Keeps
<1>11. b.confirmed = D
  BY <1>4, Fields DEF Names
<1> HIDE DEF b
<1>12. /\ b.response = t.response /\ b.fin_accepted = t.fin_accepted
       /\ b.pre_accept_fin = t.pre_accept_fin
  BY <1>10 DEF Keeps, Names
<1>15. Keeps(s, b, {"response", "fin_accepted", "pre_accept_fin", "confirmed", "capsules"})
  BY <1>5, <1>10 DEF Keeps
<1>14. Confirms(s, b, c)
  BY <1>6, <1>7, <1>11, <1>12, <1>15 DEF Confirms, R, D
<1> QED
  BY <1>3, <1>7, <1>8, <1>9, <1>14

(* c, before the answer.                                                   *)
Unanswered(s, c) == c \in s.session_ids /\ s.response[c] = "none"

LEMMA ConfirmGood ==
    ASSUME NEW n, NEW s, Good(s, n), NEW c \in Sessions, Unanswered(s, c),
           NEW b \in Record, Confirms(s, b, c)
    PROVE  Good(b, n) /\ OnlySession(s, b, c) /\ c \notin s.fin_accepted \cup s.written
<1>0. s \in Record /\ ~s.out_of_place /\ ~s.mixed /\ Life(s, c)
  BY DEF Good
<1>1. /\ b.ready = s.ready /\ b.ended = s.ended /\ b.written = s.written
      /\ b.stale_2xx = s.stale_2xx /\ b.pending_fin = s.pending_fin
      /\ b.over = s.over /\ b.why = s.why
      /\ b.session_ids = s.session_ids /\ b.accepted = s.accepted
      /\ b.pending_headers = s.pending_headers /\ b.blocked = s.blocked
      /\ b.qpack_blocked_fin = s.qpack_blocked_fin
      /\ b.read = s.read /\ b.state = s.state /\ b.guard = s.guard
  BY DEF Confirms, Keeps, Names
<1>2. /\ b.mixed = s.mixed /\ b.rejected = s.rejected /\ b.named = s.named
      /\ b.got = s.got /\ b.kept = s.kept /\ b.buffered = s.buffered
      /\ b.deleted = s.deleted /\ b.stream_info = s.stream_info
      /\ b.out_of_place = s.out_of_place
  BY DEF Confirms, Keeps, Names
<1>3. /\ b.response = [s.response EXCEPT ![c] = "ok"]
      /\ b.fin_accepted = s.fin_accepted \cup (s.pre_accept_fin \cap {c})
      /\ b.pre_accept_fin = s.pre_accept_fin \ {c}
      /\ b.confirmed = s.confirmed \cup {c}
      /\ s.response \in [Sessions -> {"none", "ok", "refused"}]
  BY <1>0 DEF Confirms, Record
<1>4. /\ c \notin s.fin_accepted \cup s.written \cup s.accepted
      /\ c \in s.session_ids /\ s.ready[c] = 1 /\ s.over[c] = 0
  BY <1>0 DEF Life, Unanswered
<1>5. b.response[c] = "ok" /\ \A z \in Sessions : z # c => b.response[z] = s.response[z]
  BY <1>3
<1>6. \A z \in Sessions : z # c => Same(s, b, z)
  BY <1>1, <1>3, <1>5 DEF Same
<1>7. Life(b, c)
  BY <1>0, <1>1, <1>3, <1>4, <1>5 DEF Life
<1>8. \A z \in Sessions : Life(b, z)
  BY <1>6, <1>7, LifeSame DEF Good
<1>9. ASSUME NEW d \in Remote PROVE OneStream(b, d, n[d])
  <2>1. CASE SessionOf[d] = c
    <3>1. OneStream(s, d, n[d])
      BY DEF Good
    <3>2. Could(b, c) => Could(s, c)
      BY <1>1, <1>3, <1>4 DEF Could, Unanswered
    <3>3. Stream(b, d)
      BY <1>2, <3>1 DEF OneStream, Stream
    <3>4. Counted(b, d)
      BY <1>3, <2>1 DEF Counted
    <3>5. Reported(b, d, n[d])
      BY <1>2, <2>1, <3>1, <3>2 DEF OneStream, Reported
    <3>6. NoneKept(b, d)
      BY <1>1, <1>4, <2>1 DEF NoneKept
    <3> QED
      BY <3>3, <3>4, <3>5, <3>6 DEF OneStream
  <2>2. CASE SessionOf[d] # c
    <3>1. SessionOf[d] \in Sessions
      BY SessionOfStream DEF Streams
    <3>2. Same(s, b, SessionOf[d])
      BY <1>6, <2>2, <3>1
    <3>3. Around(s, b, d)
      BY <1>2, <3>2 DEF Around, Same, Could, Settled
    <3> QED
      BY <3>3, AroundGood DEF Good
  <2> QED
    BY <2>1, <2>2
<1>10. Good(b, n)
  BY <1>0, <1>2, <1>8, <1>9 DEF Good
<1>11. \A d \in Remote : SameStream(s, b, d)
  BY <1>1, <1>2 DEF SameStream
<1> QED
  BY <1>4, <1>6, <1>10, <1>11 DEF OnlySession

(* The capsules that were kept.                                            *)
Emptying(b, r, c) ==
    /\ Keeps(b, r, CapsuleFields) /\ OnlySession(b, r, c)
    /\ \/ /\ r.error \in {"none", "message"} /\ r.over[c] = b.over[c]
          /\ r.session_ids = b.session_ids /\ r.stale_2xx = b.stale_2xx
       \/ /\ r.error = "none" /\ r.why[c] = "capsule" /\ c \notin r.session_ids
          /\ c \in r.stale_2xx

LEMMA EmptyingNext ==
    ASSUME NEW n, NEW b, NEW c \in Sessions, b \in Record, c \in b.session_ids,
           c \in b.confirmed, b.state[c] # "gone", NEW r, Good(r, n), Emptying(b, r, c), NEW x
    PROVE  LET t == Take(r, c, x) IN Good(t, n) /\ Emptying(b, t, c)
<1> DEFINE t == capsule_arrives(r, c, x, TRUE)
<1>1. CASE r.error # "none"
  BY <1>1 DEF Take
<1>2. CASE r.error = "none"
  <2>1. r.confirmed = b.confirmed /\ r.state = b.state
    BY DEF Emptying, Keeps, CapsuleFields, Names
  <2>2. Good(t, n) /\ Reads(r, t, c) /\ Capsule(r, t, c, TRUE)
    BY <2>1, CapsuleGood
  <2> HIDE DEF t
  <2>3. Keeps(b, t, CapsuleFields)
    BY <2>2 DEF Keeps, Emptying, Capsule
  <2>4. OnlySession(b, t, c)
    BY <2>2, OnlyAfter DEF Emptying, Reads
  <2>5. Emptying(b, t, c)
    BY <1>2, <2>2, <2>3, <2>4 DEF Emptying, Capsule
  <2>6. Take(r, c, x) = t
    BY <1>2 DEF Take, t
  <2> QED
    BY <2>2, <2>5, <2>6
<1> QED
  BY <1>1, <1>2

LEMMA TakingAll ==
    ASSUME NEW n, NEW b, Good(b, n), b.error = "none", NEW c \in Sessions,
           c \in b.session_ids, c \in b.confirmed, NEW q \in Seq(Item)
    PROVE  LET r == TheTaking(c, b, q)[DOMAIN q] IN Good(r, n) /\ Emptying(b, r, c)
<1> DEFINE R == {r \in Record : Good(r, n) /\ Emptying(b, r, c)}
<1>0. b \in Record /\ b.state[c] # "gone"
  BY DEF Good, Life
<1>1. b \in R
  <2>1. Emptying(b, b, c)
    BY OnlyNone DEF Emptying, Keeps
  <2> QED
    BY <1>0, <2>1
<1>2. \A i \in DOMAIN q, r \in R : Take(r, c, q[i]) \in R
  <2>1. ASSUME NEW x, NEW r \in R PROVE Take(r, c, x) \in R
    <3>1. Good(Take(r, c, x), n) /\ Emptying(b, Take(r, c, x), c)
      BY <1>0, EmptyingNext
    <3> QED
      BY <3>1 DEF Good
  <2> QED
    BY <2>1
<1> HIDE DEF R
<1>3. TheTaking(c, b, q)[DOMAIN q] \in R
  BY <1>1, <1>2, TakingSteps
<1> QED
  BY <1>3 DEF R

(* The data that was kept.                                                 *)
HandFields == {"kept", "got", "stream_info", "out_of_place"}

LEMMA EmptiedShape ==
    ASSUME NEW s \in Record, NEW d \in Remote
    PROVE  LET t == Emptied(s, d)
           IN  /\ t \in Record /\ Keeps(s, t, {"kept"})
               /\ t.kept = [s.kept EXCEPT ![d] = 0]
<1> DEFINE K == [s.kept EXCEPT ![d] = 0]
           t == [s EXCEPT !.kept = K]
<1>1. K \in [Remote -> Nat]
  BY DEF Record
<1>2. Emptied(s, d) = t
  BY Fields DEF Emptied, Names
<1> HIDE DEF K
<1>3. t \in Record
  BY <1>1 DEF Record
<1>4. Keeps(s, t, {"kept"})
  BY Fields DEF Keeps
<1>5. t.kept = K
  BY Fields DEF Names
<1> QED
  BY <1>2, <1>3, <1>4, <1>5 DEF K

LEMMA HandGood ==
    ASSUME NEW n, NEW s, Good(s, n), NEW d \in Remote, SessionOf[d] \in s.confirmed,
           d \in s.named, d \notin s.deleted
    PROVE  LET t == Hand(s, d)
           IN  /\ Good(t, n) /\ NoSession(s, t) /\ Keeps(s, t, HandFields)
               /\ t.kept = [s.kept EXCEPT ![d] = 0]
<1> DEFINE w == Emptied(s, d)
           k == s.kept[d]
           t == recv_wt_data_cb(w, d, k)
           m == [e \in Remote |-> IF e = d THEN s.got[d] ELSE n[e]]
           l == [e \in Remote |-> IF e = d THEN s.got[d] + k ELSE n[e]]
<1>0. /\ s \in Record /\ k \in Nat /\ s.got[d] \in Nat /\ OneStream(s, d, n[d])
      /\ ~s.out_of_place /\ s.kept \in [Remote -> Nat]
  BY DEF Good, Record
<1>1. w \in Record /\ Keeps(s, w, {"kept"}) /\ w.kept = [s.kept EXCEPT ![d] = 0]
  BY <1>0, EmptiedShape
<1> HIDE DEF w, k
<1>2. /\ w.named = s.named /\ w.deleted = s.deleted /\ w.stream_info = s.stream_info
      /\ w.rejected = s.rejected /\ w.buffered = s.buffered /\ w.got = s.got
      /\ w.confirmed = s.confirmed /\ w.out_of_place = s.out_of_place
  BY <1>1 DEF Keeps, Names
<1>3. w.kept[d] = 0 /\ \A e \in Remote : e # d => w.kept[e] = s.kept[e]
  BY <1>0, <1>1
<1>4. OneStream(w, d, m[d])
  <2>1. Stream(w, d)
    BY <1>0, <1>2, <1>3 DEF OneStream, Stream
  <2>2. Counted(w, d) /\ NoneKept(w, d)
    BY <1>2, <1>3 DEF Counted, NoneKept
  <2>3. Reported(w, d, m[d])
    BY <1>0, <1>2, <1>3 DEF Reported
  <2> QED
    BY <2>1, <2>2, <2>3 DEF OneStream
<1>5. Keeps(s, w, DataFields)
  BY <1>1 DEF Keeps, DataFields
<1>6. \A e \in Remote : e # d => StreamSame(s, w, e) /\ m[e] = n[e]
  BY <1>2, <1>3 DEF StreamSame
<1>7. m[d] = s.got[d] /\ l[d] = m[d] + k /\ \A e \in Remote : e # d => l[e] = m[e] /\ l[e] = n[e]
  OBVIOUS
<1> HIDE DEF m, l
<1>8. Good(w, m) /\ NoSession(s, w)
  BY <1>0, <1>1, <1>2, <1>4, <1>5, <1>6, DataGood
<1>9. /\ Good(t, l) /\ NoSession(w, t)
      /\ Keeps(w, t, {"stream_info", "got", "out_of_place"})
  <2>1. d \in w.named \ w.deleted /\ SessionOf[d] \in w.confirmed /\ m[d] \in Nat
    BY <1>0, <1>2, <1>7
  <2>2. \A e \in Remote : e # d => l[e] = m[e]
    BY <1>7
  <2>3. l[d] = m[d] + k /\ k \in Nat /\ Good(w, m)
    BY <1>0, <1>7, <1>8
  <2> QED
    BY <2>1, <2>2, <2>3, RecvGood
<1> HIDE DEF t
<1>10. NoSession(s, t)
  BY <1>8, <1>9, NoSessionAfter
<1>11. Keeps(s, t, HandFields)
  BY <1>1, <1>9 DEF Keeps, HandFields
<1>12. t.kept = w.kept /\ t.deleted = s.deleted
  BY <1>2, <1>9 DEF Keeps, Names
<1>13. OneStream(t, d, n[d])
  <2>1. OneStream(t, d, l[d])
    BY <1>9 DEF Good
  <2>2. Could(t, SessionOf[d]) => Could(s, SessionOf[d])
    <3>1. SessionOf[d] \in Sessions
      BY SessionOfStream DEF Streams
    <3>2. Same(s, t, SessionOf[d])
      BY <1>10, <3>1 DEF NoSession
    <3> QED
      BY <3>2 DEF Same, Could
  <2>3. Could(s, SessionOf[d]) => l[d] = n[d]
    BY <1>0, <1>7 DEF OneStream, Reported, k
  <2>4. Reported(t, d, n[d])
    BY <2>1, <2>2, <2>3 DEF OneStream, Reported
  <2> QED
    BY <2>1, <2>4 DEF OneStream
<1>14. \A e \in Remote : OneStream(t, e, n[e])
  BY <1>7, <1>9, <1>13 DEF Good
<1>15. Good(t, n)
  BY <1>9, <1>14 DEF Good
<1> QED
  BY <1>1, <1>10, <1>11, <1>12, <1>15 DEF Hand, t, w, k

(* What the fold over streams of c leaves.                                 *)
Handing(s, t, n) ==
    /\ Good(t, n) /\ NoSession(s, t) /\ Keeps(s, t, HandFields)
    /\ \A e \in Remote : t.kept[e] = s.kept[e] \/ t.kept[e] = 0

LEMMA HandingAll ==
    ASSUME NEW n, NEW s, Good(s, n), NEW c \in Sessions, c \in s.confirmed,
           NEW Z \in SUBSET Remote,
           \A d \in Remote : d \in Z <=> SessionOf[d] = c /\ s.kept[d] > 0
    PROVE  LET t == TheHanding(s, Z)[Z]
           IN  /\ Handing(s, t, n)
               /\ \A d \in Remote : SessionOf[d] = c => t.kept[d] = 0
<1> DEFINE J == TheHanding(s, Z)
           R == {r \in Record : Handing(s, r, n)}
<1>0. s \in Record /\ Z \in SUBSET Remote /\ IsFiniteSet(Z)
  <2>1. s \in Record /\ Z \in SUBSET Remote
    BY DEF Good
  <2> QED
    BY <2>1, SessionAssumption, FS_Subset
<1>1. s \in R
  BY <1>0 DEF Handing, NoSession, Same, Keeps
<1>2. ASSUME NEW d \in Z, NEW r \in R
      PROVE  Hand(r, d) \in R /\ Hand(r, d).kept = [r.kept EXCEPT ![d] = 0]
  <2> DEFINE t == Hand(r, d)
  <2>0. d \in Remote /\ SessionOf[d] = c /\ s.kept[d] > 0 /\ Good(r, n) /\ r \in Record
    BY DEF Handing
  <2>1. r.confirmed = s.confirmed /\ r.named = s.named /\ r.deleted = s.deleted
    BY DEF Handing, Keeps, HandFields, Names
  <2>2. d \in s.named /\ d \notin s.deleted
    <3>1. Stream(s, d) /\ s.kept[d] \in Nat
      BY <1>0, <2>0 DEF Good, OneStream, Record
    <3> QED
      BY <2>0, <3>1 DEF Stream
  <2>3. /\ Good(t, n) /\ NoSession(r, t) /\ Keeps(r, t, HandFields)
        /\ t.kept = [r.kept EXCEPT ![d] = 0]
    BY <2>0, <2>1, <2>2, HandGood
  <2> HIDE DEF t
  <2>4. NoSession(s, t)
    BY <2>3, NoSessionAfter DEF Handing
  <2>5. Keeps(s, t, HandFields)
    BY <2>3 DEF Keeps, Handing
  <2>6. \A e \in Remote : t.kept[e] = s.kept[e] \/ t.kept[e] = 0
    <3>1. r.kept \in [Remote -> Nat]
      BY <2>0 DEF Record
    <3> QED
      BY <2>3, <3>1 DEF Handing
  <2>7. t \in Record
    BY <2>3 DEF Good
  <2> QED
    BY <2>3, <2>4, <2>5, <2>6, <2>7 DEF Handing, t
<1>3. R \subseteq Record
  OBVIOUS
<1> HIDE DEF R
<1>4. /\ \A z \in SUBSET Z : J[z] \in R
      /\ J[{}] = s
      /\ \A z \in SUBSET Z : z # {} => J[z] = Hand(J[z \ {Pick(z)}], Pick(z))
  <2>1. \A d \in Z, r \in R : Hand(r, d) \in R
    BY <1>2
  <2> QED
    BY <1>0, <1>1, <2>1, HandingSteps
<1> HIDE DEF J
<1> DEFINE G == {z \in SUBSET Z : \A d \in z : J[z].kept[d] = 0}
<1>5. {} \in G
  OBVIOUS
<1>6. ASSUME NEW z \in SUBSET Z, z # {}, z \ {Pick(z)} \in G PROVE z \in G
  <2> DEFINE k == Pick(z)
             r == J[z \ {k}]
  <2>1. k \in z /\ k \in Z /\ z \ {k} \in SUBSET Z
    BY <1>6, PickingIs
  <2>2. J[z] = Hand(r, k) /\ r \in R
    BY <1>4, <1>6, <2>1
  <2>3. \A d \in z \ {k} : r.kept[d] = 0
    BY <1>6
  <2>4. J[z].kept = [r.kept EXCEPT ![k] = 0]
    BY <1>2, <2>1, <2>2
  <2> HIDE DEF k, r
  <2>5. r.kept \in [Remote -> Nat]
    BY <1>3, <2>2 DEF Record
  <2>6. \A d \in z : J[z].kept[d] = 0
    BY <1>0, <2>1, <2>3, <2>4, <2>5
  <2> QED
    BY <2>6
<1>7. Z \in G
  <2> HIDE DEF G
  <2>1. \A z \in SUBSET Z : z \in G
    BY <1>0, <1>5, <1>6, SubsetInduction
  <2> QED
    BY <2>1
<1>8. J[Z] \in Record /\ Handing(s, J[Z], n)
  BY <1>4 DEF R
<1>9. \A d \in Remote : SessionOf[d] = c => J[Z].kept[d] = 0
  <2>1. \A d \in Remote : s.kept[d] \in Nat
    BY <1>0 DEF Record
  <2> QED
    BY <1>7, <1>8, <2>1 DEF Handing
<1> QED
  BY <1>8, <1>9 DEF J

(* The session c after confirm_wt_session, and what has become of it.      *)
Confirmed(s, u, c) ==
    /\ \A z \in Sessions : z # c => Same(s, u, z)
    /\ u.guard = s.guard /\ u.state = s.state /\ u.read = s.read /\ u.closed = s.closed
    /\ u.pending_headers = s.pending_headers /\ u.blocked = s.blocked
    /\ u.qpack_blocked_fin = s.qpack_blocked_fin /\ u.written = s.written
    /\ u.pending_fin = s.pending_fin /\ u.named = s.named /\ u.deleted = s.deleted
    /\ u.confirmed = s.confirmed \cup {c}
    /\ u.fin_accepted = s.fin_accepted \cup (s.pre_accept_fin \cap {c})
    /\ u.pre_accept_fin = s.pre_accept_fin \ {c}

Malformed(s, u, c) == /\ u.error = "message" /\ c \in u.session_ids /\ u.stale_2xx = {}
                      /\ u.over[c] = s.over[c]

Established(s, u, c) == /\ u.error = "none" /\ c \in u.session_ids /\ u.stale_2xx = {}
                        /\ u.over[c] = s.over[c]
                        /\ \A d \in Remote : SessionOf[d] = c => u.kept[d] = 0

ClosedAlready(s, u, c) == /\ u.error = "none" /\ c \notin u.session_ids
                          /\ u.stale_2xx = {c} /\ u.why[c] = "capsule"

LEMMA ConfirmDone ==
    ASSUME NEW n, NEW s, Good(s, n), Calm(s), NEW c \in Sessions, Unanswered(s, c)
    PROVE  LET u == confirm_wt_session(Answer(s, c), c)
           IN  /\ Good(u, n) /\ Confirmed(s, u, c)
               /\ Malformed(s, u, c) \/ Established(s, u, c) \/ ClosedAlready(s, u, c)
<1> DEFINE t == Answer(s, c)
           b == Confirm(t, c)
           q == t.capsules[c]
           r == TheTaking(c, b, q)[DOMAIN q]
           Z == {d \in Remote : SessionOf[d] = c /\ r.kept[d] > 0}
           v == TheHanding(r, Z)[Z]
           u == confirm_wt_session(t, c)
<1>0. s \in Record /\ Life(s, c)
  BY DEF Good
<1>1. u = IF r.error # "none" THEN r ELSE v
  <2> HIDE DEF t
  <2> QED
    BY ConfirmIs DEF Confirm
<1>2. b \in Record /\ Confirms(s, b, c) /\ t.capsules = s.capsules
  BY <1>0, ConfirmShape
<1>3. q \in Seq(Item)
  BY <1>0, <1>2 DEF Record
<1> HIDE DEF t, b, q
<1>4. Good(b, n) /\ OnlySession(s, b, c) /\ c \notin s.fin_accepted \cup s.written
  BY <1>2, ConfirmGood
<1>5. /\ b.guard = s.guard /\ b.state = s.state /\ b.read = s.read /\ b.closed = s.closed
      /\ b.pending_headers = s.pending_headers /\ b.blocked = s.blocked
      /\ b.qpack_blocked_fin = s.qpack_blocked_fin /\ b.written = s.written
      /\ b.pending_fin = s.pending_fin /\ b.named = s.named /\ b.deleted = s.deleted
      /\ b.session_ids = s.session_ids /\ b.error = s.error /\ b.stale_2xx = s.stale_2xx
      /\ b.over = s.over
  BY <1>2 DEF Confirms, Keeps, Names
<1>6. /\ b.confirmed = s.confirmed \cup {c}
      /\ b.fin_accepted = s.fin_accepted \cup (s.pre_accept_fin \cap {c})
      /\ b.pre_accept_fin = s.pre_accept_fin \ {c}
  BY <1>2 DEF Confirms
<1>7. b.error = "none" /\ c \in b.session_ids /\ c \in b.confirmed /\ b.stale_2xx = {}
  BY <1>5, <1>6 DEF Calm, Unanswered
<1>8. Good(r, n) /\ Emptying(b, r, c)
  BY <1>3, <1>4, <1>7, TakingAll
<1> HIDE DEF r
<1>9. /\ r.guard = b.guard /\ r.state = b.state /\ r.read = b.read /\ r.closed = b.closed
      /\ r.pending_headers = b.pending_headers /\ r.blocked = b.blocked
      /\ r.qpack_blocked_fin = b.qpack_blocked_fin /\ r.written = b.written
      /\ r.pending_fin = b.pending_fin /\ r.named = b.named /\ r.deleted = b.deleted
      /\ r.confirmed = b.confirmed /\ r.fin_accepted = b.fin_accepted
      /\ r.pre_accept_fin = b.pre_accept_fin
  BY <1>8 DEF Emptying, Keeps, CapsuleFields, Names
<1>10. \A z \in Sessions : z # c => Same(s, r, z)
  BY <1>4, <1>8, SameAfter DEF Emptying, OnlySession
<1>11. r.stale_2xx \subseteq {c} /\ c \in r.confirmed
  <2>1. r.stale_2xx \subseteq Sessions
    BY <1>8 DEF Good, Record
  <2>2. \A z \in Sessions : z # c => (z \in r.stale_2xx <=> z \in s.stale_2xx)
    BY <1>10 DEF Same
  <2> QED
    BY <1>5, <1>7, <1>9, <2>1, <2>2
<1>12. Confirmed(s, r, c)
  BY <1>5, <1>6, <1>9, <1>10 DEF Confirmed
<1>13. CASE r.error # "none"
  <2>1. u = r
    BY <1>1, <1>13
  <2>2. Malformed(s, r, c)
    BY <1>5, <1>7, <1>8, <1>13 DEF Emptying, Malformed
  <2> HIDE DEF u
  <2> QED
    BY <1>8, <1>12, <2>1, <2>2 DEF u, t
<1>14. CASE r.error = "none"
  <2>1. u = v
    BY <1>1, <1>14
  <2> HIDE DEF u
  <2>2. Handing(r, v, n) /\ \A d \in Remote : SessionOf[d] = c => v.kept[d] = 0
    <3>1. /\ Z \in SUBSET Remote
          /\ \A d \in Remote : d \in Z <=> SessionOf[d] = c /\ r.kept[d] > 0
      OBVIOUS
    <3> HIDE DEF Z
    <3> QED
      BY <1>8, <1>11, <3>1, HandingAll
  <2> HIDE DEF v
  <2>3. /\ v.guard = r.guard /\ v.state = r.state /\ v.read = r.read /\ v.closed = r.closed
        /\ v.pending_headers = r.pending_headers /\ v.blocked = r.blocked
        /\ v.qpack_blocked_fin = r.qpack_blocked_fin /\ v.written = r.written
        /\ v.pending_fin = r.pending_fin /\ v.named = r.named /\ v.deleted = r.deleted
        /\ v.confirmed = r.confirmed /\ v.fin_accepted = r.fin_accepted
        /\ v.pre_accept_fin = r.pre_accept_fin
        /\ v.error = r.error /\ v.session_ids = r.session_ids
        /\ v.stale_2xx = r.stale_2xx /\ v.over = r.over /\ v.why = r.why
    BY <2>2 DEF Handing, Keeps, HandFields, Names
  <2>4. \A z \in Sessions : z # c => Same(s, v, z)
    BY <1>10, <2>2, SameAfter DEF Handing, NoSession
  <2>5. Confirmed(s, v, c)
    BY <1>12, <2>3, <2>4 DEF Confirmed
  <2>6. Established(s, v, c) \/ ClosedAlready(s, v, c)
    <3>1. CASE c \in r.session_ids
      BY <1>5, <1>7, <1>8, <1>14, <2>2, <2>3, <3>1 DEF Established, Emptying
    <3>2. CASE c \notin r.session_ids
      BY <1>5, <1>7, <1>8, <1>11, <1>14, <2>3, <3>2 DEF ClosedAlready, Emptying
    <3> QED
      BY <3>1, <3>2
  <2> QED
    BY <2>1, <2>2, <2>5, <2>6 DEF Handing, u, t
<1> QED
  BY <1>13, <1>14

(* Without a stale 2xx nothing is discarded.                               *)
LEMMA DiscardNone ==
    ASSUME NEW s \in Record, s.stale_2xx = {}
    PROVE  Keeps(s, discard_stale_2xx(s), {"stale_2xx"})
<1> DEFINE Z == s.stale_2xx
           r == FoldSet(LAMBDA c, t : close_stream([t EXCEPT !.fin_accepted = @ \ {c}],
                                                   c, "capsule"), s, Z)
<1>1. discard_stale_2xx(s) = NoStale(r)
  BY Zenon DEF discard_stale_2xx, NoStale
<1> HIDE DEF Z
<1>2. r = TheFinishing("capsule", s, Z)[Z]
  BY FinishingIs
<1>3. TheFinishing("capsule", s, {})[{}] = s
  <2> DEFINE y == "capsule"
             e == {}
             R == {s}
  <2>1. IsFiniteSet(e) /\ s \in R /\ \A x \in e, k \in R : Finish(k, x, y) \in R
    BY FS_EmptySet
  <2> HIDE DEF y, R
  <2>2. TheFinishing(y, s, e)[{}] = s
    <3> HIDE DEF e
    <3> QED
      BY <2>1, FinishingSteps
  <2> QED
    BY <2>2 DEF y
<1>4. r = s
  BY <1>2, <1>3 DEF Z
<1> QED
  BY <1>1, <1>4, NoStaleShape

(* The response could not be sent: the marks are as they were.             *)
Unanswer(s, c, P) == [s EXCEPT !.error = "none",
                               !.fin_accepted = @ \ {c},
                               !.pre_accept_fin = @ \cup P]

LEMMA UnanswerShape ==
    ASSUME NEW s \in Record, NEW c, NEW P \in SUBSET Sessions
    PROVE  LET t == Unanswer(s, c, P)
           IN  /\ t \in Record /\ Keeps(s, t, {"error", "fin_accepted", "pre_accept_fin"})
               /\ t.error = "none" /\ t.fin_accepted = s.fin_accepted \ {c}
               /\ t.pre_accept_fin = s.pre_accept_fin \cup P
<1> DEFINE t == Unanswer(s, c, P)
<1>1. t \in Record
  BY DEF Unanswer, Record
<1>2. Keeps(s, t, {"error", "fin_accepted", "pre_accept_fin"})
  BY Fields DEF Unanswer, Keeps
<1>3. /\ t.error = "none" /\ t.fin_accepted = s.fin_accepted \ {c}
      /\ t.pre_accept_fin = s.pre_accept_fin \cup P
  BY Fields DEF Unanswer, Names
<1> QED
  BY <1>1, <1>2, <1>3

(* Acceptance completed.                                                   *)
Accept(s, c) == forget_pre_accept_session(
                    [s EXCEPT !.accepted = @ \cup (s.session_ids \cap {c})], c)

LEMMA AcceptShape ==
    ASSUME NEW s \in Record, NEW c \in Sessions
    PROVE  LET t == Accept(s, c)
           IN  /\ t \in Record /\ Keeps(s, t, {"accepted", "buffered"})
               /\ t.accepted = s.accepted \cup (s.session_ids \cap {c})
               /\ t.buffered = [d \in Remote |->
                                   IF SessionOf[d] = c THEN 0 ELSE s.buffered[d]]
<1> DEFINE A == s.accepted \cup (s.session_ids \cap {c})
           B == [d \in Remote |-> IF SessionOf[d] = c THEN 0 ELSE s.buffered[d]]
           t == [s EXCEPT !.accepted = A, !.buffered = B]
<1>1. A \in SUBSET Sessions /\ B \in [Remote -> Nat]
  BY DEF Record
<1>2. Accept(s, c) = t
  BY Fields DEF Accept, forget_pre_accept_session, Names
<1> HIDE DEF A, B
<1>3. t \in Record
  BY <1>1 DEF Record
<1>4. Keeps(s, t, {"accepted", "buffered"})
  BY Fields DEF Keeps
<1>5. t.accepted = A /\ t.buffered = B
  BY Fields DEF Names
<1> QED
  BY <1>2, <1>3, <1>4, <1>5 DEF A, B

LEMMA AcceptIs ==
    ASSUME NEW s, NEW c
    PROVE  LET u == confirm_wt_session(Answer(s, c), c)
           IN  /\ u.error # "none" =>
                     accept_session(s, c) = discard_stale_2xx(handle_wt_close_session_error(
                         Unanswer(u, c, s.pre_accept_fin \cap {c}), c))
               /\ u.error = "none" => accept_session(s, c) = Accept(discard_stale_2xx(u), c)
BY Zenon DEF accept_session, Answer, Unanswer, Accept

LEMMA AcceptGood ==
    ASSUME NEW n, NEW s, Good(s, n), NEW c \in Sessions, c \in s.confirmed,
           c \in s.session_ids => \A d \in Remote : SessionOf[d] = c => s.kept[d] = 0
    PROVE  LET t == Accept(s, c)
           IN  Good(t, n) /\ Keeps(s, t, {"accepted", "buffered"})
               /\ \A z \in Sessions : z # c => Same(s, t, z)
<1> DEFINE t == Accept(s, c)
<1>0. s \in Record /\ ~s.out_of_place /\ ~s.mixed /\ Life(s, c)
  BY DEF Good
<1>1. /\ t \in Record /\ Keeps(s, t, {"accepted", "buffered"})
      /\ t.accepted = s.accepted \cup (s.session_ids \cap {c})
      /\ t.buffered = [d \in Remote |-> IF SessionOf[d] = c THEN 0 ELSE s.buffered[d]]
  BY <1>0, AcceptShape
<1> HIDE DEF t
<1>2. /\ t.ready = s.ready /\ t.response = s.response /\ t.ended = s.ended
      /\ t.confirmed = s.confirmed /\ t.written = s.written
      /\ t.fin_accepted = s.fin_accepted /\ t.stale_2xx = s.stale_2xx
      /\ t.pending_fin = s.pending_fin /\ t.pre_accept_fin = s.pre_accept_fin
      /\ t.over = s.over /\ t.why = s.why /\ t.session_ids = s.session_ids
      /\ t.pending_headers = s.pending_headers /\ t.blocked = s.blocked
      /\ t.qpack_blocked_fin = s.qpack_blocked_fin
      /\ t.read = s.read /\ t.state = s.state /\ t.guard = s.guard
  BY <1>1 DEF Keeps, Names
<1>3. /\ t.mixed = s.mixed /\ t.rejected = s.rejected /\ t.named = s.named
      /\ t.got = s.got /\ t.kept = s.kept /\ t.deleted = s.deleted
      /\ t.stream_info = s.stream_info /\ t.out_of_place = s.out_of_place
  BY <1>1 DEF Keeps, Names
<1>4. \A z \in Sessions : z # c => Same(s, t, z)
  BY <1>1, <1>2 DEF Same
<1>5. Life(t, c)
  BY <1>0, <1>1, <1>2 DEF Life
<1>6. \A z \in Sessions : Life(t, z)
  BY <1>4, <1>5, LifeSame DEF Good
<1>7. ASSUME NEW d \in Remote PROVE OneStream(t, d, n[d])
  <2>0. OneStream(s, d, n[d]) /\ SessionOf[d] \in Sessions
    BY SessionOfStream DEF Good, Streams
  <2>1. CASE SessionOf[d] = c
    <3>1. Stream(t, d)
      BY <1>3, <2>0 DEF OneStream, Stream
    <3>2. Counted(t, d)
      BY <1>2, <2>1 DEF Counted
    <3>3. Reported(t, d, n[d])
      BY <1>2, <1>3, <2>0, <2>1 DEF OneStream, Reported, Could
    <3>4. NoneKept(t, d)
      <4>1. c \in t.accepted => c \in s.session_ids
        BY <1>0, <1>1 DEF Life
      <4> QED
        BY <1>3, <2>1, <4>1 DEF NoneKept
    <3> QED
      BY <3>1, <3>2, <3>3, <3>4 DEF OneStream
  <2>2. CASE SessionOf[d] # c
    <3>1. Same(s, t, SessionOf[d]) /\ t.buffered[d] = s.buffered[d]
      BY <1>1, <1>4, <2>0, <2>2
    <3>2. Around(s, t, d)
      BY <1>3, <3>1 DEF Around, Same, Could, Settled
    <3> QED
      BY <1>1, <2>0, <3>2, AroundGood
  <2> QED
    BY <2>1, <2>2
<1>8. Good(t, n)
  BY <1>0, <1>1, <1>3, <1>6, <1>7 DEF Good
<1> QED
  BY <1>1, <1>4, <1>8 DEF t

LEMMA UnanswerGood ==
    ASSUME NEW n, NEW s, NEW u, Good(u, n), NEW c \in Sessions, Confirmed(s, u, c),
           c \notin s.fin_accepted, c \in u.session_ids, NEW P, P = s.pre_accept_fin \cap {c}
    PROVE  LET x == Unanswer(u, c, P)
           IN  /\ Good(x, n) /\ \A z \in Sessions : z # c => Same(u, x, z)
               /\ Keeps(u, x, {"error", "fin_accepted", "pre_accept_fin"})
               /\ x.error = "none" /\ c \notin x.fin_accepted
               /\ c \in x.pre_accept_fin => c \in s.pre_accept_fin
<1> DEFINE x == Unanswer(u, c, P)
<1>0. u \in Record /\ ~u.out_of_place /\ ~u.mixed /\ Life(u, c) /\ P \in SUBSET Sessions
  BY DEF Good
<1>1. /\ x \in Record /\ Keeps(u, x, {"error", "fin_accepted", "pre_accept_fin"})
      /\ x.error = "none" /\ x.fin_accepted = u.fin_accepted \ {c}
      /\ x.pre_accept_fin = u.pre_accept_fin \cup P
  BY <1>0, UnanswerShape
<1> HIDE DEF x
<1>2. /\ x.ready = u.ready /\ x.response = u.response /\ x.ended = u.ended
      /\ x.confirmed = u.confirmed /\ x.written = u.written
      /\ x.stale_2xx = u.stale_2xx /\ x.pending_fin = u.pending_fin
      /\ x.over = u.over /\ x.why = u.why
      /\ x.session_ids = u.session_ids /\ x.accepted = u.accepted
      /\ x.pending_headers = u.pending_headers /\ x.blocked = u.blocked
      /\ x.qpack_blocked_fin = u.qpack_blocked_fin
      /\ x.read = u.read /\ x.state = u.state /\ x.guard = u.guard
  BY <1>1 DEF Keeps, Names
<1>3. /\ x.mixed = u.mixed /\ x.rejected = u.rejected /\ x.named = u.named
      /\ x.got = u.got /\ x.kept = u.kept /\ x.deleted = u.deleted
      /\ x.stream_info = u.stream_info /\ x.out_of_place = u.out_of_place
      /\ x.buffered = u.buffered
  BY <1>1 DEF Keeps, Names
<1>4. /\ u.fin_accepted = s.fin_accepted \cup P
      /\ u.pre_accept_fin = s.pre_accept_fin \ {c}
  BY DEF Confirmed
<1>5. \A z \in Sessions : z # c => Same(u, x, z)
  BY <1>1, <1>2, <1>4 DEF Same
<1>6. Life(x, c)
  BY <1>0, <1>1, <1>2 DEF Life
<1>7. \A z \in Sessions : Life(x, z)
  BY <1>5, <1>6, LifeSame DEF Good
<1>8. c \in u.pre_accept_fin \cup u.fin_accepted <=> c \in x.pre_accept_fin \cup x.fin_accepted
  BY <1>1, <1>4
<1>9. ASSUME NEW d \in Remote PROVE Around(u, x, d)
  <2>1. SessionOf[d] \in Sessions
    BY SessionOfStream DEF Streams
  <2>2. Could(x, SessionOf[d]) => Could(u, SessionOf[d])
    BY <1>2, <1>5, <1>8, <2>1 DEF Could, Same
  <2> QED
    BY <1>2, <1>3, <2>2 DEF Around, Settled
<1>10. \A d \in Remote : OneStream(x, d, n[d])
  BY <1>1, <1>9, AroundGood DEF Good
<1>11. Good(x, n)
  BY <1>0, <1>1, <1>3, <1>7, <1>10 DEF Good
<1> QED
  BY <1>1, <1>4, <1>5, <1>11 DEF x

(* accept_session when a capsule that was kept is malformed, ...           *)
LEMMA AcceptMalformed ==
    ASSUME NEW n, NEW s, Good(s, n), Calm(s), NEW c \in Sessions, Unanswered(s, c),
           NEW u, u = confirm_wt_session(Answer(s, c), c), Good(u, n), Confirmed(s, u, c),
           Malformed(s, u, c), NEW a, NEW f
    PROVE  LET w == accept_session(s, c)
           IN  Called(s, w, n, a, a, f) /\ AllFitting(s, w)
<1> DEFINE P == s.pre_accept_fin \cap {c}
           x == Unanswer(u, c, P)
           y == close_stream(x, c, "bad")
           w == discard_stale_2xx(y)
<1>0. c \in u.session_ids /\ u.error # "none" /\ u.stale_2xx = {} /\ c \notin s.fin_accepted
      /\ s.state[c] = "open"
  BY DEF Malformed, Good, Life, Unanswered
<1>1. /\ Good(x, n) /\ \A z \in Sessions : z # c => Same(u, x, z)
      /\ Keeps(u, x, {"error", "fin_accepted", "pre_accept_fin"})
      /\ x.error = "none" /\ c \notin x.fin_accepted
      /\ c \in x.pre_accept_fin => c \in s.pre_accept_fin
  <2> HIDE DEF P
  <2> QED
    BY <1>0, UnanswerGood DEF P
<1>2. accept_session(s, c) = discard_stale_2xx(handle_wt_close_session_error(x, c))
  BY <1>0, AcceptIs
<1> HIDE DEF x
<1>3. /\ x.session_ids = u.session_ids /\ x.stale_2xx = u.stale_2xx
      /\ x.pending_fin = u.pending_fin /\ x.closed = u.closed /\ x.state = u.state
      /\ x.named = u.named /\ x.deleted = u.deleted /\ x.guard = u.guard
  BY <1>1 DEF Keeps, Names
<1>4. Good(y, n) /\ Global(x, y) /\ OnlySession(x, y, c) /\ ClosedAt(x, y, c, "bad")
  BY <1>1, CloseOnly DEF Why
<1>5. accept_session(s, c) = w
  <2>1. accept_session(s, c) = discard_stale_2xx(push_reset(y, c))
    BY <1>0, <1>2, <1>3 DEF handle_wt_close_session_error
  <2> HIDE DEF y
  <2>2. push_reset(y, c) = y
    BY <1>0, <1>3, <1>4, ResetInPlace DEF Good, ClosedAt
  <2> QED
    BY <2>1, <2>2
<1> HIDE DEF y
<1>6. y.stale_2xx = {}
  BY <1>0, <1>3, <1>4 DEF Global
<1>7. /\ Good(w, n) /\ Streamwise(y, w)
      /\ w.closed = y.closed /\ w.error = y.error
      /\ w.pending_fin = y.pending_fin /\ w.stale_2xx = {}
      /\ AllFinished(y, w, y.stale_2xx, "capsule")
  BY <1>4, DiscardStale
<1> HIDE DEF w
<1>8. \A z \in Sessions : Same(y, w, z)
  BY <1>6, <1>7 DEF AllFinished
<1>9. Calm(w) /\ w.closed = s.closed
  BY <1>1, <1>3, <1>4, <1>7 DEF Calm, Global, Confirmed
<1>10. \A d \in Remote : SameStream(s, w, d)
  BY <1>3, <1>4, <1>7 DEF Streamwise, SameStream, OnlySession, Confirmed
<1>11. ASSUME NEW z \in Sessions, z # c PROVE Same(s, w, z)
  <2>1. Same(s, u, z) /\ Same(u, x, z) /\ Same(x, y, z) /\ Same(y, w, z)
    BY <1>1, <1>4, <1>8, <1>11 DEF Confirmed, OnlySession
  <2>2. Same(s, x, z) /\ Same(x, w, z)
    BY <2>1, SameAfter
  <2> QED
    BY <2>2, SameAfter
<1>12. /\ c \notin w.session_ids \cup w.blocked \cup w.qpack_blocked_fin \cup w.fin_accepted
       /\ w.guard[c] = NoGuard /\ w.state[c] = "gone" /\ w.why[c] = "bad"
       /\ c \in w.pre_accept_fin => c \in s.pre_accept_fin
  <2>1. x.state[c] = "open"
    BY <1>0, <1>3 DEF Confirmed
  <2>2. Same(y, w, c)
    BY <1>8
  <2> QED
    BY <1>0, <1>1, <1>3, <1>4, <2>1, <2>2 DEF ClosedAt, Same
<1>13. Stays(s, w, c, a) /\ Fitting(s, w, c)
  BY <1>12 DEF Stays, Fitting
<1>14. \A z \in Sessions : Stays(s, w, z, a) /\ Fitting(s, w, z)
  BY <1>11, <1>13, SameStays, SameFitting
<1> QED
  BY <1>5, <1>7, <1>9, <1>10, <1>14 DEF Called, AllFitting

(* ... when one closed the session, and when the session is established.   *)
LEMMA AcceptAnswered ==
    ASSUME NEW n, NEW s, Good(s, n), Calm(s), NEW c \in Sessions, Unanswered(s, c),
           NEW u, u = confirm_wt_session(Answer(s, c), c), Good(u, n), Confirmed(s, u, c),
           Established(s, u, c) \/ ClosedAlready(s, u, c), NEW a, NEW f
    PROVE  LET w == accept_session(s, c)
           IN  Called(s, w, n, a, a, f) /\ AllFitting(s, w)
<1> DEFINE v == discard_stale_2xx(u)
           w == Accept(v, c)
<1>0. /\ u.error = "none" /\ s.state[c] = "open" /\ c \notin s.fin_accepted \cup s.written
      /\ c \notin s.blocked /\ c \in s.session_ids /\ s.over[c] = 0 /\ u \in Record
  BY DEF Established, ClosedAlready, Good, Life, Unanswered
<1>1. accept_session(s, c) = w
  BY <1>0, AcceptIs
<1>2. /\ Good(v, n) /\ Streamwise(u, v)
      /\ v.closed = u.closed /\ v.error = u.error
      /\ v.confirmed = u.confirmed /\ v.written = u.written
      /\ v.pending_fin = u.pending_fin /\ v.stale_2xx = {}
      /\ AllFinished(u, v, u.stale_2xx, "capsule")
  BY DiscardStale
<1>3. u.stale_2xx = {} => v.kept = u.kept
  BY <1>0, DiscardNone DEF Keeps, Names
<1> HIDE DEF v
<1>4. \A z \in Sessions : z # c => Same(u, v, z)
  BY <1>2 DEF AllFinished, Established, ClosedAlready
<1>5. c \in v.session_ids => \A d \in Remote : SessionOf[d] = c => v.kept[d] = 0
  <2>1. CASE Established(s, u, c)
    BY <1>3, <2>1 DEF Established
  <2>2. CASE ClosedAlready(s, u, c)
    BY <1>2, <2>2 DEF ClosedAlready, AllFinished, FinishedAt
  <2> QED
    BY <2>1, <2>2
<1>6. c \in v.confirmed
  BY <1>2 DEF Confirmed
<1>7. /\ Good(w, n) /\ Keeps(v, w, {"accepted", "buffered"})
      /\ \A z \in Sessions : z # c => Same(v, w, z)
  BY <1>2, <1>5, <1>6, AcceptGood
<1> HIDE DEF w
<1>8. /\ w.guard = v.guard /\ w.state = v.state /\ w.read = v.read
      /\ w.closed = v.closed /\ w.error = v.error /\ w.stale_2xx = v.stale_2xx
      /\ w.pending_headers = v.pending_headers /\ w.blocked = v.blocked
      /\ w.qpack_blocked_fin = v.qpack_blocked_fin /\ w.written = v.written
      /\ w.pending_fin = v.pending_fin /\ w.named = v.named /\ w.deleted = v.deleted
      /\ w.fin_accepted = v.fin_accepted /\ w.pre_accept_fin = v.pre_accept_fin
      /\ w.session_ids = v.session_ids /\ w.over = v.over /\ w.why = v.why
  BY <1>7 DEF Keeps, Names
<1>9. Calm(w) /\ w.closed = s.closed
  BY <1>0, <1>2, <1>8 DEF Calm, Confirmed
<1>10. \A d \in Remote : SameStream(s, w, d)
  BY <1>2, <1>8 DEF Streamwise, SameStream, Confirmed
<1>11. ASSUME NEW z \in Sessions, z # c PROVE Same(s, w, z)
  <2>1. Same(s, u, z) /\ Same(u, v, z) /\ Same(v, w, z)
    BY <1>4, <1>7, <1>11 DEF Confirmed
  <2>2. Same(s, v, z)
    BY <2>1, SameAfter
  <2> QED
    BY <2>1, <2>2, SameAfter
<1>12. Stays(s, w, c, a) /\ Fitting(s, w, c)
  <2>1. CASE Established(s, u, c)
    <3>1. Same(u, v, c)
      BY <1>2, <2>1 DEF Established, AllFinished
    <3>2. Stays(s, w, c, a)
      BY <1>0, <1>8, <3>1 DEF Same, Confirmed, Stays
    <3>3. SameOver(s, w, c)
      BY <1>8, <2>1, <3>1 DEF Same, Established, SameOver
    <3> QED
      BY <3>2, <3>3, SameFitting
  <2>2. CASE ClosedAlready(s, u, c)
    <3>1. FinishedAt(u, v, c, "capsule")
      BY <1>2, <2>2 DEF ClosedAlready, AllFinished
    <3>2. u.state[c] = "open" /\ c \notin u.session_ids /\ u.why[c] = "capsule"
          /\ c \notin u.pre_accept_fin /\ c \notin u.written
      BY <1>0, <2>2 DEF Confirmed, ClosedAlready
    <3>3. /\ w.state[c] = "gone" /\ w.guard[c] = NoGuard /\ w.why[c] = "capsule"
          /\ c \notin w.session_ids \cup w.blocked \cup w.written
          /\ c \notin w.pre_accept_fin \cup w.fin_accepted \cup w.qpack_blocked_fin
      BY <1>2, <1>8, <3>1, <3>2 DEF FinishedAt
    <3> QED
      BY <3>3 DEF Stays, Fitting
  <2> QED
    BY <2>1, <2>2
<1>13. \A z \in Sessions : Stays(s, w, z, a) /\ Fitting(s, w, z)
  BY <1>11, <1>12, SameStays, SameFitting
<1> QED
  BY <1>1, <1>7, <1>9, <1>10, <1>13 DEF Called, AllFitting

LEMMA AcceptCalled ==
    ASSUME NEW n, NEW s, Good(s, n), Calm(s), NEW c \in Sessions, Unanswered(s, c),
           NEW a, NEW f
    PROVE  LET w == accept_session(s, c)
           IN  Called(s, w, n, a, a, f) /\ AllFitting(s, w)
<1> DEFINE u == confirm_wt_session(Answer(s, c), c)
<1>1. /\ Good(u, n) /\ Confirmed(s, u, c)
      /\ Malformed(s, u, c) \/ Established(s, u, c) \/ ClosedAlready(s, u, c)
  BY ConfirmDone
<1> HIDE DEF u
<1>2. u = confirm_wt_session(Answer(s, c), c)
  BY DEF u
<1>3. CASE Malformed(s, u, c)
  BY <1>1, <1>2, <1>3, AcceptMalformed
<1>4. CASE Established(s, u, c) \/ ClosedAlready(s, u, c)
  BY <1>1, <1>2, <1>4, AcceptAnswered
<1> QED
  BY <1>1, <1>3, <1>4

-----------------------------------------------------------------------------
(* The invariant of the specification.                                     *)

LEMMA ContentFacts ==
    ASSUME content \in Contents
    PROVE  /\ \A x \in Arriving : content[x] \in Seq(Item)
           /\ \A c \in Sessions : IsRequest(content[c])
           /\ \A d \in Remote : IsData(content[d])
<1>1. content \in [Arriving -> Seq(Item)]
  BY SessionAssumption
<1>2. /\ \A c \in Sessions : IsRequest(content[c])
      /\ \A d \in Remote : IsData(content[d])
  BY ContentsAssumption
<1> QED
  BY <1>1, <1>2

LEMMA HandedOf ==
    ASSUME NEW q \in Seq(Item), IsData(q), NEW j \in Nat, j <= Len(q)
    PROVE  Bytes(SubSeq(q, 1, j)) = Past(j)
<1> DEFINE i == 0
<1>1. Bytes(SubSeq(q, i + 1, j)) = Past(j) - Past(i)
  <2>1. i \in Nat /\ i <= j
    OBVIOUS
  <2> HIDE DEF i
  <2> QED
    BY <2>1, BytesOf
<1>2. i + 1 = 1 /\ Past(i) = 0 /\ Past(j) \in Int
  BY DEF Past
<1> HIDE DEF i
<1> QED
  BY <1>1, <1>2

(* What has been received, in the state and in the next one.               *)
Received0(t, p) ==
    /\ t \in Contents /\ p \in [Arriving -> Nat] /\ \A x \in Arriving : p[x] <= Len(t[x])

LEMMA HandedIs ==
    ASSUME Received0(content, pos), NEW d \in Remote
    PROVE  Handed[d] = Past(pos[d])
<1>1. d \in Arriving /\ content[d] \in Seq(Item) /\ IsData(content[d])
  BY ContentFacts DEF Arriving, Received0
<1>2. pos[d] \in Nat /\ pos[d] <= Len(content[d])
  BY <1>1 DEF Received0
<1>3. Bytes(SubSeq(content[d], 1, pos[d])) = Past(pos[d])
  BY <1>1, <1>2, HandedOf
<1> QED
  BY <1>3 DEF Handed

LEMMA HandedNext ==
    ASSUME Received0(content, pos'), content' = content, NEW d \in Remote
    PROVE  Handed'[d] = Past(pos'[d])
<1>1. d \in Arriving /\ content[d] \in Seq(Item) /\ IsData(content[d])
  BY ContentFacts DEF Arriving, Received0
<1>2. pos'[d] \in Nat /\ pos'[d] <= Len(content[d])
  BY <1>1 DEF Received0
<1>3. Bytes(SubSeq(content[d], 1, pos'[d])) = Past(pos'[d])
  BY <1>1, <1>2, HandedOf
<1> QED
  BY <1>3 DEF Handed

(* The parts of the invariant, in the form of the lemmas above.            *)
LEMMA InvFacts ==
    ASSUME Inv
    PROVE  /\ TypeOK /\ Received0(content, pos)
           /\ Mid(h, Handed, pos, aborted, finned) /\ Fed(h) /\ Ends(h, finned)
           /\ Good(h, Handed) /\ Calm(h) /\ FinsOnly(h, finned) /\ h \in Record
<1>1. Ending(h, finned)
  BY DEF Inv, Ending, Ends
<1>2. Received0(content, pos)
  BY DEF Inv, TypeOK, Received0
<1> QED
  BY <1>1, <1>2 DEF Inv, Mid, Good

(* What is left to show of a step.                                         *)
Kept ==
    /\ Fixed /\ Received0(content, pos') /\ table' \in BOOLEAN
    /\ finned' \subseteq Arriving /\ aborted' \subseteq Arriving
    /\ datagrams' \in [Sessions -> 0 .. MaxDatagrams]

LEMMA GuardsNext ==
    ASSUME content' = content, Guards(h', pos', aborted', finned')
    PROVE  Guards(h, pos, aborted, finned)'
BY DEF Guards, Guarded, Passed, Unparsed

LEMMA InvNext ==
    ASSUME Inv, Kept, Mid(h', Handed', pos', aborted', finned'), Fed(h'), Ends(h', finned')
    PROVE  Inv'
<1>1. content' = content /\ wanted' = wanted /\ dynamic' = dynamic
  BY DEF Kept, Fixed
<1>2. Guards(h, pos, aborted, finned)'
  BY <1>1, GuardsNext DEF Mid
<1>3. TypeOK'
  BY <1>1 DEF Inv, TypeOK, Kept, Received0, Mid, Good
<1>4. content' \in Contents /\ \A x \in Arriving : pos'[x] <= Len(content'[x])
  BY <1>1 DEF Kept, Received0
<1> QED
  BY <1>2, <1>3, <1>4 DEF Inv, Mid

(* A call that receives nothing.                                           *)
LEMMA HandedSame ==
    ASSUME content' = content, \A d \in Remote : pos'[d] = pos[d]
    PROVE  Handed' = Handed
BY DEF Handed

LEMMA CallNext ==
    ASSUME Inv, Fixed, UNCHANGED <<table, pos, finned>>, aborted' \subseteq Arriving,
           datagrams' \in [Sessions -> 0 .. MaxDatagrams],
           Called(h, h', Handed, aborted, aborted', finned)
    PROVE  Inv'
<1>1. Mid(h', Handed, pos, aborted', finned) /\ Fed(h') /\ Ends(h', finned)
  BY InvFacts, CallKeeps
<1>2. Handed' = Handed
  BY HandedSame DEF Fixed
<1>3. Kept
  BY InvFacts DEF Kept, TypeOK
<1> QED
  BY <1>1, <1>2, <1>3, InvNext

(* One lemma for each action.                                              *)
LEMMA DeliverNext ==
    ASSUME Inv, NEW x \in Arriving, Deliver(x) PROVE Inv' /\ AllFitting(h, h')
<1>0. /\ TypeOK /\ Received0(content, pos) /\ Mid(h, Handed, pos, aborted, finned)
      /\ Fed(h) /\ Ends(h, finned) /\ Good(h, Handed) /\ FinsOnly(h, finned)
  BY InvFacts
<1> DEFINE q == content[x]
           i == pos[x]
<1>1. PICK k \in 0 .. Len(q) - i, fin \in BOOLEAN :
        /\ ~h.closed /\ x \notin finned /\ x \notin aborted /\ (k > 0 \/ fin)
        /\ h' = receive_stream_data(h, x, SubSeq(q, i + 1, i + k), fin)
        /\ pos' = [pos EXCEPT ![x] = @ + k]
        /\ finned' = IF fin THEN finned \cup {x} ELSE finned
        /\ UNCHANGED <<table, aborted, datagrams>> /\ Fixed
  BY DEF Deliver
<1>2. q \in Seq(Item) /\ i \in Nat /\ i <= Len(q) /\ Len(q) \in Nat /\ pos \in [Arriving -> Nat]
  BY <1>0, ContentFacts DEF Received0
<1>3. k \in Nat /\ i + k \in Nat /\ i + k <= Len(q)
  BY <1>1, <1>2
<1> DEFINE r == pos'
           g == finned'
<1>4. r[x] = i + k /\ \A y \in Arriving : y # x => r[y] = pos[y]
  BY <1>1, <1>2
<1>5. Elsewhere(x, pos, r, finned, g) /\ (x \in g <=> fin)
  BY <1>1, <1>4 DEF Elsewhere
<1>6. Received0(content, pos')
  <2>1. pos' \in [Arriving -> Nat]
    BY <1>1, <1>2, <1>3
  <2>2. \A y \in Arriving : pos'[y] <= Len(content[y])
    BY <1>0, <1>3, <1>4 DEF Received0
  <2> QED
    BY <1>0, <2>1, <2>2 DEF Received0
<1>7. Kept
  BY <1>0, <1>1, <1>6 DEF Kept, TypeOK
<1>8. Received(h, h', Handed', r, aborted, g, x)
  <2>1. CASE x \in Sessions
    <3>1. Handed' = Handed
      <4>1. \A d \in Remote : d # x /\ d \in Arriving
        BY <2>1, SessionNotStream DEF Arriving
      <4> QED
        BY <1>1, <1>4, <4>1, HandedSame DEF Fixed
    <3>2. IsRequest(q)
      BY <1>0, <2>1, ContentFacts DEF Received0
    <3> DEFINE n == Handed
    <3> HIDE DEF n, q, i, r, g
    <3>3. Received(h, receive_stream_data(h, x, SubSeq(q, i + 1, i + k), fin), n, r,
                   aborted, g, x)
      BY <1>0, <1>1, <1>2, <1>3, <1>4, <1>5, <2>1, <3>2, ReceiveSession DEF q, i, n
    <3> QED
      BY <1>1, <3>1, <3>3 DEF n, q, i
  <2>2. CASE x \in Remote
    <3>1. IsData(q) /\ content' = content
      BY <1>0, <1>1, <2>2, ContentFacts DEF Received0, Fixed
    <3>2. Handed[x] = Past(i) /\ Handed'[x] = Past(i + k)
      BY <1>0, <1>4, <1>6, <2>2, <3>1, HandedIs, HandedNext
    <3>3. \A e \in Remote : e # x => Handed'[e] = Handed[e]
      BY <1>0, <1>4, <1>6, <3>1, HandedIs, HandedNext DEF Arriving
    <3> DEFINE n == Handed
               m == Handed'
    <3> HIDE DEF n, m, q, i, r, g
    <3>4. Received(h, receive_stream_data(h, x, SubSeq(q, i + 1, i + k), fin), m, r,
                   aborted, g, x)
      BY <1>0, <1>1, <1>2, <1>3, <1>4, <1>5, <2>2, <3>1, <3>2, <3>3, ReceiveStream
         DEF q, i, n, m
    <3> QED
      BY <1>1, <3>4 DEF m, q, i
  <2> QED
    BY <2>1, <2>2 DEF Arriving
<1>9. Inv'
  BY <1>1, <1>7, <1>8, InvNext DEF Received
<1>10. AllFitting(h, h')
  <2>1. ASSUME NEW z \in Sessions PROVE Fitting(h, h', z)
    <3>1. CASE z # x \/ z \notin h.confirmed
      BY <1>8, <3>1, SameFitting DEF Received
    <3>2. CASE z = x /\ z \in h.confirmed
      <4>1. z \notin h.fin_accepted /\ h.response[z] # "none"
        BY <1>0, <1>1, <3>2 DEF FinsOnly, Good, Life
      <4> QED
        BY <4>1 DEF Fitting
    <3> QED
      BY <3>1, <3>2
  <2> QED
    BY <2>1 DEF AllFitting
<1> QED
  BY <1>9, <1>10

LEMMA TableNext == ASSUME Inv, DeliverTable PROVE Inv' /\ AllFitting(h, h')
<1>0. /\ TypeOK /\ Received0(content, pos) /\ Mid(h, Handed, pos, aborted, finned)
      /\ Fed(h) /\ Ends(h, finned)
  BY InvFacts
<1>1. ~h.closed /\ table' = TRUE /\ UNCHANGED <<pos, finned, aborted, datagrams>> /\ Fixed
  BY DEF DeliverTable
<1>2. h' = flush_unblocked_held_data(process_after_read(
               TheUnblocking(h, h.blocked)[h.blocked], "encoder", FALSE))
  BY TableIs
<1>3. /\ Mid(h', Handed, pos, aborted, finned) /\ Fed(h') /\ Ends(h', finned)
      /\ \A z \in Sessions : SameOver(h, h', z)
  BY <1>0, <1>1, <1>2, TableReceived
<1>4. Handed' = Handed
  BY <1>1, HandedSame DEF Fixed
<1>5. Kept
  BY <1>0, <1>1 DEF Kept, TypeOK
<1>6. Inv'
  BY <1>1, <1>3, <1>4, <1>5, InvNext
<1> QED
  BY <1>3, <1>6, SameFitting DEF AllFitting

LEMMA RecvResetNext ==
    ASSUME Inv, NEW x \in Arriving, RecvReset(x) PROVE Inv' /\ AllFitting(h, h')
<1>0. TypeOK /\ Good(h, Handed) /\ Calm(h)
  BY InvFacts
<1>1. /\ h' = close_stream(h, x, "reset") /\ aborted' = aborted \cup {x}
      /\ UNCHANGED <<table, pos, finned, datagrams>> /\ Fixed
  BY DEF RecvReset
<1>2. Called(h, h', Handed, aborted, aborted', finned) /\ AllFitting(h, h')
  <2> DEFINE n == Handed
             a == aborted
             b == aborted'
  <2>1. Good(h, n) /\ a \subseteq b /\ b \subseteq a \cup {x} /\ x \in b
    BY <1>0, <1>1
  <2> HIDE DEF n, a, b
  <2>2. CASE x \in Sessions
    BY <1>0, <1>1, <2>1, <2>2, ResetSession DEF n, a, b
  <2>3. CASE x \in Remote
    BY <1>0, <1>1, <2>1, <2>3, ResetData DEF n, a, b, Streams
  <2> QED
    BY <2>2, <2>3 DEF Arriving
<1> QED
  BY <1>0, <1>1, <1>2, CallNext DEF TypeOK

LEMMA DatagramNext ==
    ASSUME Inv, NEW c \in Sessions, RecvDatagram(c) PROVE Inv' /\ AllFitting(h, h')
<1>0. TypeOK /\ Good(h, Handed) /\ Calm(h)
  BY InvFacts
<1>1. /\ h' = receive_datagram(h, c) /\ datagrams[c] < MaxDatagrams
      /\ datagrams' = [datagrams EXCEPT ![c] = @ + 1]
      /\ UNCHANGED <<table, pos, finned, aborted>> /\ Fixed
  BY DEF RecvDatagram
<1>2. Called(h, h', Handed, aborted, aborted, finned) /\ AllFitting(h, h')
  BY <1>0, <1>1, DatagramGood
<1>3. datagrams' \in [Sessions -> 0 .. MaxDatagrams]
  BY <1>0, <1>1, SessionAssumption DEF TypeOK
<1> QED
  BY <1>0, <1>1, <1>2, <1>3, CallNext DEF TypeOK

(* Calls of the application change the H3Session alone.                    *)
LEMMA ApplicationNext ==
    ASSUME Inv, NEW w, Call(w), Called(h, w, Handed, aborted, aborted, finned),
           AllFitting(h, w)
    PROVE  Inv' /\ AllFitting(h, h')
<1>1. h' = w /\ UNCHANGED <<table, pos, finned, aborted, datagrams>> /\ Fixed
  BY DEF Call
<1>2. TypeOK
  BY InvFacts
<1> QED
  BY <1>1, <1>2, CallNext DEF TypeOK

LEMMA SessionNext ==
    ASSUME Inv, NEW c \in Sessions,
           AcceptSession(c) \/ RejectSession(c) \/ CloseSession(c)
    PROVE  Inv' /\ AllFitting(h, h')
<1>0. Good(h, Handed) /\ Calm(h) /\ Life(h, c)
  BY InvFacts DEF Good
<1>1. CASE AcceptSession(c)
  <2>1. Call(accept_session(h, c)) /\ Unanswered(h, c)
    BY <1>1 DEF AcceptSession, Answerable, Unanswered
  <2> QED
    BY <1>0, <2>1, AcceptCalled, ApplicationNext
<1>2. CASE RejectSession(c)
  <2>1. Call(reject_session(h, c)) /\ c \in h.session_ids /\ h.response[c] = "none"
    BY <1>2 DEF RejectSession, Answerable
  <2> QED
    BY <1>0, <2>1, RejectCalled, ApplicationNext
<1>3. CASE CloseSession(c)
  <2>1. Call(close_session(h, c)) /\ c \in h.session_ids
    BY <1>0, <1>3 DEF CloseSession, Life
  <2> QED
    BY <1>0, <2>1, CloseCalled, ApplicationNext
<1> QED
  BY <1>1, <1>2, <1>3

LEMMA ResetNext ==
    ASSUME Inv, NEW x \in Sessions \cup Streams, ResetStream(x)
    PROVE  Inv' /\ AllFitting(h, h')
<1>0. Good(h, Handed) /\ Calm(h) /\ h \in Record
  BY InvFacts
<1>1. Call(close_stream(h, x, "reset")) /\ x \in h.session_ids \cup h.stream_info
  BY DEF ResetStream
<1>2. h.session_ids \subseteq Sessions /\ h.stream_info \subseteq Streams
  BY <1>0 DEF Record
<1>3. CASE x \in h.session_ids
  <2>1. x \in Sessions
    BY <1>2, <1>3
  <2>2. LET w == close_stream(h, x, "reset")
        IN  Called(h, w, Handed, aborted, aborted, finned) /\ AllFitting(h, w)
    BY <1>0, <1>3, <2>1, ResetSession
  <2> QED
    BY <1>1, <2>2, ApplicationNext
<1>4. CASE x \in h.stream_info
  <2>1. x \in Streams
    BY <1>2, <1>4
  <2>2. LET w == close_stream(h, x, "reset")
        IN  Called(h, w, Handed, aborted, aborted, finned) /\ AllFitting(h, w)
    BY <1>0, <1>4, <2>1, ResetData
  <2> QED
    BY <1>1, <2>2, ApplicationNext
<1> QED
  BY <1>1, <1>3, <1>4

LEMMA OpenNext ==
    ASSUME Inv, NEW d \in Local, OpenStream(d) PROVE Inv' /\ AllFitting(h, h')
<1>0. Good(h, Handed) /\ Calm(h)
  BY InvFacts
<1>1. Call([h EXCEPT !.stream_info = @ \cup {d}])
  BY DEF OpenStream
<1>2. LET w == [h EXCEPT !.stream_info = @ \cup {d}]
      IN  Called(h, w, Handed, aborted, aborted, finned) /\ AllFitting(h, w)
  BY <1>0, OpenGood
<1> QED
  BY <1>1, <1>2, ApplicationNext

LEMMA WriteNext ==
    ASSUME Inv, NEW W \in SUBSET Unwritten, Write(W) PROVE Inv' /\ AllFitting(h, h')
<1>0. Good(h, Handed) /\ Calm(h)
  BY InvFacts
<1>1. Call(get_streams_to_send(h, W))
  BY DEF Write
<1>2. W \in SUBSET {c \in Sessions : h.response[c] # "none"}
  BY DEF Unwritten
<1>3. LET w == get_streams_to_send(h, W)
      IN  Called(h, w, Handed, aborted, aborted, finned) /\ AllFitting(h, w)
  BY <1>0, <1>2, WriteCalled
<1> QED
  BY <1>1, <1>3, ApplicationNext

LEMMA BlankFields ==
    LET s == Blank
    IN  /\ s \in Record
        /\ s.session_ids = {} /\ s.accepted = {} /\ s.pending_headers = {}
        /\ s.pending_fin = {} /\ s.pre_accept_fin = {} /\ s.fin_accepted = {}
        /\ s.qpack_blocked_fin = {} /\ s.stale_2xx = {} /\ s.blocked = {}
        /\ s.written = {} /\ s.confirmed = {} /\ s.ended = {} /\ s.named = {}
        /\ s.deleted = {} /\ s.rejected = {} /\ s.stream_info = {}
        /\ s.closed = FALSE /\ s.mixed = FALSE /\ s.out_of_place = FALSE
        /\ s.error = "none"
        /\ \A x \in Arriving : s.guard[x] = NoGuard
        /\ \A c \in Sessions : /\ s.state[c] = "none" /\ s.read[c] = 0 /\ s.ready[c] = 0
                               /\ s.over[c] = 0 /\ s.response[c] = "none"
        /\ \A d \in Remote : s.buffered[d] = 0 /\ s.kept[d] = 0 /\ s.got[d] = 0
<1> DEFINE G == [x \in Arriving |-> NoGuard]
           B == [d \in Remote |-> 0]
           N == [c \in Sessions |-> "none"]
           O == [c \in Sessions |-> 0]
           C == [c \in Sessions |-> <<>>]
<1>1. G \in [Arriving -> Guard] /\ B \in [Remote -> Nat] /\ C \in [Sessions -> Seq(Item)]
  BY NoGuardTyped
<1>2. /\ N \in [Sessions -> {"none", "open", "gone"}]
      /\ N \in [Sessions -> {"none", "ok", "refused"}] /\ N \in [Sessions -> Why]
  BY DEF Why
<1>3. O \in [Sessions -> Nat] /\ O \in [Sessions -> 0 .. HeadersLen]
  BY DEF HeadersLen
<1>4. Blank =
        [session_ids |-> {}, accepted |-> {}, pending_headers |-> {},
         pending_fin |-> {}, pre_accept_fin |-> {}, fin_accepted |-> {},
         qpack_blocked_fin |-> {}, stale_2xx |-> {}, guard |-> G,
         buffered |-> B, rejected |-> {}, stream_info |-> {}, closed |-> FALSE,
         state |-> N, read |-> O, blocked |-> {}, mixed |-> FALSE,
         response |-> N, written |-> {}, confirmed |-> {}, ended |-> {}, capsules |-> C,
         named |-> {}, kept |-> B, deleted |-> {}, error |-> "none",
         ready |-> O, over |-> O, why |-> N, out_of_place |-> FALSE, got |-> B]
  BY Zenon DEF Blank
<1>5. /\ \A x \in Arriving : G[x] = NoGuard
      /\ \A c \in Sessions : N[c] = "none" /\ O[c] = 0
      /\ \A d \in Remote : B[d] = 0
  OBVIOUS
<1> HIDE DEF G, B, N, O, C
<1>6. Blank \in Record
  BY <1>1, <1>2, <1>3, <1>4 DEF Record
<1>7. /\ Blank.guard = G /\ Blank.buffered = B /\ Blank.kept = B /\ Blank.got = B
      /\ Blank.state = N /\ Blank.response = N /\ Blank.read = O /\ Blank.ready = O
      /\ Blank.over = O
  BY <1>4
<1>8. /\ Blank.session_ids = {} /\ Blank.accepted = {} /\ Blank.pending_headers = {}
      /\ Blank.pending_fin = {} /\ Blank.pre_accept_fin = {} /\ Blank.fin_accepted = {}
      /\ Blank.qpack_blocked_fin = {} /\ Blank.stale_2xx = {} /\ Blank.blocked = {}
      /\ Blank.written = {} /\ Blank.confirmed = {} /\ Blank.ended = {} /\ Blank.named = {}
      /\ Blank.deleted = {} /\ Blank.rejected = {} /\ Blank.stream_info = {}
      /\ Blank.closed = FALSE /\ Blank.mixed = FALSE /\ Blank.out_of_place = FALSE
      /\ Blank.error = "none"
  BY <1>4
<1> QED
  BY <1>5, <1>6, <1>7, <1>8

LEMMA InitInv == ASSUME Init PROVE Inv
<1> DEFINE s == Blank
<1>0. /\ h = s /\ content \in Contents /\ pos = [x \in Arriving |-> 0]
      /\ finned = {} /\ aborted = {} /\ table = FALSE
      /\ datagrams = [c \in Sessions |-> 0]
      /\ wanted \subseteq Sessions /\ dynamic \subseteq Sessions
  BY DEF Init
<1>1. s \in Record
  BY BlankFields
<1>2. TypeOK
  <2>1. pos \in [Arriving -> Nat]
    BY <1>0
  <2>2. datagrams \in [Sessions -> 0 .. MaxDatagrams]
    BY <1>0, SessionAssumption
  <2>3. h \in Record /\ table \in BOOLEAN /\ finned \subseteq Arriving /\ aborted \subseteq Arriving
    BY <1>0, <1>1
  <2> QED
    BY <1>0, <2>1, <2>2, <2>3 DEF TypeOK
<1>3. /\ \A x \in Arriving : pos[x] = 0 /\ content[x] \in Seq(Item) /\ pos[x] <= Len(content[x])
      /\ Received0(content, pos)
  <2>1. \A x \in Arriving : pos[x] = 0 /\ content[x] \in Seq(Item)
    BY <1>0, ContentFacts
  <2>2. pos \in [Arriving -> Nat]
    BY <1>0
  <2> QED
    BY <1>0, <2>1, <2>2 DEF Received0
<1>4. \A d \in Remote : Handed[d] = 0
  <2>1. ASSUME NEW d \in Remote PROVE Handed[d] = 0
    <3>1. Handed[d] = Past(pos[d]) /\ d \in Arriving
      BY <1>3, HandedIs DEF Arriving
    <3> QED
      BY <1>3, <3>1 DEF Past
  <2> QED
    BY <2>1
<1>5. \A c \in Sessions : Life(s, c)
  BY BlankFields DEF Life, HeadersLen
<1>6. ASSUME NEW d \in Remote PROVE OneStream(s, d, Handed[d])
  <2>1. Stream(s, d)
    BY BlankFields DEF Stream
  <2>2. Counted(s, d) /\ NoneKept(s, d)
    BY BlankFields, SessionAssumption DEF Counted, NoneKept
  <2>3. Reported(s, d, Handed[d])
    BY <1>4, BlankFields DEF Reported
  <2> QED
    BY <2>1, <2>2, <2>3 DEF OneStream
<1>7. Good(s, Handed)
  BY <1>1, <1>5, <1>6, BlankFields DEF Good
<1>8. \A x \in Arriving : Unparsed(NoGuard, content[x], pos[x])
  <2>1. \A x \in Arriving : SubSeq(content[x], 1, 0) = <<>>
    BY <1>3
  <2>2. ~NoGuard.header_parsed /\ ~NoGuard.is_headers /\ NoGuard.prefix = <<>>
    BY DEF NoGuard
  <2> QED
    BY <1>3, <2>1, <2>2 DEF Unparsed
<1>9. \A c \in Sessions : Guarded(s, c, pos[c])
  <2>1. ~NoGuard.header_parsed /\ NoGuard.forwarded = 0 /\ NoGuard.held = <<>>
    BY DEF NoGuard
  <2> QED
    BY <1>8, <2>1, BlankFields DEF Guarded, Arriving
<1>10. \A d \in Remote : Passed(s, d, pos[d])
  BY <1>3, <1>8, BlankFields DEF Passed, Arriving
<1>11. Guards(s, pos, aborted, finned)
  BY <1>0, <1>9, <1>10 DEF Guards
<1>12. Fed(s)
  <2>1. \A c \in Sessions : s.guard[c].held = <<>>
    BY BlankFields, NoGuardFacts DEF Arriving
  <2> QED
    BY <2>1 DEF Fed, flushable
<1>13. Ends(s, finned) /\ Calm(s)
  BY <1>0, BlankFields DEF Ends, Calm
<1>14. FinsOnly(s, finned)
  BY BlankFields, NoGuardFacts DEF FinsOnly, Arriving
<1> HIDE DEF s
<1> QED
  BY <1>0, <1>2, <1>3, <1>7, <1>11, <1>12, <1>13, <1>14 DEF Inv

LEMMA StepInv == ASSUME Inv, [Next]_vars PROVE Inv' /\ AllFitting(h, h')
<1>1. CASE Next
  BY <1>1, DeliverNext, TableNext, RecvResetNext, DatagramNext, SessionNext, ResetNext,
     OpenNext, WriteNext DEF Next
<1>2. CASE UNCHANGED vars
  <2>1. /\ h' = h /\ UNCHANGED <<table, pos, finned, aborted, datagrams>> /\ Fixed
    BY <1>2 DEF vars, Fixed
  <2>2. Handed' = Handed
    BY <2>1, HandedSame DEF Fixed
  <2>3. Kept
    BY <2>1, InvFacts DEF Kept, TypeOK
  <2>4. Inv'
    BY <2>1, <2>2, <2>3, InvFacts, InvNext
  <2>5. \A z \in Sessions : SameOver(h, h', z)
    BY <2>1 DEF SameOver
  <2> QED
    BY <2>4, <2>5, SameFitting DEF AllFitting
<1> QED
  BY <1>1, <1>2

-----------------------------------------------------------------------------
(* The theorems.                                                           *)

(* Inv holds in every state the specification reaches.                     *)
THEOREM Invariance == Spec => []Inv
<1>1. Init => Inv
  BY InitInv
<1>2. Inv /\ [Next]_vars => Inv'
  BY StepInv
<1> QED
  BY <1>1, <1>2, PTL DEF Spec

(* The variables have their types.                                         *)
THEOREM Typed == Spec => []TypeOK
<1>1. Inv => TypeOK
  BY DEF Inv
<1> QED
  BY <1>1, Invariance, PTL

(* The application learns once that a session is over, and no event of a   *)
(* session comes before SessionReady, after SessionClosed or after the     *)
(* session was refused: neither kept data and capsules, nor ghost streams, *)
(* nor datagrams, nor a FIN noted earlier.                                 *)
THEOREM EventsInPlace == Spec => []OverOnce
<1>1. Inv => OverOnce
  BY DEF Inv, Good, Life, OverOnce
<1> QED
  BY <1>1, Invariance, PTL

(* While a field section waits for the dynamic table nothing behind its    *)
(* HEADERS frame is handed to nghttp3, however the chunks are cut.         *)
THEOREM BlockedStreamsWait == Spec => []NothingBehindBlocked
<1>1. Inv => NothingBehindBlocked
  BY DEF Inv, Good, NothingBehindBlocked
<1> QED
  BY <1>1, Invariance, PTL

(* Once the FIN of a CONNECT stream has been received its session takes no *)
(* part in sending and receiving, also when the FIN came with blocked      *)
(* headers, behind held data or before the response.                       *)
THEOREM FinsAreLearned == Spec => []EndLearned
<1>1. Inv => EndLearned
  <2> SUFFICES ASSUME Inv PROVE EndLearned
    OBVIOUS
  <2>1. h.session_ids \subseteq Sessions
    BY InvFacts DEF Record
  <2> QED
    BY <2>1, InvFacts DEF EndLearned, Ends, is_active_session
<1> QED
  BY <1>1, Invariance, PTL

(* What nghttp3 keeps of a stream whose session is not yet accepted is     *)
(* what the code counts, and within the limit.                             *)
THEOREM EarlyDataCounted == Spec => []PreAcceptCounted
<1>1. Inv => PreAcceptCounted
  BY DEF Inv, Good, OneStream, Counted, PreAcceptCounted
<1> QED
  BY <1>1, Invariance, PTL

(* Everything received of a data stream of an accepted session has been    *)
(* reported, unless the stream was reset or rejected: also what was kept   *)
(* until the session was accepted.                                         *)
THEOREM DataIsReported == Spec => []DataReported
<1>1. Inv => DataReported
  <2> SUFFICES ASSUME Inv, NEW d \in Remote, SessionOf[d] \in h.accepted,
                      is_active_session(h, SessionOf[d]), d \notin h.deleted
               PROVE  h.got[d] = Handed[d]
    BY DEF DataReported, Handed
  <2>1. Good(h, Handed) /\ h \in Record
    BY InvFacts
  <2>2. SessionOf[d] \in Sessions
    BY SessionOfStream DEF Streams
  <2>3. Could(h, SessionOf[d])
    BY <2>1, <2>2 DEF Good, Life, Could, is_active_session
  <2>4. h.kept[d] = 0 /\ h.got[d] + h.kept[d] = Handed[d]
    BY <2>1, <2>3 DEF Good, OneStream, NoneKept, Reported
  <2>5. h.got[d] \in Nat
    BY <2>1 DEF Record
  <2> QED
    BY <2>4, <2>5
<1> QED
  BY <1>1, Invariance, PTL

(* The client never takes a closed session for an established one: when    *)
(* WT_CLOSE_SESSION is found while the session is being accepted, or while *)
(* its 2xx waits for the deferred close, the 2xx is dropped.  A session    *)
(* accepted after its FIN has its 2xx written before it is closed.         *)
THEOREM ResponsesFit == Spec => ResponseFits
<1>1. Inv /\ [Next]_vars =>
        [\A c \in Sessions : h.over[c] = 0 /\ h'.over[c] = 1 =>
            /\ h'.why[c] = "capsule"
                  /\ (c \in h.fin_accepted \ h.written \/ h.response[c] = "none")
               => h'.state[c] = "gone" /\ c \notin h'.written \cup h'.fin_accepted
            /\ h'.why[c] = "fin" /\ c \in h.fin_accepted => c \in h'.written]_vars
  BY StepInv DEF AllFitting, Fitting
<1> QED
  BY <1>1, Invariance, PTL DEF Spec, ResponseFits
=============================================================================
