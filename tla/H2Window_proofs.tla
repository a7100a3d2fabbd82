--------------------------- MODULE H2Window_proofs ---------------------------
(***************************************************************************)
(* Proofs about H2Window.  For any number of sessions: the counters never  *)
(* go below zero, a session that is over holds no window, and no byte of   *)
(* the window is lost.  While one session is live, however many there have *)
(* been, no callback leaves the window closed on it.                       *)
(***************************************************************************)
EXTENDS H2Window, FiniteSetTheorems, WellFoundedInduction, TLAPS

LEMMA HalfWindow == half_window \in Nat
BY WindowAssumption DEF half_window

(* The recorded bytes cover what consume_recv_bytes takes from them.       *)
LEMMA ConsumableFacts ==
    ASSUME TypeOK, NEW s \in Session, NEW n \in Nat
    PROVE  /\ consumable(s, n) \in Nat
           /\ consumable(s, n) <= unconsumed[s]
           /\ consumable(s, n) = n \/ consumable(s, n) = unconsumed[s]
BY DEF TypeOK, consumable, Smaller

(* The connection counters stay natural numbers.                           *)
LEMMA ConsumeConnection ==
    ASSUME TypeOK, NEW n \in Nat, NEW m \in Nat,
           consume_connection_recv_bytes(n, m)
    PROVE  recv_window' \in Nat /\ consumed' \in Nat
BY HalfWindow DEF consume_connection_recv_bytes, returned, Smaller, TypeOK

(* The two calls of ProcessClosingCapsule do not underflow either.         *)
LEMMA ClosingBack ==
    ASSUME recv_window \in Nat, consumed \in Nat,
           NEW first \in Nat, NEW rest \in Nat
    PROVE  LET back == FirstBack(first) + SecondBack(first, rest)
           IN  recv_window - back \in Nat /\ consumed + first + rest - back \in Nat
<1>1. CASE first = 0
  BY <1>1, HalfWindow DEF FirstBack, SecondBack, returned, Smaller
<1>2. CASE first # 0 /\ rest = 0
  BY <1>2, HalfWindow DEF FirstBack, SecondBack, returned, Smaller
<1>3. CASE first # 0 /\ rest # 0
  BY <1>3, HalfWindow DEF FirstBack, SecondBack, returned, Smaller
<1>4. QED
  BY <1>1, <1>2, <1>3

LEMMA ConsumeRecvBytes ==
    ASSUME TypeOK, NEW s \in Session, NEW n \in Nat, consume_recv_bytes(s, n)
    PROVE  /\ recv_window' \in Nat /\ consumed' \in Nat
           /\ unconsumed' \in [Session -> Nat]
<1>1. consumable(s, n) \in Nat /\ consumable(s, n) <= unconsumed[s]
  BY ConsumableFacts
<1>2. recv_window' \in Nat /\ consumed' \in Nat
  BY <1>1, ConsumeConnection DEF consume_recv_bytes
<1>3. unconsumed' \in [Session -> Nat]
  BY <1>1 DEF consume_recv_bytes, TypeOK
<1>4. QED
  BY <1>2, <1>3

LEMMA DiscardRecvBytes ==
    ASSUME TypeOK, NEW s \in Session, NEW n \in Nat,
           discard_stream_recv_bytes(s, n)
    PROVE  /\ recv_window' \in Nat /\ consumed' \in Nat
           /\ unconsumed' \in [Session -> Nat]
<1>1. unconsumed[s] + n \in Nat
  BY DEF TypeOK
<1>2. recv_window' \in Nat /\ consumed' \in Nat
  BY <1>1, ConsumeConnection DEF discard_stream_recv_bytes
<1>3. unconsumed' \in [Session -> Nat]
  BY DEF discard_stream_recv_bytes, TypeOK
<1>4. QED
  BY <1>2, <1>3

-----------------------------------------------------------------------------
(* Every operation keeps every counter a natural number: no subtraction of *)
(* the window accounting underflows, which the code's size_t would wrap.   *)
LEMMA TypeStep == TypeOK /\ [Next]_vars => TypeOK'
<1> SUFFICES ASSUME TypeOK, [Next]_vars PROVE TypeOK'
  OBVIOUS
<1> USE WindowAssumption, HalfWindow
<1>1. CASE UNCHANGED vars
  BY <1>1 DEF TypeOK, vars
<1>2. ASSUME NEW s \in Session, NewSession(s) PROVE TypeOK'
  BY <1>2 DEF TypeOK, NewSession, Status
<1>3. ASSUME NEW s \in Session, AcceptSession(s) PROVE TypeOK'
  BY <1>3 DEF TypeOK, AcceptSession, Status, Loop
<1>4. ASSUME NEW s \in Session, NEW n \in 1 .. MaxFrame, Arrival(s, n)
      PROVE  TypeOK'
  <2>0. n \in Nat
    OBVIOUS
  <2>1. CASE RecvDataDropped(s, n)
    BY <2>0, <2>1, ConsumeConnection DEF TypeOK, RecvDataDropped
  <2>2. CASE RecvData(s, n)
    BY <2>0, <2>2 DEF TypeOK, RecvData, Loop
  <2>3. CASE RecvDataPending(s, n)
    BY <2>0, <2>3 DEF TypeOK, RecvDataPending
  <2>4. CASE RecvDataRejected(s, n)
    BY <2>0, <2>4, DiscardRecvBytes DEF TypeOK, RecvDataRejected, Status
  <2>5. QED
    BY <1>4, <2>1, <2>2, <2>3, <2>4 DEF Arrival
<1>5. ASSUME NEW s \in Session, NEW k \in 1 .. buffer[s], Capsule(s, k)
      PROVE  TypeOK'
  <2>0. k \in Nat /\ buffer[s] \in Nat /\ k <= buffer[s]
    BY DEF TypeOK
  <2>1. CASE ProcessCapsule(s, k)
    BY <2>0, <2>1, ConsumeRecvBytes DEF TypeOK, ProcessCapsule
  <2>2. CASE ProcessClosingCapsule(s, k)
    <3> DEFINE first == consumable(s, k)
               rest == unconsumed[s] - first
    <3>0. first \in Nat /\ rest \in Nat /\ recv_window \in Nat /\ consumed \in Nat
      BY <2>0, ConsumableFacts DEF TypeOK
    <3>1. LET back == FirstBack(first) + SecondBack(first, rest)
          IN  recv_window' = recv_window - back /\ consumed' = consumed + first + rest - back
      BY <2>2 DEF ProcessClosingCapsule
    <3> HIDE DEF first, rest
    <3>2. recv_window' \in Nat /\ consumed' \in Nat
      BY <3>0, <3>1, ClosingBack
    <3>3. QED
      BY <3>2, <2>2 DEF TypeOK, ProcessClosingCapsule, Status, Loop
  <2>3. CASE ProcessMalformedCapsule(s, k)
    BY <2>0, <2>3, ConsumeRecvBytes DEF TypeOK, ProcessMalformedCapsule, Status, Loop
  <2>4. QED
    BY <1>5, <2>1, <2>2, <2>3 DEF Capsule
<1>6. ASSUME NEW s \in Session, LoopEnds(s) PROVE TypeOK'
  <2>1. excess(s) \in Nat
    BY DEF excess, TypeOK
  <2>2. QED
    BY <1>6, <2>1, ConsumeRecvBytes DEF TypeOK, LoopEnds, Loop
<1>7. ASSUME NEW s \in Session, EndSession(s) PROVE TypeOK'
  BY <1>7, DiscardRecvBytes DEF TypeOK, EndSession, Status
<1>8. ASSUME NEW s \in Session, StreamClose(s) PROVE TypeOK'
  BY <1>8, DiscardRecvBytes DEF TypeOK, StreamClose, Status
<1>9. QED
  BY <1>1, <1>2, <1>3, <1>4, <1>5, <1>6, <1>7, <1>8 DEF Next

(* For every set of sessions and all sizes, the window accounting is well  *)
(* typed: in particular no counter of consume_recv_bytes,                  *)
(* discard_stream_recv_bytes or consume_connection_recv_bytes underflows.  *)
THEOREM TypeCorrect == Spec => []TypeOK
<1>1. Init => TypeOK
  BY DEF Init, TypeOK, Status, Loop
<1>2. QED
  BY <1>1, TypeStep, PTL DEF Spec

-----------------------------------------------------------------------------
LEMMA HeldStep == TypeOK /\ HeldIsBuffered /\ [Next]_vars => HeldIsBuffered'
<1> SUFFICES ASSUME TypeOK, HeldIsBuffered, [Next]_vars PROVE HeldIsBuffered'
  OBVIOUS
<1> USE WindowAssumption DEF HeldIsBuffered, TypeOK
<1>1. CASE UNCHANGED vars
  BY <1>1 DEF vars
<1>2. ASSUME NEW s \in Session, NewSession(s) PROVE HeldIsBuffered'
  BY <1>2 DEF NewSession
<1>3. ASSUME NEW s \in Session, AcceptSession(s) PROVE HeldIsBuffered'
  BY <1>3 DEF AcceptSession
<1>4. ASSUME NEW s \in Session, NEW n \in 1 .. MaxFrame, Arrival(s, n)
      PROVE  HeldIsBuffered'
  <2>1. CASE RecvDataDropped(s, n)
    BY <2>1 DEF RecvDataDropped
  <2>2. CASE RecvData(s, n)
    BY <2>2 DEF RecvData
  <2>3. CASE RecvDataPending(s, n)
    BY <2>3 DEF RecvDataPending
  <2>4. CASE RecvDataRejected(s, n)
    BY <2>4 DEF RecvDataRejected, discard_stream_recv_bytes
  <2>5. QED
    BY <1>4, <2>1, <2>2, <2>3, <2>4 DEF Arrival
<1>5. ASSUME NEW s \in Session, NEW k \in 1 .. buffer[s], Capsule(s, k)
      PROVE  HeldIsBuffered'
  <2>1. CASE ProcessCapsule(s, k)
    BY <2>1 DEF ProcessCapsule, consume_recv_bytes, consumable, Smaller
  <2>2. CASE ProcessClosingCapsule(s, k)
    BY <2>2 DEF ProcessClosingCapsule
  <2>3. CASE ProcessMalformedCapsule(s, k)
    BY <2>3 DEF ProcessMalformedCapsule, consume_recv_bytes, consumable, Smaller
  <2>4. QED
    BY <1>5, <2>1, <2>2, <2>3 DEF Capsule
<1>6. ASSUME NEW s \in Session, LoopEnds(s) PROVE HeldIsBuffered'
  BY <1>6 DEF LoopEnds, consume_recv_bytes, consumable, excess, Smaller
<1>7. ASSUME NEW s \in Session, EndSession(s) PROVE HeldIsBuffered'
  BY <1>7 DEF EndSession, discard_stream_recv_bytes
<1>8. ASSUME NEW s \in Session, StreamClose(s) PROVE HeldIsBuffered'
  BY <1>8 DEF StreamClose, discard_stream_recv_bytes
<1>9. QED
  BY <1>1, <1>2, <1>3, <1>4, <1>5, <1>6, <1>7, <1>8 DEF Next

(* However many sessions come and go, and however they end (local close,   *)
(* rejection, peer's close, error, RST_STREAM), a live one holds no more   *)
(* of the connection window than it has buffered, and one that is over     *)
(* holds none of it.                                                       *)
THEOREM HeldAreBuffered == Spec => []HeldIsBuffered
<1>1. Init => HeldIsBuffered
  BY DEF Init, HeldIsBuffered
<1>2. QED
  BY <1>1, TypeCorrect, HeldStep, PTL DEF Spec

-----------------------------------------------------------------------------
(* Sums over a finite set: the fold of WindowConserved is a function       *)
(* defined by recursion over the subsets of the set, which exists because  *)
(* the set is finite.                                                      *)

(* A set of natural numbers that is not empty has a least member.          *)
LEMMA LeastNat ==
    ASSUME NEW T, T \subseteq Nat, T # {}
    PROVE  \E m \in T : \A k \in T : m <= k
<1>1. PICK m \in T : \A k \in T : ~(<<k, m>> \in OpToRel(<, Nat))
  BY NatLessThanWellFounded, WFMin
<1>2. \A k \in T : ~(k < m)
  BY <1>1, Zenon DEF OpToRel
<1> QED
  BY <1>2

(* The member a fold over s takes first.                                   *)
Pick(s) == CHOOSE x \in s : TRUE

(* I is the partial sums of f over the members of D; The, the function the *)
(* fold chooses; UpTo, the subsets of S of at most n members.              *)
Sums(f, D, I) ==
    I = [s \in D |-> IF s = {} THEN 0 ELSE f[Pick(s)] + I[s \ {Pick(s)}]]

The(f, D) ==
    CHOOSE I : I = [s \in D |-> IF s = {} THEN 0 ELSE f[Pick(s)] + I[s \ {Pick(s)}]]

UpTo(S, n) == {s \in SUBSET S : Cardinality(s) <= n}

LEMMA SumIsThe ==
    ASSUME NEW f, NEW S PROVE SumFunctionOnSet(f, S) = The(f, SUBSET S)[S]
BY Zenon DEF SumFunctionOnSet, FoldFunctionOnSet, MapThenFoldSet, The, Pick

LEMMA TheSums ==
    ASSUME NEW f, NEW D, NEW J, Sums(f, D, J) PROVE Sums(f, D, The(f, D))
BY Zenon DEF Sums, The

LEMMA PickFacts ==
    ASSUME NEW S, IsFiniteSet(S), NEW s \in SUBSET S, s # {}
    PROVE  /\ Pick(s) \in s /\ Pick(s) \in S
           /\ s \ {Pick(s)} \in SUBSET S
           /\ Cardinality(s) \in Nat /\ Cardinality(s) > 0
           /\ Cardinality(s \ {Pick(s)}) = Cardinality(s) - 1
<1>1. Pick(s) \in s
  BY DEF Pick
<1>2. IsFiniteSet(s)
  BY FS_Subset
<1>3. Cardinality(s) \in Nat /\ Cardinality(s) # 0
  BY <1>2, FS_CardinalityType, FS_EmptySet
<1>4. Cardinality(s \ {Pick(s)}) = Cardinality(s) - 1
  BY <1>1, <1>2, FS_RemoveElement
<1> QED
  BY <1>1, <1>3, <1>4

(* The partial sums exist: for the empty set, for one member more, and so  *)
(* for every subset of a finite set.                                       *)
LEMMA SumsStart ==
    ASSUME NEW f, NEW S, IsFiniteSet(S)
    PROVE  \E J : Sums(f, UpTo(S, 0), J)
<1> DEFINE J == [s \in UpTo(S, 0) |-> 0]
<1>1. ASSUME NEW s \in UpTo(S, 0), s # {} PROVE FALSE
  <2>1. s \in SUBSET S /\ Cardinality(s) <= 0
    BY DEF UpTo
  <2>2. Cardinality(s) \in Nat /\ Cardinality(s) > 0
    BY <1>1, <2>1, PickFacts
  <2> QED
    BY <2>1, <2>2
<1>2. J = [s \in UpTo(S, 0) |->
             IF s = {} THEN 0 ELSE f[Pick(s)] + J[s \ {Pick(s)}]]
  BY <1>1
<1> HIDE DEF J
<1> QED
  BY <1>2 DEF Sums

LEMMA SumsNext ==
    ASSUME NEW f, NEW S, IsFiniteSet(S), NEW n \in Nat,
           NEW J, Sums(f, UpTo(S, n), J)
    PROVE  \E K : Sums(f, UpTo(S, n + 1), K)
<1> DEFINE K == [s \in UpTo(S, n + 1) |->
                   IF s = {} THEN 0 ELSE f[Pick(s)] + J[s \ {Pick(s)}]]
<1>1. \A s \in UpTo(S, n + 1) : s # {} => s \ {Pick(s)} \in UpTo(S, n)
  BY PickFacts DEF UpTo
<1>2. \A s \in UpTo(S, n) : s \in UpTo(S, n + 1)
  <2> TAKE s \in UpTo(S, n)
  <2>1. s \in SUBSET S /\ Cardinality(s) <= n
    BY DEF UpTo
  <2>2. Cardinality(s) \in Nat
    BY <2>1, FS_Subset, FS_CardinalityType
  <2> QED
    BY <2>1, <2>2 DEF UpTo
<1>3. \A s \in UpTo(S, n) : K[s] = J[s]
  BY <1>2 DEF Sums
<1>4. K = [s \in UpTo(S, n + 1) |->
             IF s = {} THEN 0 ELSE f[Pick(s)] + K[s \ {Pick(s)}]]
  BY <1>1, <1>3
<1> HIDE DEF K
<1> QED
  BY <1>4 DEF Sums

LEMMA SumsExist ==
    ASSUME NEW f, NEW S, IsFiniteSet(S)
    PROVE  \E J : Sums(f, SUBSET S, J)
<1> DEFINE T == {n \in Nat : ~ \E J : Sums(f, UpTo(S, n), J)}
<1>1. T = {}
  <2> SUFFICES ASSUME T # {} PROVE FALSE
    OBVIOUS
  <2>1. PICK m \in T : \A k \in T : m <= k
    BY LeastNat
  <2>2. m # 0
    BY SumsStart
  <2>3. m - 1 \in Nat /\ m - 1 \notin T
    BY <2>1, <2>2
  <2>4. PICK J : Sums(f, UpTo(S, m - 1), J)
    BY <2>3
  <2>5. \E K : Sums(f, UpTo(S, m - 1 + 1), K)
    BY <2>3, <2>4, SumsNext
  <2>6. m - 1 + 1 = m
    BY <2>1
  <2> QED
    BY <2>5, <2>6
<1>2. Cardinality(S) \in Nat
  BY FS_CardinalityType
<1>3. UpTo(S, Cardinality(S)) = SUBSET S
  <2>1. \A s \in SUBSET S : Cardinality(s) <= Cardinality(S)
    BY FS_Subset
  <2> QED
    BY <2>1 DEF UpTo
<1>4. \E J : Sums(f, UpTo(S, Cardinality(S)), J)
  BY <1>1, <1>2
<1> QED
  BY <1>3, <1>4

(* So the fold computes what its body says.                                *)
Unfolds(I, f, S) ==
    \A s \in SUBSET S : I[s] = IF s = {} THEN 0 ELSE f[Pick(s)] + I[s \ {Pick(s)}]

LEMMA SumUnfolds ==
    ASSUME NEW f, NEW S, IsFiniteSet(S)
    PROVE  Unfolds(The(f, SUBSET S), f, S)
<1> DEFINE I == The(f, SUBSET S)
<1>1. Sums(f, SUBSET S, I)
  BY SumsExist, TheSums
<1> HIDE DEF I
<1>2. Unfolds(I, f, S)
  BY <1>1 DEF Sums, Unfolds
<1> QED
  BY <1>2 DEF I

(* Induction over the subsets of S, as a smallest counterexample.          *)
LEMMA SmallestSubset ==
    ASSUME NEW S, IsFiniteSet(S), NEW T, T \subseteq SUBSET S, T # {}
    PROVE  \E s \in T : s = {} \/ s \ {Pick(s)} \notin T
<1> DEFINE N == {Cardinality(s) : s \in T}
<1>1. \A s \in T : Cardinality(s) \in Nat
  BY FS_Subset, FS_CardinalityType
<1>2. N \subseteq Nat /\ N # {}
  BY <1>1
<1>3. PICK m \in N : \A k \in N : m <= k
  BY <1>2, LeastNat
<1>4. PICK s \in T : m = Cardinality(s)
  BY <1>3
<1>5. ASSUME s # {}, s \ {Pick(s)} \in T PROVE FALSE
  <2>1. Cardinality(s \ {Pick(s)}) \in N
    BY <1>5
  <2>2. Cardinality(s \ {Pick(s)}) = Cardinality(s) - 1 /\ Cardinality(s) \in Nat
    BY <1>5, PickFacts
  <2>3. m <= Cardinality(s \ {Pick(s)})
    BY <1>3, <2>1
  <2> QED
    BY <1>4, <2>2, <2>3
<1> QED
  BY <1>5

LEMMA SumZero ==
    ASSUME NEW f, NEW S, IsFiniteSet(S), \A x \in S : f[x] = 0
    PROVE  SumFunctionOnSet(f, S) = 0
<1> DEFINE I == The(f, SUBSET S)
           T == {s \in SUBSET S : I[s] # 0}
<1>0. Unfolds(I, f, S)
  BY SumUnfolds
<1>1. T = {}
  <2> SUFFICES ASSUME T # {} PROVE FALSE
    OBVIOUS
  <2> HIDE DEF I
  <2>1. PICK s \in T : s = {} \/ s \ {Pick(s)} \notin T
    BY SmallestSubset
  <2>2. s # {}
    BY <1>0 DEF Unfolds
  <2>3. Pick(s) \in S /\ s \ {Pick(s)} \in SUBSET S
    BY <2>2, PickFacts
  <2>4. I[s \ {Pick(s)}] = 0
    BY <2>1, <2>2, <2>3
  <2>5. I[s] = f[Pick(s)] + I[s \ {Pick(s)}]
    BY <1>0, <2>2 DEF Unfolds
  <2> QED
    BY <2>3, <2>4, <2>5
<1> QED
  BY <1>1, SumIsThe

(* Changing f at one member changes the sum by as much.                    *)
LEMMA SumUpdate ==
    ASSUME NEW S, IsFiniteSet(S), NEW f \in [S -> Nat], NEW g \in [S -> Nat],
           NEW a \in S, \A x \in S : x # a => g[x] = f[x]
    PROVE  /\ SumFunctionOnSet(f, S) \in Nat /\ SumFunctionOnSet(g, S) \in Nat
           /\ SumFunctionOnSet(g, S) = SumFunctionOnSet(f, S) - f[a] + g[a]
<1> DEFINE I == The(f, SUBSET S)
           K == The(g, SUBSET S)
           Good(s) == /\ I[s] \in Nat /\ K[s] \in Nat
                      /\ K[s] = IF a \in s THEN I[s] - f[a] + g[a] ELSE I[s]
           T == {s \in SUBSET S : ~Good(s)}
<1>0. Unfolds(I, f, S) /\ Unfolds(K, g, S)
  BY SumUnfolds
<1>1. T = {}
  <2> SUFFICES ASSUME T # {} PROVE FALSE
    OBVIOUS
  <2> HIDE DEF I, K
  <2>1. PICK s \in T : s = {} \/ s \ {Pick(s)} \notin T
    BY SmallestSubset
  <2>2. s # {}
    <3> SUFFICES ASSUME s = {} PROVE FALSE
      OBVIOUS
    <3>1. I[s] = 0 /\ K[s] = 0 /\ a \notin s
      BY <1>0 DEF Unfolds
    <3> QED
      BY <2>1, <3>1
  <2>3. Pick(s) \in s /\ Pick(s) \in S /\ s \ {Pick(s)} \in SUBSET S
    BY <2>2, PickFacts
  <2>4. Good(s \ {Pick(s)})
    BY <2>1, <2>2, <2>3
  <2>5. I[s] = f[Pick(s)] + I[s \ {Pick(s)}] /\ K[s] = g[Pick(s)] + K[s \ {Pick(s)}]
    BY <1>0, <2>2 DEF Unfolds
  <2>6. f[Pick(s)] \in Nat /\ g[Pick(s)] \in Nat /\ f[a] \in Nat /\ g[a] \in Nat
    BY <2>3
  <2>7. CASE Pick(s) = a
    BY <2>1, <2>3, <2>4, <2>5, <2>6, <2>7
  <2>8. CASE Pick(s) # a
    <3>1. g[Pick(s)] = f[Pick(s)] /\ (a \in s <=> a \in s \ {Pick(s)})
      BY <2>3, <2>8
    <3> QED
      BY <2>1, <2>3, <2>4, <2>5, <2>6, <3>1
  <2> QED
    BY <2>7, <2>8
<1> QED
  BY <1>1, SumIsThe

-----------------------------------------------------------------------------
LEMMA ConservedAt ==
    ASSUME TypeOK, WindowConserved, NEW s \in Session, NEW v \in Nat,
           unconsumed' = [unconsumed EXCEPT ![s] = v],
           recv_window' \in Nat, consumed' \in Nat,
           recv_window' - consumed' = recv_window - consumed - unconsumed[s] + v
    PROVE  WindowConserved'
<1>1. /\ unconsumed \in [Session -> Nat] /\ unconsumed' \in [Session -> Nat]
      /\ unconsumed'[s] = v /\ recv_window \in Nat /\ consumed \in Nat
      /\ unconsumed[s] \in Nat
      /\ \A x \in Session : x # s => unconsumed'[x] = unconsumed[x]
  BY DEF TypeOK
<1>2. /\ SumFunctionOnSet(unconsumed, Session) \in Nat
      /\ SumFunctionOnSet(unconsumed', Session) \in Nat
      /\ SumFunctionOnSet(unconsumed', Session) =
           SumFunctionOnSet(unconsumed, Session) - unconsumed[s] + unconsumed'[s]
  <2>1. PICK f \in [Session -> Nat], g \in [Session -> Nat] :
           f = unconsumed /\ g = unconsumed'
    BY <1>1
  <2>2. \A x \in Session : x # s => g[x] = f[x]
    BY <1>1, <2>1
  <2>3. IsFiniteSet(Session)
    BY WindowAssumption
  <2>4. /\ SumFunctionOnSet(f, Session) \in Nat /\ SumFunctionOnSet(g, Session) \in Nat
        /\ SumFunctionOnSet(g, Session) = SumFunctionOnSet(f, Session) - f[s] + g[s]
    BY <2>2, <2>3, SumUpdate
  <2> QED
    BY <2>1, <2>4
<1>3. recv_window = consumed + SumFunctionOnSet(unconsumed, Session)
  BY DEF WindowConserved
<1>4. recv_window' = consumed' + SumFunctionOnSet(unconsumed', Session)
  BY <1>1, <1>2, <1>3
<1> QED
  BY <1>4 DEF WindowConserved

LEMMA ConservedConsume ==
    ASSUME TypeOK, WindowConserved, NEW s \in Session, NEW n \in Nat,
           consume_recv_bytes(s, n)
    PROVE  WindowConserved'
<1>1. PICK m \in Nat : m = consumable(s, n) /\ m <= unconsumed[s]
  BY ConsumableFacts
<1>2. /\ unconsumed[s] \in Nat /\ unconsumed[s] - m \in Nat
      /\ recv_window \in Nat /\ consumed \in Nat
  BY <1>1 DEF TypeOK
<1>3. /\ unconsumed' = [unconsumed EXCEPT ![s] = unconsumed[s] - m]
      /\ consume_connection_recv_bytes(0, m)
  BY <1>1 DEF consume_recv_bytes
<1>4. recv_window' \in Nat /\ consumed' \in Nat
  BY ConsumeRecvBytes
<1>5. recv_window' - consumed' =
         recv_window - consumed - unconsumed[s] + (unconsumed[s] - m)
  BY <1>2, <1>3, HalfWindow DEF consume_connection_recv_bytes, returned, Smaller
<1> DEFINE v == unconsumed[s] - m
<1>6. /\ v \in Nat /\ unconsumed' = [unconsumed EXCEPT ![s] = v]
      /\ recv_window' - consumed' = recv_window - consumed - unconsumed[s] + v
  BY <1>2, <1>3, <1>5
<1> HIDE DEF v
<1> QED
  BY <1>4, <1>6, ConservedAt

LEMMA ConservedDiscard ==
    ASSUME TypeOK, WindowConserved, NEW s \in Session, NEW n \in Nat,
           discard_stream_recv_bytes(s, n)
    PROVE  WindowConserved'
<1>1. unconsumed[s] \in Nat /\ recv_window \in Nat /\ consumed \in Nat
  BY DEF TypeOK
<1>2. /\ unconsumed' = [unconsumed EXCEPT ![s] = 0]
      /\ consume_connection_recv_bytes(n, unconsumed[s] + n)
  BY DEF discard_stream_recv_bytes
<1>3. recv_window' \in Nat /\ consumed' \in Nat
  BY DiscardRecvBytes
<1>4. recv_window' - consumed' = recv_window - consumed - unconsumed[s] + 0
  BY <1>1, <1>2, HalfWindow DEF consume_connection_recv_bytes, returned, Smaller
<1> QED
  BY <1>2, <1>3, <1>4, ConservedAt

(* The steps that leave unconsumed alone.                                  *)
LEMMA ConservedSame ==
    ASSUME TypeOK, WindowConserved, unconsumed' = unconsumed,
           recv_window' \in Nat, consumed' \in Nat,
           recv_window' - consumed' = recv_window - consumed
    PROVE  WindowConserved'
<1>1. recv_window = consumed + SumFunctionOnSet(unconsumed, Session)
  BY DEF WindowConserved
<1>2. recv_window \in Nat /\ consumed \in Nat
  BY DEF TypeOK
<1>3. SumFunctionOnSet(unconsumed, Session) \in Nat
  <2>1. CASE Session = {}
    BY <2>1, WindowAssumption, SumZero
  <2>2. ASSUME NEW s \in Session PROVE SumFunctionOnSet(unconsumed, Session) \in Nat
    BY WindowAssumption, SumUpdate DEF TypeOK
  <2> QED
    BY <2>1, <2>2
<1>4. recv_window' = consumed' + SumFunctionOnSet(unconsumed', Session)
  BY <1>1, <1>2, <1>3
<1> QED
  BY <1>4 DEF WindowConserved

LEMMA ConservedStep == TypeOK /\ WindowConserved /\ [Next]_vars => WindowConserved'
<1> SUFFICES ASSUME TypeOK, WindowConserved, [Next]_vars PROVE WindowConserved'
  OBVIOUS
<1>0. TypeOK' /\ recv_window \in Nat /\ consumed \in Nat
  BY TypeStep DEF TypeOK
<1>t. recv_window' \in Nat /\ consumed' \in Nat
  BY <1>0 DEF TypeOK
<1>1. CASE UNCHANGED vars
  BY <1>0, <1>1, <1>t, ConservedSame DEF vars
<1>2. ASSUME NEW s \in Session, NewSession(s) PROVE WindowConserved'
  BY <1>0, <1>2, <1>t, ConservedSame DEF NewSession
<1>3. ASSUME NEW s \in Session, AcceptSession(s) PROVE WindowConserved'
  BY <1>0, <1>3, <1>t, ConservedSame DEF AcceptSession
<1>4. ASSUME NEW s \in Session, NEW n \in 1 .. MaxFrame, Arrival(s, n)
      PROVE  WindowConserved'
  <2>0. n \in Nat /\ unconsumed[s] \in Nat
    BY WindowAssumption DEF TypeOK
  <2>1. CASE RecvDataDropped(s, n)
    <3>1. unconsumed' = unconsumed /\ consume_connection_recv_bytes(n, n)
      BY <2>1 DEF RecvDataDropped
    <3>2. recv_window' - consumed' = recv_window - consumed
      BY <1>0, <2>0, <3>1, HalfWindow
      DEF consume_connection_recv_bytes, returned, Smaller
    <3> QED
      BY <1>t, <3>1, <3>2, ConservedSame
  <2>2. CASE RecvData(s, n) \/ RecvDataPending(s, n)
    <3>1. /\ unconsumed' = [unconsumed EXCEPT ![s] = unconsumed[s] + n]
          /\ recv_window' = recv_window + n /\ consumed' = consumed
      BY <2>2 DEF RecvData, RecvDataPending
    <3>2. /\ unconsumed[s] + n \in Nat
          /\ recv_window' - consumed' =
               recv_window - consumed - unconsumed[s] + (unconsumed[s] + n)
      BY <1>0, <2>0, <3>1
    <3> QED
      BY <1>t, <3>1, <3>2, ConservedAt
  <2>3. CASE RecvDataRejected(s, n)
    BY <2>0, <2>3, ConservedDiscard DEF RecvDataRejected
  <2> QED
    BY <1>4, <2>1, <2>2, <2>3 DEF Arrival
<1>5. ASSUME NEW s \in Session, NEW k \in 1 .. buffer[s], Capsule(s, k)
      PROVE  WindowConserved'
  <2>0. k \in Nat
    BY DEF TypeOK
  <2>1. CASE ProcessCapsule(s, k) \/ ProcessMalformedCapsule(s, k)
    BY <2>0, <2>1, ConservedConsume DEF ProcessCapsule, ProcessMalformedCapsule
  <2>2. CASE ProcessClosingCapsule(s, k)
    <3> DEFINE first == consumable(s, k)
               rest == unconsumed[s] - first
               back == FirstBack(first) + SecondBack(first, rest)
    <3>1. /\ first \in Nat /\ rest \in Nat /\ unconsumed[s] \in Nat
          /\ first + rest = unconsumed[s]
      BY <2>0, ConsumableFacts DEF TypeOK
    <3>2. /\ recv_window' = recv_window - back
          /\ consumed' = consumed + first + rest - back
          /\ unconsumed' = [unconsumed EXCEPT ![s] = 0]
      BY <2>2 DEF ProcessClosingCapsule
    <3> HIDE DEF first, rest
    <3>3. back \in Int
      <4>1. FirstBack(first) \in Int
        BY <1>0, <3>1, HalfWindow DEF FirstBack, returned, Smaller
      <4>2. SecondBack(first, rest) \in Int
        BY <1>0, <3>1, <4>1, HalfWindow DEF SecondBack, returned, Smaller
      <4> QED
        BY <4>1, <4>2
    <3> HIDE DEF back
    <3>4. recv_window' - consumed' = recv_window - consumed - unconsumed[s] + 0
      BY <1>0, <3>1, <3>2, <3>3
    <3> QED
      BY <1>t, <3>2, <3>4, ConservedAt
  <2> QED
    BY <1>5, <2>1, <2>2 DEF Capsule
<1>6. ASSUME NEW s \in Session, LoopEnds(s) PROVE WindowConserved'
  <2>1. excess(s) \in Nat
    BY WindowAssumption DEF excess, TypeOK
  <2> QED
    BY <1>6, <2>1, ConservedConsume DEF LoopEnds
<1>7. ASSUME NEW s \in Session, EndSession(s) \/ StreamClose(s) PROVE WindowConserved'
  BY <1>7, ConservedDiscard DEF EndSession, StreamClose
<1> QED
  BY <1>1, <1>2, <1>3, <1>4, <1>5, <1>6, <1>7 DEF Next

(* For any number of sessions, however they come, are fed and end, no byte *)
(* of the connection window is lost or returned twice: what                *)
(* on_recv_data_callback counted and consume_connection_recv_bytes has not *)
(* returned is what waits below half a window and what the sessions hold.  *)
THEOREM WindowIsConserved == Spec => []WindowConserved
<1>1. Init => WindowConserved
  <2> SUFFICES ASSUME Init PROVE WindowConserved
    OBVIOUS
  <2>1. SumFunctionOnSet(unconsumed, Session) = 0
    BY WindowAssumption, SumZero DEF Init
  <2> QED
    BY <2>1 DEF Init, WindowConserved
<1>2. QED
  BY <1>1, TypeCorrect, ConservedStep, PTL DEF Spec

-----------------------------------------------------------------------------
(* The window never closes.                                                *)

(* The sizes of the code satisfy this: 32767 + 32768 <= 65535, and the     *)
(* default of both windows is 65535.  The stream window can be configured, *)
(* and has to stay above 32768.                                            *)
SizesFit ==
    /\ half_window + max_unfinished <= conn_local_window_size
    /\ max_unfinished < conn_local_window_size
    /\ max_unfinished < initial_window_size

(* Less than half a window waits to be returned.                           *)
BelowHalf == consumed = 0 \/ consumed < half_window

(* Between two callbacks an established session holds at most              *)
(* max_unfinished bytes, unless it is as accept_session left it, which     *)
(* holds at most the pre-accept limit.                                     *)
SessionFits(s) ==
    /\ running[s] # "no" => status[s] = "open"
    /\ status[s] = "idle" => buffer[s] = 0
    /\ status[s] = "pending" => buffer[s] <= pre_accept_buffer_limit
    /\ running[s] = "accept_session" => buffer[s] <= pre_accept_buffer_limit
    /\ (status[s] = "open" /\ running[s] = "no" /\ s \notin overheld)
          => unconsumed[s] <= max_unfinished
    /\ pre_accept_buffer_limit <= max_unfinished => s \notin overheld

(* The sum is at least any of its terms, and equal to the only one that is *)
(* not 0.                                                                  *)
LEMMA SumTerm ==
    ASSUME NEW S, IsFiniteSet(S), NEW f \in [S -> Nat], NEW a \in S
    PROVE  /\ SumFunctionOnSet(f, S) \in Nat
           /\ f[a] <= SumFunctionOnSet(f, S)
           /\ (\A x \in S : x # a => f[x] = 0) => SumFunctionOnSet(f, S) = f[a]
<1> DEFINE g == [f EXCEPT ![a] = 0]
<1>1. /\ g \in [S -> Nat] /\ g[a] = 0 /\ f[a] \in Nat
      /\ \A x \in S : x # a => g[x] = f[x]
  OBVIOUS
<1> HIDE DEF g
<1>2. /\ SumFunctionOnSet(f, S) \in Nat /\ SumFunctionOnSet(g, S) \in Nat
      /\ SumFunctionOnSet(g, S) = SumFunctionOnSet(f, S) - f[a] + g[a]
  BY <1>1, SumUpdate
<1>3. ASSUME \A x \in S : x # a => f[x] = 0 PROVE SumFunctionOnSet(g, S) = 0
  <2>1. \A x \in S : g[x] = 0
    BY <1>1, <1>3
  <2> QED
    BY <2>1, SumZero
<1>4. f[a] <= SumFunctionOnSet(f, S)
  BY <1>1, <1>2
<1>5. ASSUME \A x \in S : x # a => f[x] = 0 PROVE SumFunctionOnSet(f, S) = f[a]
  <2>1. SumFunctionOnSet(g, S) = 0
    BY <1>3, <1>5
  <2> QED
    BY <1>1, <1>2, <2>1
<1> QED
  BY <1>2, <1>4, <1>5

LEMMA HeldCovered ==
    ASSUME TypeOK, WindowConserved, NEW s \in Session
    PROVE  /\ consumed + unconsumed[s] <= recv_window
           /\ (\A x \in Session : x # s => unconsumed[x] = 0)
                => recv_window = consumed + unconsumed[s]
<1>1. /\ unconsumed \in [Session -> Nat] /\ consumed \in Nat /\ recv_window \in Nat
      /\ unconsumed[s] \in Nat
  BY DEF TypeOK
<1>2. PICK f \in [Session -> Nat] : f = unconsumed
  BY <1>1
<1>3. /\ SumFunctionOnSet(f, Session) \in Nat
      /\ f[s] <= SumFunctionOnSet(f, Session)
      /\ (\A x \in Session : x # s => f[x] = 0) => SumFunctionOnSet(f, Session) = f[s]
  BY WindowAssumption, SumTerm
<1>4. recv_window = consumed + SumFunctionOnSet(f, Session)
  BY <1>2 DEF WindowConserved
<1> QED
  BY <1>1, <1>2, <1>3, <1>4

(* What is consumed is returned as soon as it is half a window, when no    *)
(* more was consumed than received.                                        *)
LEMMA BelowHalfConsume ==
    ASSUME TypeOK, BelowHalf, NEW n \in Nat, NEW m \in Nat,
           consumed + m <= recv_window + n,
           consume_connection_recv_bytes(n, m)
    PROVE  BelowHalf'
BY HalfWindow, WindowAssumption
DEF TypeOK, BelowHalf, half_window, consume_connection_recv_bytes, returned, Smaller

LEMMA BelowHalfStep ==
    TypeOK /\ WindowConserved /\ BelowHalf /\ [Next]_vars => BelowHalf'
<1> SUFFICES ASSUME TypeOK, WindowConserved, BelowHalf, [Next]_vars PROVE BelowHalf'
  OBVIOUS
<1>0. /\ recv_window \in Nat /\ consumed \in Nat
      /\ \A s \in Session : unconsumed[s] \in Nat /\ buffer[s] \in Nat
  BY DEF TypeOK
<1>1. CASE UNCHANGED vars
  BY <1>1 DEF vars, BelowHalf
<1>2. ASSUME NEW s \in Session, NewSession(s) \/ AcceptSession(s) PROVE BelowHalf'
  BY <1>2 DEF NewSession, AcceptSession, BelowHalf
<1>3. ASSUME NEW s \in Session, NEW n \in Nat, consume_recv_bytes(s, n)
      PROVE  BelowHalf'
  <2>1. PICK m \in Nat : m = consumable(s, n) /\ m <= unconsumed[s]
    BY ConsumableFacts
  <2>2. consume_connection_recv_bytes(0, m)
    BY <1>3, <2>1 DEF consume_recv_bytes
  <2>3. consumed + m <= recv_window + 0
    BY <1>0, <2>1, HeldCovered
  <2> QED
    BY <2>2, <2>3, BelowHalfConsume
<1>4. ASSUME NEW s \in Session, NEW n \in Nat, discard_stream_recv_bytes(s, n)
      PROVE  BelowHalf'
  <2>1. PICK m \in Nat : m = unconsumed[s] + n
    BY <1>0
  <2>2. consume_connection_recv_bytes(n, m)
    BY <1>4, <2>1 DEF discard_stream_recv_bytes
  <2>3. consumed + m <= recv_window + n
    BY <1>0, <2>1, HeldCovered
  <2> QED
    BY <2>2, <2>3, BelowHalfConsume
<1>5. ASSUME NEW s \in Session, NEW n \in 1 .. MaxFrame, Arrival(s, n)
      PROVE  BelowHalf'
  <2>0. n \in Nat /\ consumed + n <= recv_window + n
    BY <1>0, WindowAssumption, HeldCovered
  <2>1. CASE RecvDataDropped(s, n)
    BY <2>0, <2>1, BelowHalfConsume DEF RecvDataDropped
  <2>2. CASE RecvData(s, n) \/ RecvDataPending(s, n)
    BY <2>2 DEF RecvData, RecvDataPending, BelowHalf
  <2>3. CASE RecvDataRejected(s, n)
    BY <1>4, <2>0, <2>3 DEF RecvDataRejected
  <2> QED
    BY <1>5, <2>1, <2>2, <2>3 DEF Arrival
<1>6. ASSUME NEW s \in Session, NEW k \in 1 .. buffer[s], Capsule(s, k)
      PROVE  BelowHalf'
  <2>0. k \in Nat
    BY <1>0
  <2>1. CASE ProcessCapsule(s, k) \/ ProcessMalformedCapsule(s, k)
    BY <1>3, <2>0, <2>1 DEF ProcessCapsule, ProcessMalformedCapsule
  <2>2. CASE ProcessClosingCapsule(s, k)
    <3> DEFINE first == consumable(s, k)
               rest == unconsumed[s] - first
    <3>0. first \in Nat /\ rest \in Nat /\ first + rest = unconsumed[s]
      BY <1>0, <2>0, ConsumableFacts
    <3>1. consumed' = consumed + first + rest - (FirstBack(first) + SecondBack(first, rest))
      BY <2>2 DEF ProcessClosingCapsule
    <3>2. consumed + first + rest <= recv_window
      BY <1>0, <3>0, HeldCovered
    <3> HIDE DEF first, rest
    <3>3. consumed = 0 \/ consumed < half_window
      BY DEF BelowHalf
    <3>4. consumed' = 0 \/ consumed' < half_window
      <4>1. CASE rest = 0
        BY <1>0, <3>0, <3>1, <3>2, <3>3, <4>1, HalfWindow
        DEF FirstBack, SecondBack, returned, Smaller
      <4>2. CASE first = 0
        BY <1>0, <3>0, <3>1, <3>2, <3>3, <4>2, HalfWindow
        DEF FirstBack, SecondBack, returned, Smaller
      <4>3. CASE first # 0 /\ rest # 0
        BY <1>0, <3>0, <3>1, <3>2, <3>3, <4>3, HalfWindow
        DEF FirstBack, SecondBack, returned, Smaller
      <4> QED
        BY <4>1, <4>2, <4>3
    <3> QED
      BY <3>4 DEF BelowHalf, half_window
  <2> QED
    BY <1>6, <2>1, <2>2 DEF Capsule
<1>7. ASSUME NEW s \in Session, LoopEnds(s) PROVE BelowHalf'
  <2>1. excess(s) \in Nat
    BY <1>0, WindowAssumption DEF excess
  <2> QED
    BY <1>3, <1>7, <2>1 DEF LoopEnds
<1>8. ASSUME NEW s \in Session, EndSession(s) \/ StreamClose(s) PROVE BelowHalf'
  BY <1>4, <1>8 DEF EndSession, StreamClose
<1> QED
  BY <1>1, <1>2, <1>5, <1>6, <1>7, <1>8 DEF Next

LEMMA SessionFitsStep ==
    ASSUME SizesFit, TypeOK, HeldIsBuffered, NEW t \in Session, SessionFits(t),
           [Next]_vars
    PROVE  SessionFits(t)'
<1> USE WindowAssumption
<1>0. unconsumed[t] \in Nat /\ buffer[t] \in Nat
  BY DEF TypeOK
<1>1. CASE UNCHANGED vars
  BY <1>1 DEF vars, SessionFits
<1>2. ASSUME NEW s \in Session, NewSession(s) PROVE SessionFits(t)'
  BY <1>0, <1>2 DEF NewSession, SessionFits, Quiet, TypeOK
<1>3. ASSUME NEW s \in Session, AcceptSession(s) PROVE SessionFits(t)'
  BY <1>0, <1>3 DEF AcceptSession, SessionFits, TypeOK
<1>4. ASSUME NEW s \in Session, NEW n \in 1 .. MaxFrame, Arrival(s, n)
      PROVE  SessionFits(t)'
  <2>1. CASE RecvDataDropped(s, n)
    BY <1>0, <2>1 DEF RecvDataDropped, SessionFits, TypeOK
  <2>2. CASE RecvData(s, n)
    BY <1>0, <2>2 DEF RecvData, SessionFits, TypeOK
  <2>3. CASE RecvDataPending(s, n)
    BY <1>0, <2>3 DEF RecvDataPending, Receivable, Quiet, SessionFits, TypeOK
  <2>4. CASE RecvDataRejected(s, n)
    BY <1>0, <2>4 DEF RecvDataRejected, SessionFits, TypeOK, Receivable, Quiet,
       discard_stream_recv_bytes
  <2>5. QED
    BY <1>4, <2>1, <2>2, <2>3, <2>4 DEF Arrival
<1>5. ASSUME NEW s \in Session, NEW k \in 1 .. buffer[s], Capsule(s, k)
      PROVE  SessionFits(t)'
  <2>1. CASE ProcessCapsule(s, k)
    BY <1>0, <2>1 DEF ProcessCapsule, InLoop, SessionFits, TypeOK, consume_recv_bytes
  <2>2. CASE ProcessClosingCapsule(s, k)
    BY <1>0, <2>2 DEF ProcessClosingCapsule, SessionFits, TypeOK
  <2>3. CASE ProcessMalformedCapsule(s, k)
    BY <1>0, <2>3 DEF ProcessMalformedCapsule, SessionFits, TypeOK, consume_recv_bytes
  <2>4. QED
    BY <1>5, <2>1, <2>2, <2>3 DEF Capsule
<1>6. ASSUME NEW s \in Session, LoopEnds(s) PROVE SessionFits(t)'
  <2>0. CASE s # t
    BY <1>0, <1>6, <2>0 DEF LoopEnds, consume_recv_bytes, SessionFits, TypeOK
  <2>1. ASSUME s = t PROVE unconsumed[t] <= buffer[t] /\ status[t] = "open"
    BY <1>0, <1>6, <2>1 DEF LoopEnds, InLoop, SessionFits, HeldIsBuffered
  <2>2. CASE s = t /\ running[t] = "accept_session"
    <3>1. excess(t) = 0 /\ consumable(t, 0) = 0
      BY <1>0, <2>2 DEF excess, consumable, Smaller
    <3>2. unconsumed'[t] = unconsumed[t]
      BY <1>0, <1>6, <2>2, <3>1 DEF LoopEnds, consume_recv_bytes, TypeOK
    <3>3. t \in overheld' <=> unconsumed[t] > max_unfinished
      BY <1>6, <2>2 DEF LoopEnds
    <3>4. unconsumed[t] <= pre_accept_buffer_limit
      BY <1>0, <2>1, <2>2 DEF SessionFits
    <3> QED
      BY <1>0, <1>6, <2>1, <2>2, <3>2, <3>3, <3>4 DEF LoopEnds, SessionFits, TypeOK
  <2>3. CASE s = t /\ running[t] # "accept_session"
    <3>0. excess(t) \in Nat /\ buffer[t] <= max_unfinished + excess(t)
      BY <1>0, <1>6, <2>3 DEF LoopEnds, InLoop, excess, TypeOK, Loop
    <3>1. PICK m \in Nat : m = consumable(t, excess(t))
      BY <1>0, <3>0, ConsumableFacts
    <3>2. m <= unconsumed[t] /\ unconsumed[t] - m <= max_unfinished
      BY <1>0, <2>1, <2>3, <3>0, <3>1, ConsumableFacts
    <3>3. unconsumed'[t] = unconsumed[t] - m /\ t \notin overheld'
      BY <1>0, <1>6, <2>3, <3>1 DEF LoopEnds, consume_recv_bytes, TypeOK
    <3> QED
      BY <1>0, <1>6, <2>1, <2>3, <3>2, <3>3 DEF LoopEnds, SessionFits, TypeOK
  <2> QED
    BY <2>0, <2>2, <2>3
<1>7. ASSUME NEW s \in Session, EndSession(s) \/ StreamClose(s) PROVE SessionFits(t)'
  BY <1>0, <1>7 DEF EndSession, StreamClose, Quiet, SessionFits, TypeOK,
     discard_stream_recv_bytes
<1> QED
  BY <1>1, <1>2, <1>3, <1>4, <1>5, <1>6, <1>7 DEF Next

Fits == BelowHalf /\ \A s \in Session : SessionFits(s)

LEMMA FitsAlways == ASSUME SizesFit PROVE Spec => []Fits
<1>1. Init => Fits
  BY DEF Init, Fits, BelowHalf, SessionFits
<1>2. TypeOK /\ HeldIsBuffered /\ WindowConserved /\ Fits /\ [Next]_vars => Fits'
  <2> SUFFICES ASSUME TypeOK, HeldIsBuffered, WindowConserved, Fits, [Next]_vars
               PROVE  Fits'
    OBVIOUS
  <2>1. BelowHalf'
    BY BelowHalfStep DEF Fits
  <2>2. \A s \in Session : SessionFits(s)'
    BY SessionFitsStep DEF Fits
  <2> QED
    BY <2>1, <2>2 DEF Fits
<1> QED
  BY <1>1, <1>2, TypeCorrect, HeldAreBuffered, WindowIsConserved, PTL DEF Spec

LEMMA FitsIsOpen ==
    ASSUME SizesFit, TypeOK, HeldIsBuffered, WindowConserved, Fits,
           NEW s \in Session, Alone(s), s \notin overheld
    PROVE  HasRoom(s)
<1>1. \A x \in Session : x # s => unconsumed[x] = 0
  BY DEF Alone, Live, TypeOK, Status, HeldIsBuffered
<1>2. recv_window = consumed + unconsumed[s]
  BY <1>1, HeldCovered
<1>3. unconsumed[s] <= max_unfinished
  BY DEF Alone, Quiet, Fits, SessionFits
<1>4. unconsumed[s] \in Nat /\ consumed \in Nat
  BY DEF TypeOK
<1>5. consumed = 0 \/ consumed < half_window
  BY DEF Fits, BelowHalf
<1> QED
  BY <1>2, <1>3, <1>4, <1>5, WindowAssumption, HalfWindow DEF SizesFit, HasRoom

(* However many sessions the connection has had, while one is live no      *)
(* on_recv_data_callback leaves the receive window closed on it: whatever  *)
(* the sizes that fit, a capsule of any length the payload limit allows    *)
(* still arrives.  The one way into a deadlock of flow control for a       *)
(* single session is an accept_session that keeps more than the threshold. *)
THEOREM WindowStaysOpen ==
    ASSUME SizesFit
    PROVE  Spec => []WindowOpen
<1>1. TypeOK /\ HeldIsBuffered /\ WindowConserved /\ Fits => WindowOpen
  BY FitsIsOpen DEF WindowOpen
<1> QED
  BY <1>1, FitsAlways, TypeCorrect, HeldAreBuffered, WindowIsConserved, PTL

(* With wt_pre_accept_buffer_limit at most the threshold, which its        *)
(* default is not, accept_session keeps no more either, and there is no    *)
(* exception: the window never closes on a single live session.            *)
THEOREM SmallLimitStaysOpen ==
    ASSUME SizesFit, pre_accept_buffer_limit <= max_unfinished
    PROVE  Spec => []WindowOpenAlone
<1>1. TypeOK /\ HeldIsBuffered /\ WindowConserved /\ Fits => WindowOpenAlone
  BY FitsIsOpen DEF WindowOpenAlone, Fits, SessionFits
<1> QED
  BY <1>1, FitsAlways, TypeCorrect, HeldAreBuffered, WindowIsConserved, PTL

=============================================================================
