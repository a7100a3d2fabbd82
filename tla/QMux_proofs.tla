----------------------------- MODULE QMux_proofs -----------------------------
(***************************************************************************)
(* Proofs about QMux, for any streams, limits, sizes of records, writes    *)
(* and datagrams, and any number of calls: datagrams are handed over       *)
(* whole, in order and within the limit of their receiver, and so are the  *)
(* bytes of streams as long as the application stays within the credit of  *)
(* its peer.                                                               *)
(*                                                                         *)
(* What an end has under way is the sequence of frames it has written and  *)
(* its peer has not read, and those of the record it is filling: Flight.   *)
(* The frames of a stream in it, and the writes of the stream that are     *)
(* queued, are chains of bytes without gaps (Chain): from what the peer    *)
(* was told to what was sent, and from there to what was written.          *)
(*                                                                         *)
(* The invariant has three parts: Base (types, records, credit), DgInv     *)
(* (datagrams, and the frame being read) and StreamInv (streams).  The     *)
(* module first proves what sums and sequences need, then reduces every    *)
(* action to what it changes (FlushShape, CallsShape, ReceiveShape), and   *)
(* shows the three parts one after the other from those shapes.            *)
(***************************************************************************)
EXTENDS QMux, FiniteSetTheorems, WellFoundedInduction, TLAPS

Kind == {"STREAM", "DATAGRAM", "PARAMS", "RESET", "STOP", "CLOSE"}
Frames == [k : Kind, s : Streams \cup {None}, at : Nat, n : Nat, fin : BOOLEAN]

(* A frame is made as the code makes it: control frames carry no bytes,    *)
(* and those of a stream name it.                                          *)
Controls == {f \in Frames : f.k \notin {"STREAM", "DATAGRAM"} /\ f.n = 0}
WellMade(f) == /\ f.k \in {"STREAM", "RESET", "STOP"} => f.s \in Streams
               /\ f.k \notin {"STREAM", "DATAGRAM"} => f.n = 0
Made == {f \in Frames : WellMade(f)}

Writes == [s : Streams, at : Nat, n : Nat, fin : BOOLEAN]
Datagrams == [at : Nat, n : Nat]

Connections == [
    pending_stream_data : Seq(Writes), pending_datagrams : Seq(Datagrams),
    params_received : BOOLEAN, close_requested : BOOLEAN,
    pc : {"idle", "send", "stream", "datagram", "record"},
    loop : {"flush", "read"}, closed : BOOLEAN,
    record : Seq(Made), owed : Seq(Made),
    tx : [Streams -> {"none", "open", "fin", "reset"}],
    rx : [Streams -> {"none", "open", "stopped", "ended"}],
    sent : [Streams -> Nat],
    state : {"open", "closing", "draining"}, buffer : Nat]

Told == [bytes : [Streams -> Nat], fin : [Streams -> BOOLEAN],
         gap : [Streams -> BOOLEAN], dgrams : Seq(Datagrams)]

TypeOK ==
    /\ m \in [End -> Connections]
    /\ wire \in [End -> Seq(Made)]
    /\ offset \in [End -> Nat]
    /\ said \in [End -> [Streams -> [n : Nat, fin : BOOLEAN]]]
    /\ told \in [End -> Told]
    /\ calls \in [End -> Nat]

-----------------------------------------------------------------------------
(* The invariant.                                                          *)

(* All that e has under way, in order.                                     *)
Flight(e) == wire[e] \o m[e].record

(* The bytes read so far are of a frame that has more.                     *)
Reading(p) ==
    offset[p] > 0 => wire[Peer(p)] # <<>> /\ offset[p] < Head(wire[Peer(p)]).n

(* Between flushes, and on a connection that is ending, there is no record *)
(* under way; what is due are control frames; and send() writes a frame    *)
(* only while the record has room for a byte of it.                        *)
Records(c) ==
    /\ c.pc \in {"idle", "send"} \/ c.state # "open" => c.record = <<>>
    /\ \A i \in 1 .. Len(c.owed) : c.owed[i] \in Controls
    /\ c.pc = "stream" /\ c.state = "open" => Room(c) > 0

(* The credit of the peer is never overrun.                                *)
SentSum(c) == FoldFunction(LAMBDA a, b : a + b, 0, c.sent)
Credited(c) ==
    /\ \A s \in Streams : c.sent[s] <= MaxStreamData
    /\ SentSum(c) <= MaxData

Sound(c) == c \in Connections /\ Records(c) /\ Credited(c)

Base == TypeOK /\ \A e \in End : Sound(m[e])

(* Datagrams: those handed over, under way and queued, in the order of the *)
(* calls that made them.                                                   *)
DatagramFrames == {f \in Frames : f.k = "DATAGRAM"}

Rising(q, K) ==
    \A i, j \in 1 .. Len(q) : i < j /\ q[i] \in K /\ q[j] \in K => q[i].at < q[j].at
Before(q, K, r, L) ==
    \A i \in 1 .. Len(q), j \in 1 .. Len(r) :
        q[i] \in K /\ r[j] \in L => q[i].at < r[j].at
Fit(q, K, e) ==
    \A i \in 1 .. Len(q) :
        q[i] \in K => /\ q[i].n \in DatagramSizes
                      /\ datagram_frame_length(q[i].n) <= MaxDatagram[e]

Ordered(d, w, q, n, p) ==
    /\ Rising(d, Datagrams) /\ Rising(w, DatagramFrames) /\ Rising(q, Datagrams)
    /\ Before(d, Datagrams, w, DatagramFrames)
    /\ Before(d, Datagrams, q, Datagrams)
    /\ Before(w, DatagramFrames, q, Datagrams)
    /\ \A i \in 1 .. Len(d) : d[i].at < n
    /\ \A i \in 1 .. Len(w) : w[i] \in DatagramFrames => w[i].at < n
    /\ \A i \in 1 .. Len(q) : q[i].at < n /\ q[i].n \in DatagramSizes
    /\ Fit(d, Datagrams, p) /\ Fit(w, DatagramFrames, p)

DatagramsOrdered(e) ==
    Ordered(told[Peer(e)].dgrams, Flight(e), m[e].pending_datagrams, calls[e], Peer(e))

(* What has been put together of a datagram is what was read of it.        *)
PutTogether(p) ==
    offset[p] > 0 /\ Head(wire[Peer(p)]) \in DatagramFrames => m[p].buffer = offset[p]

(* The members of q that are in K follow each other without gap, from the  *)
(* byte a to the byte b.                                                   *)
Chain(q, K, a, b) ==
    /\ a <= b
    /\ \A i \in 1 .. Len(q) : q[i] \in K => a <= q[i].at /\ q[i].at + q[i].n <= b
    /\ \A i, j \in 1 .. Len(q) :
          i < j /\ q[i] \in K /\ q[j] \in K => q[i].at + q[i].n <= q[j].at
    /\ \A i \in 1 .. Len(q) :
          q[i] \in K /\ (\A j \in 1 .. i - 1 : q[j] \notin K) => q[i].at = a
    /\ \A i, j \in 1 .. Len(q) :
          /\ i < j /\ q[i] \in K /\ q[j] \in K
          /\ \A k \in i + 1 .. j - 1 : q[k] \notin K
          => q[j].at = q[i].at + q[i].n
    /\ \A i \in 1 .. Len(q) :
          q[i] \in K /\ (\A j \in i + 1 .. Len(q) : q[j] \notin K) => q[i].at + q[i].n = b
    /\ (\A i \in 1 .. Len(q) : q[i] \notin K) => a = b

FramesOf(s) == {f \in Frames : f.k = "STREAM" /\ f.s = s}
WritesOf(s) == {w \in Writes : w.s = s}

(* Where the first frame of s under way from e begins.                     *)
Start(e, s) ==
    LET p == Peer(e)
    IN  told[p].bytes[s] - (IF /\ offset[p] > 0
                               /\ Head(wire[e]) \in FramesOf(s)
                            THEN offset[p] ELSE 0)

(* Only the client opens streams: what names one comes after that.         *)
Opened(s) == m["client"].tx[s] # "none"
Names(q, s) == \E i \in 1 .. Len(q) : q[i].s = s
OpenedFirst(e) ==
    /\ \A s \in Streams : m[e].tx[s] # "none" <=> m[e].rx[s] # "none"
    /\ \A s \in Streams : m[e].tx[s] # "none" => Opened(s)
    /\ \A s \in Streams : Names(Flight(e), s) \/ Names(m[e].owed, s) => Opened(s)
    /\ \A s \in Streams : Names(m[e].pending_stream_data, s) => m[e].tx[s] # "none"
    /\ \A s \in Streams : m[e].tx[s] = "none" =>
          m[e].sent[s] = 0 /\ said[e][s].n = 0 /\ ~said[e][s].fin

(* FIN goes with the last byte written, and nothing is written after it.   *)
Closes(q, K, x) ==
    \A i \in 1 .. Len(q) : q[i] \in K /\ q[i].fin => x.fin /\ q[i].at + q[i].n = x.n
FinLast(e, s) ==
    /\ Closes(Flight(e), FramesOf(s), said[e][s])
    /\ Closes(m[e].pending_stream_data, WritesOf(s), said[e][s])
    /\ told[Peer(e)].fin[s] => said[e][s].fin

(* WithinCredit of what an application wrote.                              *)
Within(x) ==
    /\ \A s \in Streams : x[s].n <= MaxStreamData
    /\ FoldFunction(LAMBDA w, a : w.n + a, 0, x) <= MaxData

(* An application that stays within it loses nothing.                      *)
Whole(e, s) ==
    LET c == m[e]
        p == Peer(e)
        t == told[p]
    IN  /\ c.tx[s] \in {"none", "open"} =>
             Chain(c.pending_stream_data, WritesOf(s), c.sent[s], said[e][s].n)
        /\ c.sent[s] <= said[e][s].n
        /\ m[p].rx[s] \in {"none", "open"} =>
             Chain(Flight(e), FramesOf(s), Start(e, s), c.sent[s])
        /\ ~t.gap[s]
        /\ m[p].rx[s] \in {"none", "open"} => ~t.fin[s]
        /\ t.fin[s] => t.bytes[s] = said[e][s].n

DgInv == /\ \A e \in End : Reading(e) /\ PutTogether(e) /\ DatagramsOrdered(e)

StreamInv ==
    \A e \in End :
        /\ OpenedFirst(e)
        /\ \A s \in Streams : FinLast(e, s)
        /\ Within(said[e]) => \A s \in Streams : Whole(e, s)

-----------------------------------------------------------------------------
(* Sums over a finite set: a fold is a function defined by recursion over  *)
(* the subsets of the set, which exists because the set is finite.         *)

(* A set of natural numbers that is not empty has a least member.          *)
LEMMA LeastNat ==
    ASSUME NEW T, T \subseteq Nat, T # {}
    PROVE  \E z \in T : \A k \in T : z <= k
<1>1. PICK z \in T : \A k \in T : ~(<<k, z>> \in OpToRel(<, Nat))
  BY NatLessThanWellFounded, WFMin
<1>2. \A k \in T : ~(k < z)
  BY <1>1, Zenon DEF OpToRel
<1>3. \A k \in T : z <= k
  BY <1>2
<1> QED
  BY <1>3

(* The member a fold over s takes first.                                   *)
Pick(s) == CHOOSE x \in s : TRUE

(* I is the partial sums of f over the members of D; The, the function the *)
(* fold chooses; UpTo, the subsets of S of at most n members.              *)
Sums(f, D, I) ==
    I = [s \in D |-> IF s = {} THEN 0 ELSE f[Pick(s)] + I[s \ {Pick(s)}]]

The(f, D) ==
    CHOOSE I : I = [s \in D |-> IF s = {} THEN 0 ELSE f[Pick(s)] + I[s \ {Pick(s)}]]

UpTo(S, n) == {s \in SUBSET S : Cardinality(s) <= n}

LEMMA SumIsThe ==
    ASSUME NEW f, NEW S PROVE SumFunctionOnSet(f, S) = The(f, SUBSET S)[S]
BY Zenon DEF SumFunctionOnSet, FoldFunctionOnSet, MapThenFoldSet, The, Pick

LEMMA TheSums ==
    ASSUME NEW f, NEW D, NEW J, Sums(f, D, J) PROVE Sums(f, D, The(f, D))
BY Zenon DEF Sums, The

LEMMA PickFacts ==
    ASSUME NEW S, IsFiniteSet(S), NEW s \in SUBSET S, s # {}
    PROVE  /\ Pick(s) \in s /\ Pick(s) \in S
           /\ s \ {Pick(s)} \in SUBSET S
           /\ Cardinality(s) \in Nat /\ Cardinality(s) > 0
           /\ Cardinality(s \ {Pick(s)}) = Cardinality(s) - 1
<1>1. Pick(s) \in s
  BY DEF Pick
<1>2. IsFiniteSet(s)
  BY FS_Subset
<1>3. Cardinality(s) \in Nat /\ Cardinality(s) # 0
  BY <1>2, FS_CardinalityType, FS_EmptySet
<1>4. Cardinality(s \ {Pick(s)}) = Cardinality(s) - 1
  BY <1>1, <1>2, FS_RemoveElement
<1> QED
  BY <1>1, <1>3, <1>4

(* The partial sums exist: for the empty set, for one member more, and so  *)
(* for every subset of a finite set.                                       *)
LEMMA SumsStart ==
    ASSUME NEW f, NEW S, IsFiniteSet(S)
    PROVE  \E J : Sums(f, UpTo(S, 0), J)
<1> DEFINE J == [s \in UpTo(S, 0) |-> 0]
<1>1. ASSUME NEW s \in UpTo(S, 0), s # {} PROVE FALSE
  <2>1. s \in SUBSET S /\ Cardinality(s) <= 0
    BY DEF UpTo
  <2>2. Cardinality(s) \in Nat /\ Cardinality(s) > 0
    BY <1>1, <2>1, PickFacts
  <2> QED
    BY <2>1, <2>2
<1>2. J = [s \in UpTo(S, 0) |->
             IF s = {} THEN 0 ELSE f[Pick(s)] + J[s \ {Pick(s)}]]
  BY <1>1
<1> HIDE DEF J
<1> QED
  BY <1>2 DEF Sums

LEMMA SumsNext ==
    ASSUME NEW f, NEW S, IsFiniteSet(S), NEW n \in Nat,
           NEW J, Sums(f, UpTo(S, n), J)
    PROVE  \E K : Sums(f, UpTo(S, n + 1), K)
<1> DEFINE K == [s \in UpTo(S, n + 1) |->
                   IF s = {} THEN 0 ELSE f[Pick(s)] + J[s \ {Pick(s)}]]
<1>1. \A s \in UpTo(S, n + 1) : s # {} => s \ {Pick(s)} \in UpTo(S, n)
  BY PickFacts DEF UpTo
<1>2. \A s \in UpTo(S, n) : s \in UpTo(S, n + 1)
  <2> TAKE s \in UpTo(S, n)
  <2>1. s \in SUBSET S /\ Cardinality(s) <= n
    BY DEF UpTo
  <2>2. Cardinality(s) \in Nat
    BY <2>1, FS_Subset, FS_CardinalityType
  <2> QED
    BY <2>1, <2>2 DEF UpTo
<1>3. \A s \in UpTo(S, n) : K[s] = J[s]
  BY <1>2 DEF Sums
<1>4. K = [s \in UpTo(S, n + 1) |->
             IF s = {} THEN 0 ELSE f[Pick(s)] + K[s \ {Pick(s)}]]
  BY <1>1, <1>3
<1> HIDE DEF K
<1> QED
  BY <1>4 DEF Sums

LEMMA SumsExist ==
    ASSUME NEW f, NEW S, IsFiniteSet(S)
    PROVE  \E J : Sums(f, SUBSET S, J)
<1> DEFINE T == {n \in Nat : ~ \E J : Sums(f, UpTo(S, n), J)}
<1>1. T = {}
  <2> SUFFICES ASSUME T # {} PROVE FALSE
    OBVIOUS
  <2>1. PICK z \in T : \A k \in T : z <= k
    BY LeastNat
  <2>2. z # 0
    BY SumsStart
  <2>3. z - 1 \in Nat /\ z - 1 \notin T
    BY <2>1, <2>2
  <2>4. PICK J : Sums(f, UpTo(S, z - 1), J)
    BY <2>3
  <2>5. \E K : Sums(f, UpTo(S, z - 1 + 1), K)
    BY <2>3, <2>4, SumsNext
  <2>6. z - 1 + 1 = z
    BY <2>1
  <2> QED
    BY <2>5, <2>6
<1>2. Cardinality(S) \in Nat
  BY FS_CardinalityType
<1>3. UpTo(S, Cardinality(S)) = SUBSET S
  <2>1. \A s \in SUBSET S : Cardinality(s) <= Cardinality(S)
    BY FS_Subset
  <2> QED
    BY <2>1 DEF UpTo
<1>4. \E J : Sums(f, UpTo(S, Cardinality(S)), J)
  BY <1>1, <1>2
<1> QED
  BY <1>3, <1>4

(* So the fold computes what its body says.                                *)
Unfolds(I, f, S) ==
    \A s \in SUBSET S : I[s] = IF s = {} THEN 0 ELSE f[Pick(s)] + I[s \ {Pick(s)}]

LEMMA SumUnfolds ==
    ASSUME NEW f, NEW S, IsFiniteSet(S)
    PROVE  Unfolds(The(f, SUBSET S), f, S)
<1> DEFINE I == The(f, SUBSET S)
<1>1. Sums(f, SUBSET S, I)
  BY SumsExist, TheSums
<1> HIDE DEF I
<1>2. Unfolds(I, f, S)
  BY <1>1 DEF Sums, Unfolds
<1> QED
  BY <1>2 DEF I

(* Induction over the subsets of S, as a smallest counterexample.          *)
LEMMA SmallestSubset ==
    ASSUME NEW S, IsFiniteSet(S), NEW T, T \subseteq SUBSET S, T # {}
    PROVE  \E s \in T : s = {} \/ s \ {Pick(s)} \notin T
<1> DEFINE N == {Cardinality(s) : s \in T}
<1>1. \A s \in T : Cardinality(s) \in Nat
  BY FS_Subset, FS_CardinalityType
<1>2. N \subseteq Nat /\ N # {}
  BY <1>1
<1>3. PICK z \in N : \A k \in N : z <= k
  BY <1>2, LeastNat
<1>4. PICK s \in T : z = Cardinality(s)
  BY <1>3
<1>5. ASSUME s # {}, s \ {Pick(s)} \in T PROVE FALSE
  <2>1. Cardinality(s \ {Pick(s)}) \in N
    BY <1>5
  <2>2. Cardinality(s \ {Pick(s)}) = Cardinality(s) - 1 /\ Cardinality(s) \in Nat
    BY <1>5, PickFacts
  <2>3. z <= Cardinality(s \ {Pick(s)})
    BY <1>3, <2>1
  <2> QED
    BY <1>4, <2>2, <2>3
<1> QED
  BY <1>5

LEMMA SumZero ==
    ASSUME NEW f, NEW S, IsFiniteSet(S), \A x \in S : f[x] = 0
    PROVE  SumFunctionOnSet(f, S) = 0
<1> DEFINE I == The(f, SUBSET S)
           T == {s \in SUBSET S : I[s] # 0}
<1>0. Unfolds(I, f, S)
  BY SumUnfolds
<1>1. T = {}
  <2> SUFFICES ASSUME T # {} PROVE FALSE
    OBVIOUS
  <2> HIDE DEF I
  <2>1. PICK s \in T : s = {} \/ s \ {Pick(s)} \notin T
    BY SmallestSubset
  <2>2. s # {}
    BY <1>0 DEF Unfolds
  <2>3. Pick(s) \in S /\ s \ {Pick(s)} \in SUBSET S
    BY <2>2, PickFacts
  <2>4. I[s \ {Pick(s)}] = 0
    BY <2>1, <2>2, <2>3
  <2>5. I[s] = f[Pick(s)] + I[s \ {Pick(s)}]
    BY <1>0, <2>2 DEF Unfolds
  <2> QED
    BY <2>3, <2>4, <2>5
<1> QED
  BY <1>1, SumIsThe

(* Changing f at one member changes the sum by as much.                    *)
LEMMA SumUpdate ==
    ASSUME NEW S, IsFiniteSet(S), NEW f \in [S -> Nat], NEW g \in [S -> Nat],
           NEW a \in S, \A x \in S : x # a => g[x] = f[x]
    PROVE  /\ SumFunctionOnSet(f, S) \in Nat /\ SumFunctionOnSet(g, S) \in Nat
           /\ SumFunctionOnSet(g, S) = SumFunctionOnSet(f, S) - f[a] + g[a]
<1> DEFINE I == The(f, SUBSET S)
           K == The(g, SUBSET S)
           Good(s) == /\ I[s] \in Nat /\ K[s] \in Nat
                      /\ K[s] = IF a \in s THEN I[s] - f[a] + g[a] ELSE I[s]
           T == {s \in SUBSET S : ~Good(s)}
<1>0. Unfolds(I, f, S) /\ Unfolds(K, g, S)
  BY SumUnfolds
<1>1. T = {}
  <2> SUFFICES ASSUME T # {} PROVE FALSE
    OBVIOUS
  <2> HIDE DEF I, K
  <2>1. PICK s \in T : s = {} \/ s \ {Pick(s)} \notin T
    BY SmallestSubset
  <2>2. s # {}
    <3> SUFFICES ASSUME s = {} PROVE FALSE
      OBVIOUS
    <3>1. I[s] = 0 /\ K[s] = 0 /\ a \notin s
      BY <1>0 DEF Unfolds
    <3> QED
      BY <2>1, <3>1
  <2>3. Pick(s) \in s /\ Pick(s) \in S /\ s \ {Pick(s)} \in SUBSET S
    BY <2>2, PickFacts
  <2>4. Good(s \ {Pick(s)})
    BY <2>1, <2>2, <2>3
  <2>5. I[s] = f[Pick(s)] + I[s \ {Pick(s)}] /\ K[s] = g[Pick(s)] + K[s \ {Pick(s)}]
    BY <1>0, <2>2 DEF Unfolds
  <2>6. f[Pick(s)] \in Nat /\ g[Pick(s)] \in Nat /\ f[a] \in Nat /\ g[a] \in Nat
    BY <2>3
  <2>7. CASE Pick(s) = a
    BY <2>1, <2>3, <2>4, <2>5, <2>6, <2>7
  <2>8. CASE Pick(s) # a
    <3>1. g[Pick(s)] = f[Pick(s)] /\ (a \in s <=> a \in s \ {Pick(s)})
      BY <2>3, <2>8
    <3> QED
      BY <2>1, <2>3, <2>4, <2>5, <2>6, <3>1
  <2> QED
    BY <2>7, <2>8
<1> QED
  BY <1>1, SumIsThe

(* Whatever satisfies the recursion ends in the sum.                       *)
LEMMA SumUnique ==
    ASSUME NEW f, NEW S, IsFiniteSet(S), NEW K, Sums(f, SUBSET S, K)
    PROVE  K[S] = SumFunctionOnSet(f, S)
<1> DEFINE I == The(f, SUBSET S)
           T == {s \in SUBSET S : I[s] # K[s]}
<1>0. Unfolds(I, f, S)
  BY SumUnfolds
<1>a. Unfolds(K, f, S)
  BY DEF Sums, Unfolds
<1>1. T = {}
  <2> SUFFICES ASSUME T # {} PROVE FALSE
    OBVIOUS
  <2> HIDE DEF I
  <2>1. PICK s \in T : s = {} \/ s \ {Pick(s)} \notin T
    BY SmallestSubset
  <2>2. s # {}
    BY <1>0, <1>a DEF Unfolds
  <2>3. Pick(s) \in S /\ s \ {Pick(s)} \in SUBSET S
    BY <2>2, PickFacts
  <2>4. I[s \ {Pick(s)}] = K[s \ {Pick(s)}]
    BY <2>1, <2>2, <2>3
  <2>5. I[s] = f[Pick(s)] + I[s \ {Pick(s)}] /\ K[s] = f[Pick(s)] + K[s \ {Pick(s)}]
    BY <1>0, <1>a, <2>2 DEF Unfolds
  <2> QED
    BY <2>4, <2>5
<1> QED
  BY <1>1, SumIsThe

LEMMA SumNat ==
    ASSUME NEW S, IsFiniteSet(S), NEW f \in [S -> Nat]
    PROVE  SumFunctionOnSet(f, S) \in Nat
<1>1. CASE S = {}
  BY <1>1, SumZero
<1>2. CASE S # {}
  <2>1. PICK a \in S : TRUE
    BY <1>2
  <2> QED
    BY <2>1, SumUpdate
<1> QED
  BY <1>1, <1>2

(* The sum of less is less.                                                *)
LEMMA SumLess ==
    ASSUME NEW S, IsFiniteSet(S), NEW f \in [S -> Nat], NEW g \in [S -> Nat],
           \A x \in S : f[x] <= g[x], NEW a \in S, f[a] < g[a]
    PROVE  SumFunctionOnSet(f, S) < SumFunctionOnSet(g, S)
<1> DEFINE I == The(f, SUBSET S)
           K == The(g, SUBSET S)
           Good(s) == /\ I[s] \in Nat /\ K[s] \in Nat /\ I[s] <= K[s]
                      /\ a \in s => I[s] < K[s]
           T == {s \in SUBSET S : ~Good(s)}
<1>0. Unfolds(I, f, S) /\ Unfolds(K, g, S)
  BY SumUnfolds
<1>1. T = {}
  <2> SUFFICES ASSUME T # {} PROVE FALSE
    OBVIOUS
  <2> HIDE DEF I, K
  <2>1. PICK s \in T : s = {} \/ s \ {Pick(s)} \notin T
    BY SmallestSubset
  <2>2. s # {}
    <3> SUFFICES ASSUME s = {} PROVE FALSE
      OBVIOUS
    <3>1. I[s] = 0 /\ K[s] = 0 /\ a \notin s
      BY <1>0 DEF Unfolds
    <3> QED
      BY <2>1, <3>1
  <2>3. Pick(s) \in s /\ Pick(s) \in S /\ s \ {Pick(s)} \in SUBSET S
    BY <2>2, PickFacts
  <2>4. Good(s \ {Pick(s)})
    BY <2>1, <2>2, <2>3
  <2>5. I[s] = f[Pick(s)] + I[s \ {Pick(s)}] /\ K[s] = g[Pick(s)] + K[s \ {Pick(s)}]
    BY <1>0, <2>2 DEF Unfolds
  <2>6. f[Pick(s)] \in Nat /\ g[Pick(s)] \in Nat /\ f[Pick(s)] <= g[Pick(s)]
    BY <2>3
  <2>7. CASE Pick(s) = a
    BY <2>1, <2>3, <2>4, <2>5, <2>6, <2>7
  <2>8. CASE Pick(s) # a
    <3>1. a \in s <=> a \in s \ {Pick(s)}
      BY <2>8
    <3> QED
      BY <2>1, <2>3, <2>4, <2>5, <2>6, <3>1
  <2> QED
    BY <2>7, <2>8
<1>2. I[S] < K[S]
  BY <1>1
<1> QED
  BY <1>2, SumIsThe

(* The folds of QMux are such sums.                                        *)
LEMMA SentIsSum ==
    ASSUME NEW f
    PROVE  FoldFunction(LAMBDA a, b : a + b, 0, f) = SumFunctionOnSet(f, DOMAIN f)
BY Zenon DEF FoldFunction, SumFunctionOnSet, FoldFunctionOnSet, MapThenFoldSet

Lengths(g) == [s \in DOMAIN g |-> g[s].n]

TheSaid(g, D) ==
    CHOOSE I : I = [s \in D |-> IF s = {} THEN 0 ELSE g[Pick(s)].n + I[s \ {Pick(s)}]]

LEMMA SaidIsThe ==
    ASSUME NEW g
    PROVE  FoldFunction(LAMBDA w, a : w.n + a, 0, g) = TheSaid(g, SUBSET DOMAIN g)[DOMAIN g]
BY Zenon DEF FoldFunction, FoldFunctionOnSet, MapThenFoldSet, TheSaid, Pick

SaidSums(g, D, I) ==
    I = [s \in D |-> IF s = {} THEN 0 ELSE g[Pick(s)].n + I[s \ {Pick(s)}]]

LEMMA TheSaidSums ==
    ASSUME NEW g, NEW D, NEW J, SaidSums(g, D, J) PROVE SaidSums(g, D, TheSaid(g, D))
BY Zenon DEF SaidSums, TheSaid

LEMMA SaidSame ==
    ASSUME NEW g, IsFiniteSet(DOMAIN g), NEW J
    PROVE  SaidSums(g, SUBSET DOMAIN g, J) <=> Sums(Lengths(g), SUBSET DOMAIN g, J)
<1>1. \A s \in SUBSET DOMAIN g : s # {} => Lengths(g)[Pick(s)] = g[Pick(s)].n
  BY PickFacts DEF Lengths
<1>2. [s \in SUBSET DOMAIN g |->
         IF s = {} THEN 0 ELSE g[Pick(s)].n + J[s \ {Pick(s)}]] =
      [s \in SUBSET DOMAIN g |->
         IF s = {} THEN 0 ELSE Lengths(g)[Pick(s)] + J[s \ {Pick(s)}]]
  BY <1>1
<1> QED
  BY <1>2 DEF SaidSums, Sums

LEMMA SaidIsSum ==
    ASSUME NEW g, IsFiniteSet(DOMAIN g)
    PROVE  FoldFunction(LAMBDA w, a : w.n + a, 0, g) =
             SumFunctionOnSet(Lengths(g), DOMAIN g)
<1> DEFINE K == TheSaid(g, SUBSET DOMAIN g)
<1>1. PICK J : Sums(Lengths(g), SUBSET DOMAIN g, J)
  BY SumsExist
<1>2. SaidSums(g, SUBSET DOMAIN g, J)
  BY <1>1, SaidSame
<1>3. SaidSums(g, SUBSET DOMAIN g, K)
  BY <1>2, TheSaidSums
<1>4. Sums(Lengths(g), SUBSET DOMAIN g, K)
  BY <1>3, SaidSame
<1>5. K[DOMAIN g] = SumFunctionOnSet(Lengths(g), DOMAIN g)
  BY <1>4, SumUnique
<1> QED
  BY <1>5, SaidIsThe

(* Control frames take no room.                                            *)
TheSize(q, D) ==
    CHOOSE I : I = [s \in D |->
        IF s = {} THEN 0 ELSE I[s \ {Pick(s)}] + FrameSize(q[Pick(s)])]

Sizes(q, D, I) ==
    I = [s \in D |-> IF s = {} THEN 0 ELSE I[s \ {Pick(s)}] + FrameSize(q[Pick(s)])]

LEMMA SizeIsThe ==
    ASSUME NEW q
    PROVE  FoldSeq(LAMBDA f, a : a + FrameSize(f), 0, q) =
             TheSize(q, SUBSET DOMAIN q)[DOMAIN q]
BY Zenon DEF FoldSeq, FoldFunction, FoldFunctionOnSet, MapThenFoldSet, TheSize, Pick

LEMMA TheSizes ==
    ASSUME NEW q, NEW D, NEW J, Sizes(q, D, J) PROVE Sizes(q, D, TheSize(q, D))
BY Zenon DEF Sizes, TheSize

LEMMA SizeZero ==
    ASSUME NEW q, IsFiniteSet(DOMAIN q), \A i \in DOMAIN q : FrameSize(q[i]) = 0
    PROVE  FoldSeq(LAMBDA f, a : a + FrameSize(f), 0, q) = 0
<1> DEFINE S == DOMAIN q
           J == [s \in SUBSET S |-> 0]
           K == TheSize(q, SUBSET S)
           T == {s \in SUBSET S : K[s] # 0}
<1>0. \A s \in SUBSET S : s # {} =>
        s \ {Pick(s)} \in SUBSET S /\ FrameSize(q[Pick(s)]) = 0
  BY PickFacts
<1>1. Sizes(q, SUBSET S, J)
  <2>1. J = [s \in SUBSET S |->
               IF s = {} THEN 0 ELSE J[s \ {Pick(s)}] + FrameSize(q[Pick(s)])]
    BY <1>0
  <2> HIDE DEF J
  <2> QED
    BY <2>1 DEF Sizes
<1>2. Sizes(q, SUBSET S, K)
  BY <1>1, TheSizes
<1>3. T = {}
  <2> SUFFICES ASSUME T # {} PROVE FALSE
    OBVIOUS
  <2> HIDE DEF K, S
  <2>0. IsFiniteSet(S)
    BY DEF S
  <2>1. PICK s \in T : s = {} \/ s \ {Pick(s)} \notin T
    BY <2>0, SmallestSubset
  <2>2. \A t \in SUBSET S :
          K[t] = IF t = {} THEN 0 ELSE K[t \ {Pick(t)}] + FrameSize(q[Pick(t)])
    BY <1>2 DEF Sizes
  <2>3. s # {}
    BY <2>2
  <2>4. K[s \ {Pick(s)}] = 0 /\ FrameSize(q[Pick(s)]) = 0
    BY <1>0, <2>1, <2>3
  <2>5. K[s] = K[s \ {Pick(s)}] + FrameSize(q[Pick(s)])
    BY <2>2, <2>3
  <2> QED
    BY <2>4, <2>5
<1>4. K[S] = 0
  BY <1>3
<1> QED
  BY <1>4, SizeIsThe

-----------------------------------------------------------------------------
(* Sequences.                                                              *)

LEMMA ConcatAppend ==
    ASSUME NEW X, NEW p \in Seq(X), NEW q \in Seq(X), NEW x \in X
    PROVE  p \o Append(q, x) = Append(p \o q, x)
OBVIOUS

LEMMA ConcatTail ==
    ASSUME NEW X, NEW p \in Seq(X), NEW q \in Seq(X), p # <<>>
    PROVE  /\ Head(p \o q) = Head(p) /\ (p \o q)[1] = Head(p)
           /\ Tail(p \o q) = Tail(p) \o q
           /\ p \o q # <<>>
<1>1. p \o q # <<>> /\ Len(p) > 0 /\ Len(p \o q) = Len(p) + Len(q)
  OBVIOUS
<1>2. Head(p \o q) = Head(p) /\ (p \o q)[1] = Head(p)
  BY <1>1
<1>3. Tail(p \o q) = Tail(p) \o q
  <2>1. Tail(p \o q) \in Seq(X) /\ Tail(p) \o q \in Seq(X)
    BY <1>1
  <2>2. Len(Tail(p \o q)) = Len(Tail(p) \o q)
    BY <1>1
  <2>3. \A i \in 1 .. Len(Tail(p \o q)) : Tail(p \o q)[i] = (Tail(p) \o q)[i]
    BY <1>1
  <2> QED
    BY <2>1, <2>2, <2>3
<1> QED
  BY <1>1, <1>2, <1>3

(* The members of K under consideration have a place and a length.         *)
Measured(K) == \A x \in K : x.at \in Nat /\ x.n \in Nat

LEMMA ChainSkip ==
    ASSUME NEW X, NEW q \in Seq(X), NEW x \in X, NEW K, x \notin K,
           NEW a \in Int, NEW b \in Int, Chain(q, K, a, b)
    PROVE  Chain(Append(q, x), K, a, b)
<1> DEFINE r == Append(q, x)
<1>0. /\ Len(r) = Len(q) + 1 /\ Len(q) \in Nat /\ r[Len(q) + 1] \notin K
      /\ \A i \in 1 .. Len(q) : r[i] = q[i]
  OBVIOUS
<1> HIDE DEF r
<1>1. \A i \in 1 .. Len(r) : r[i] \in K => i \in 1 .. Len(q)
  BY <1>0
<1>2. \A i \in 1 .. Len(r) : r[i] \in K => a <= r[i].at /\ r[i].at + r[i].n <= b
  BY <1>0, <1>1 DEF Chain
<1>3. \A i \in 1 .. Len(r) :
        r[i] \in K /\ (\A j \in 1 .. i - 1 : r[j] \notin K) => r[i].at = a
  BY <1>0, <1>1, SMTT(60) DEF Chain
<1>4. ASSUME NEW i \in 1 .. Len(r), NEW j \in 1 .. Len(r),
             i < j, r[i] \in K, r[j] \in K, \A k \in i + 1 .. j - 1 : r[k] \notin K
      PROVE  r[j].at = r[i].at + r[i].n
  <2>1. i \in 1 .. Len(q) /\ j \in 1 .. Len(q)
    BY <1>1, <1>4
  <2>2. \A k \in i + 1 .. j - 1 : q[k] \notin K
    BY <1>0, <1>4, <2>1
  <2> QED
    BY <1>0, <1>4, <2>1, <2>2 DEF Chain
<1>5. ASSUME NEW i \in 1 .. Len(r), r[i] \in K, \A j \in i + 1 .. Len(r) : r[j] \notin K
      PROVE  r[i].at + r[i].n = b
  <2>1. i \in 1 .. Len(q)
    BY <1>1, <1>5
  <2>2. \A j \in i + 1 .. Len(q) : q[j] \notin K
    BY <1>0, <1>5, <2>1
  <2> QED
    BY <1>0, <1>5, <2>1, <2>2 DEF Chain
<1>6. (\A i \in 1 .. Len(r) : r[i] \notin K) => a = b
  BY <1>0 DEF Chain
<1>7. \A i, j \in 1 .. Len(r) :
        i < j /\ r[i] \in K /\ r[j] \in K => r[i].at + r[i].n <= r[j].at
  BY <1>0, <1>1 DEF Chain
<1>8. Chain(r, K, a, b)
  BY <1>2, <1>3, <1>4, <1>5, <1>6, <1>7 DEF Chain
<1> QED
  BY <1>8 DEF r

LEMMA ChainAppend ==
    ASSUME NEW X, NEW q \in Seq(X), NEW x \in X, NEW K, x \in K, Measured(K),
           NEW a \in Int, NEW b \in Int, Chain(q, K, a, b), x.at = b
    PROVE  Chain(Append(q, x), K, a, b + x.n)
<1> DEFINE r == Append(q, x)
<1>0. /\ Len(r) = Len(q) + 1 /\ Len(q) \in Nat /\ r[Len(q) + 1] = x
      /\ \A i \in 1 .. Len(q) : r[i] = q[i]
      /\ \A i \in 1 .. Len(r) : i \in 1 .. Len(q) \/ i = Len(q) + 1
  OBVIOUS
<1>a. x.n \in Nat /\ a <= b /\ \A y \in K : y.at \in Nat /\ y.n \in Nat
  BY DEF Measured, Chain
<1> HIDE DEF r
<1>2. ASSUME NEW i \in 1 .. Len(r), r[i] \in K
      PROVE  a <= r[i].at /\ r[i].at + r[i].n <= b + x.n
  <2>1. CASE i \in 1 .. Len(q)
    <3>1. q[i] \in K /\ r[i] = q[i]
      BY <1>0, <1>2, <2>1
    <3>2. a <= q[i].at /\ q[i].at + q[i].n <= b
      BY <2>1, <3>1 DEF Chain
    <3> QED
      BY <1>a, <3>1, <3>2, SMTT(30)
  <2>2. CASE i = Len(q) + 1
    BY <1>0, <1>a, <2>2
  <2> QED
    BY <1>0, <2>1, <2>2
<1>3. ASSUME NEW i \in 1 .. Len(r), r[i] \in K, \A j \in 1 .. i - 1 : r[j] \notin K
      PROVE  r[i].at = a
  <2>1. CASE i \in 1 .. Len(q)
    <3>1. q[i] \in K /\ r[i] = q[i] /\ \A j \in 1 .. i - 1 : q[j] \notin K
      BY <1>0, <1>3, <2>1
    <3> QED
      BY <2>1, <3>1 DEF Chain
  <2>2. CASE i = Len(q) + 1
    <3>1. \A j \in 1 .. Len(q) : q[j] \notin K
      BY <1>0, <1>3, <2>2
    <3> QED
      BY <1>0, <2>2, <3>1 DEF Chain
  <2> QED
    BY <1>0, <2>1, <2>2
<1>4. ASSUME NEW i \in 1 .. Len(r), NEW j \in 1 .. Len(r),
             i < j, r[i] \in K, r[j] \in K, \A k \in i + 1 .. j - 1 : r[k] \notin K
      PROVE  r[j].at = r[i].at + r[i].n
  <2>0. i \in 1 .. Len(q) /\ r[i] = q[i] /\ q[i] \in K
    BY <1>0, <1>4
  <2>1. CASE j \in 1 .. Len(q)
    <3>1. \A k \in i + 1 .. j - 1 : q[k] \notin K
      BY <1>0, <1>4, <2>0, <2>1, SMTT(30)
    <3>2. r[j] = q[j] /\ q[j] \in K
      BY <1>0, <1>4, <2>1
    <3> QED
      BY <1>4, <2>0, <2>1, <3>1, <3>2 DEF Chain
  <2>2. CASE j = Len(q) + 1
    <3>1. \A k \in i + 1 .. Len(q) : q[k] \notin K
      BY <1>0, <1>4, <2>0, <2>2
    <3>2. q[i].at + q[i].n = b
      BY <2>0, <3>1 DEF Chain
    <3> QED
      BY <1>0, <2>0, <2>2, <3>2
  <2> QED
    BY <1>0, <2>1, <2>2
<1>5. ASSUME NEW i \in 1 .. Len(r), r[i] \in K, \A j \in i + 1 .. Len(r) : r[j] \notin K
      PROVE  r[i].at + r[i].n = b + x.n
  <2>1. i = Len(q) + 1
    BY <1>0, <1>5
  <2> QED
    BY <1>0, <2>1
<1>6. (\A i \in 1 .. Len(r) : r[i] \notin K) => a = b + x.n
  BY <1>0
<1>7. ASSUME NEW i \in 1 .. Len(r), NEW j \in 1 .. Len(r), i < j, r[i] \in K, r[j] \in K
      PROVE  r[i].at + r[i].n <= r[j].at
  <2>0. i \in 1 .. Len(q) /\ r[i] = q[i] /\ q[i] \in K
    BY <1>0, <1>7
  <2>1. CASE j \in 1 .. Len(q)
    <3>1. r[j] = q[j] /\ q[j] \in K
      BY <1>0, <1>7, <2>1
    <3> QED
      BY <1>7, <2>0, <2>1, <3>1 DEF Chain
  <2>2. CASE j = Len(q) + 1
    BY <1>0, <2>0, <2>2 DEF Chain
  <2> QED
    BY <1>0, <2>1, <2>2
<1>8. Chain(r, K, a, b + x.n)
  BY <1>a, <1>2, <1>3, <1>4, <1>5, <1>6, <1>7 DEF Chain
<1> QED
  BY <1>8 DEF r

(* The first member goes: a member of K, or not.                           *)
LEMMA ChainTail ==
    ASSUME NEW X, NEW q \in Seq(X), q # <<>>, NEW K, Measured(K),
           NEW a \in Int, NEW b \in Int, Chain(q, K, a, b),
           NEW c \in Int, c = IF q[1] \in K THEN a + q[1].n ELSE a
    PROVE  Chain(Tail(q), K, c, b)
<1> DEFINE r == Tail(q)
<1>0. /\ Len(r) = Len(q) - 1 /\ Len(q) \in Nat /\ Len(q) > 0
      /\ \A i \in 1 .. Len(r) : r[i] = q[i + 1] /\ i + 1 \in 1 .. Len(q)
  OBVIOUS
<1>b. \A i \in 2 .. Len(q) : i - 1 \in 1 .. Len(r) /\ q[i] = r[i - 1]
  BY <1>0
<1>a. /\ a <= b /\ \A y \in K : y.at \in Nat /\ y.n \in Nat
      /\ q[1] \in K => q[1].at = a /\ q[1].at + q[1].n <= b
  BY <1>0 DEF Measured, Chain
<1> HIDE DEF r
<1>2. ASSUME NEW i \in 1 .. Len(r), r[i] \in K
      PROVE  c <= r[i].at /\ r[i].at + r[i].n <= b
  <2>0. q[i + 1] \in K /\ r[i] = q[i + 1] /\ i + 1 \in 1 .. Len(q) /\ 1 < i + 1
    BY <1>0, <1>2
  <2>1. a <= q[i + 1].at /\ q[i + 1].at + q[i + 1].n <= b
    BY <2>0 DEF Chain
  <2>2. CASE q[1] \in K
    <3>1. 1 \in 1 .. Len(q)
      BY <1>0
    <3>2. q[1].at + q[1].n <= q[i + 1].at
      BY <2>0, <2>2, <3>1 DEF Chain
    <3> QED
      BY <1>a, <2>0, <2>1, <2>2, <3>2
  <2> QED
    BY <2>0, <2>1, <2>2
<1>3. ASSUME NEW i \in 1 .. Len(r), r[i] \in K, \A j \in 1 .. i - 1 : r[j] \notin K
      PROVE  r[i].at = c
  <2>0. q[i + 1] \in K /\ r[i] = q[i + 1] /\ i + 1 \in 1 .. Len(q) /\ i \in Nat
    BY <1>0, <1>3
  <2>1. \A j \in 2 .. i : q[j] \notin K
    <3> TAKE j \in 2 .. i
    <3>1. j - 1 \in 1 .. i - 1 /\ r[j - 1] = q[j]
      BY <1>b, <2>0
    <3> QED
      BY <1>3, <3>1
  <2>2. CASE q[1] \in K
    <3>1. 1 \in 1 .. Len(q) /\ 1 < i + 1 /\ \A k \in 1 + 1 .. i + 1 - 1 : q[k] \notin K
      BY <1>0, <2>0, <2>1
    <3>2. q[i + 1].at = q[1].at + q[1].n
      BY <2>0, <2>2, <3>1 DEF Chain
    <3> QED
      BY <1>a, <2>0, <2>2, <3>2
  <2>3. CASE q[1] \notin K
    <3>1. \A j \in 1 .. i + 1 - 1 : q[j] \notin K
      BY <2>0, <2>1, <2>3
    <3> QED
      BY <2>0, <2>3, <3>1 DEF Chain
  <2> QED
    BY <2>2, <2>3
<1>4. ASSUME NEW i \in 1 .. Len(r), NEW j \in 1 .. Len(r),
             i < j, r[i] \in K, r[j] \in K, \A k \in i + 1 .. j - 1 : r[k] \notin K
      PROVE  r[j].at = r[i].at + r[i].n
  <2>a. q[i + 1] \in K /\ r[i] = q[i + 1] /\ i + 1 \in 1 .. Len(q) /\ i \in Nat
    BY <1>0, <1>4
  <2>b. q[j + 1] \in K /\ r[j] = q[j + 1] /\ j + 1 \in 1 .. Len(q) /\ j \in Nat
    BY <1>0, <1>4
  <2>0. i + 1 < j + 1
    BY <1>4, <2>a, <2>b
  <2>1. \A k \in i + 1 + 1 .. j + 1 - 1 : q[k] \notin K
    <3> TAKE k \in i + 1 + 1 .. j + 1 - 1
    <3>1. k - 1 \in i + 1 .. j - 1 /\ k \in 2 .. Len(q) /\ r[k - 1] = q[k]
      BY <1>0, <1>b, <2>a, <2>b
    <3> QED
      BY <1>4, <3>1
  <2> QED
    BY <2>0, <2>1, <2>a, <2>b DEF Chain
<1>5. ASSUME NEW i \in 1 .. Len(r), r[i] \in K, \A j \in i + 1 .. Len(r) : r[j] \notin K
      PROVE  r[i].at + r[i].n = b
  <2>0. q[i + 1] \in K /\ r[i] = q[i + 1] /\ i + 1 \in 1 .. Len(q) /\ i \in Nat
    BY <1>0, <1>5
  <2>1. \A j \in i + 1 + 1 .. Len(q) : q[j] \notin K
    <3> TAKE j \in i + 1 + 1 .. Len(q)
    <3>1. j - 1 \in i + 1 .. Len(r) /\ r[j - 1] = q[j]
      BY <1>0, <1>b, <2>0
    <3> QED
      BY <1>5, <3>1
  <2> QED
    BY <2>0, <2>1 DEF Chain
<1>6. ASSUME \A i \in 1 .. Len(r) : r[i] \notin K PROVE c = b
  <2>1. \A j \in 1 + 1 .. Len(q) : q[j] \notin K
    BY <1>b, <1>6
  <2>2. CASE q[1] \in K
    <3>1. 1 \in 1 .. Len(q)
      BY <1>0
    <3>2. q[1].at + q[1].n = b
      BY <2>1, <2>2, <3>1 DEF Chain
    <3> QED
      BY <1>a, <2>2, <3>2
  <2>3. CASE q[1] \notin K
    <3>1. \A i \in 1 .. Len(q) : q[i] \notin K
      BY <2>1, <2>3
    <3> QED
      BY <2>3, <3>1 DEF Chain
  <2> QED
    BY <2>2, <2>3
<1>7. c <= b
  BY <1>a
<1>8. ASSUME NEW i \in 1 .. Len(r), NEW j \in 1 .. Len(r), i < j, r[i] \in K, r[j] \in K
      PROVE  r[i].at + r[i].n <= r[j].at
  <2>0. /\ q[i + 1] \in K /\ r[i] = q[i + 1] /\ i + 1 \in 1 .. Len(q)
        /\ q[j + 1] \in K /\ r[j] = q[j + 1] /\ j + 1 \in 1 .. Len(q)
        /\ i + 1 < j + 1
    BY <1>0, <1>8
  <2> QED
    BY <2>0 DEF Chain
<1>9. Chain(r, K, c, b)
  BY <1>2, <1>3, <1>4, <1>5, <1>6, <1>7, <1>8 DEF Chain
<1> QED
  BY <1>9 DEF r

LEMMA ChainConcat ==
    ASSUME NEW X, NEW q \in Seq(X), NEW o \in Seq(X), NEW K,
           \A i \in 1 .. Len(o) : o[i] \notin K,
           NEW a \in Int, NEW b \in Int, Chain(q, K, a, b)
    PROVE  Chain(q \o o, K, a, b)
<1> DEFINE r == q \o o
<1>0. /\ Len(r) = Len(q) + Len(o) /\ Len(q) \in Nat /\ Len(o) \in Nat
      /\ \A i \in 1 .. Len(q) : r[i] = q[i] /\ i \in 1 .. Len(r)
      /\ \A i \in Len(q) + 1 .. Len(r) : r[i] = o[i - Len(q)] /\ i - Len(q) \in 1 .. Len(o)
  OBVIOUS
<1> HIDE DEF r
<1>1. \A i \in 1 .. Len(r) : r[i] \in K => i \in 1 .. Len(q)
  BY <1>0, SMTT(30)
<1>2. \A i \in 1 .. Len(r) : r[i] \in K => a <= r[i].at /\ r[i].at + r[i].n <= b
  BY <1>0, <1>1 DEF Chain
<1>3. ASSUME NEW i \in 1 .. Len(r), r[i] \in K, \A j \in 1 .. i - 1 : r[j] \notin K
      PROVE  r[i].at = a
  <2>1. i \in 1 .. Len(q) /\ r[i] = q[i]
    BY <1>0, <1>1, <1>3
  <2>2. \A j \in 1 .. i - 1 : q[j] \notin K
    BY <1>0, <1>3, <2>1
  <2> QED
    BY <1>3, <2>1, <2>2 DEF Chain
<1>4. ASSUME NEW i \in 1 .. Len(r), NEW j \in 1 .. Len(r),
             i < j, r[i] \in K, r[j] \in K, \A k \in i + 1 .. j - 1 : r[k] \notin K
      PROVE  r[j].at = r[i].at + r[i].n
  <2>1. i \in 1 .. Len(q) /\ j \in 1 .. Len(q) /\ r[i] = q[i] /\ r[j] = q[j]
    BY <1>0, <1>1, <1>4
  <2>2. \A k \in i + 1 .. j - 1 : q[k] \notin K
    <3> TAKE k \in i + 1 .. j - 1
    <3>1. k \in 1 .. Len(q)
      BY <1>0, <2>1
    <3> QED
      BY <1>0, <1>4, <3>1
  <2> QED
    BY <1>4, <2>1, <2>2 DEF Chain
<1>5. ASSUME NEW i \in 1 .. Len(r), r[i] \in K, \A j \in i + 1 .. Len(r) : r[j] \notin K
      PROVE  r[i].at + r[i].n = b
  <2>1. i \in 1 .. Len(q) /\ r[i] = q[i]
    BY <1>0, <1>1, <1>5
  <2>2. \A j \in i + 1 .. Len(q) : q[j] \notin K
    BY <1>0, <1>5, <2>1
  <2> QED
    BY <1>5, <2>1, <2>2 DEF Chain
<1>6. (\A i \in 1 .. Len(r) : r[i] \notin K) => a = b
  BY <1>0 DEF Chain
<1>7. \A i, j \in 1 .. Len(r) :
        i < j /\ r[i] \in K /\ r[j] \in K => r[i].at + r[i].n <= r[j].at
  BY <1>0, <1>1 DEF Chain
<1>9. a <= b
  BY DEF Chain
<1>8. Chain(r, K, a, b)
  BY <1>2, <1>3, <1>4, <1>5, <1>6, <1>7, <1>9 DEF Chain
<1> QED
  BY <1>8 DEF r

(* The first k bytes of the first member are taken from it.                *)
LEMMA ChainShrink ==
    ASSUME NEW X, NEW q \in Seq(X), q # <<>>, NEW K, Measured(K), NEW y \in X,
           q[1] \in K, y \in K, NEW k \in Nat, k <= q[1].n,
           y.at = q[1].at + k, y.n = q[1].n - k,
           NEW a \in Int, NEW b \in Int, Chain(q, K, a, b)
    PROVE  Chain([q EXCEPT ![1] = y], K, a + k, b)
<1> DEFINE r == [q EXCEPT ![1] = y]
<1>0. /\ Len(r) = Len(q) /\ Len(q) \in Nat /\ 1 \in 1 .. Len(q) /\ r[1] = y
      /\ \A i \in 2 .. Len(q) : r[i] = q[i]
      /\ \A i \in 1 .. Len(q) : i = 1 \/ i \in 2 .. Len(q)
      /\ \A i \in 1 .. Len(q) : r[i] \in K <=> q[i] \in K
  OBVIOUS
<1>a. /\ \A z \in K : z.at \in Nat /\ z.n \in Nat
      /\ q[1].at = a /\ y.at = a + k /\ y.at + y.n = q[1].at + q[1].n
      /\ q[1].at + q[1].n <= b
  BY <1>0, SMTT(30) DEF Measured, Chain
<1> HIDE DEF r
<1>b. \A i \in 2 .. Len(q) : q[i] \in K => q[1].at + q[1].n <= q[i].at /\ q[i].at + q[i].n <= b
  <2> TAKE i \in 2 .. Len(q)
  <2> HAVE q[i] \in K
  <2>1. i \in 1 .. Len(q) /\ 1 < i
    BY <1>0
  <2> QED
    BY <1>0, <2>1 DEF Chain
<1>2. ASSUME NEW i \in 1 .. Len(r), r[i] \in K
      PROVE  a + k <= r[i].at /\ r[i].at + r[i].n <= b
  <2>1. CASE i = 1
    BY <1>0, <1>a, <2>1, SMTT(30)
  <2>2. CASE i \in 2 .. Len(q)
    <3>1. r[i] = q[i] /\ q[i] \in K
      BY <1>0, <1>2, <2>2
    <3>2. q[1].at + q[1].n <= q[i].at /\ q[i].at + q[i].n <= b
      BY <1>b, <2>2, <3>1
    <3>3. q[1].at \in Nat /\ q[1].n \in Nat /\ q[i].at \in Nat /\ q[i].n \in Nat
      BY <1>a, <3>1
    <3> DEFINE a1 == q[1].at
               n1 == q[1].n
               a2 == q[i].at
    <3>4. /\ a1 \in Nat /\ n1 \in Nat /\ a2 \in Nat /\ a1 + n1 <= a2
          /\ a1 = a /\ k <= n1
      BY <1>a, <3>2, <3>3
    <3> HIDE DEF a1, n1, a2
    <3>5. a + k <= a2
      BY <3>4
    <3> QED
      BY <3>1, <3>2, <3>5 DEF a2
  <2> QED
    BY <1>0, <2>1, <2>2
<1>3. ASSUME NEW i \in 1 .. Len(r), r[i] \in K, \A j \in 1 .. i - 1 : r[j] \notin K
      PROVE  r[i].at = a + k
  <2>1. i = 1
    BY <1>0, <1>3
  <2> QED
    BY <1>0, <1>a, <2>1
<1>4. ASSUME NEW i \in 1 .. Len(r), NEW j \in 1 .. Len(r),
             i < j, r[i] \in K, r[j] \in K, \A l \in i + 1 .. j - 1 : r[l] \notin K
      PROVE  r[j].at = r[i].at + r[i].n
  <2>1. \A l \in i + 1 .. j - 1 : q[l] \notin K
    BY <1>0, <1>4
  <2>2. q[i] \in K /\ q[j] \in K /\ j \in 2 .. Len(q) /\ r[j] = q[j]
    BY <1>0, <1>4
  <2>3. q[j].at = q[i].at + q[i].n
    BY <1>0, <1>4, <2>1, <2>2 DEF Chain
  <2> QED
    BY <1>0, <1>a, <2>2, <2>3
<1>5. ASSUME NEW i \in 1 .. Len(r), r[i] \in K, \A j \in i + 1 .. Len(r) : r[j] \notin K
      PROVE  r[i].at + r[i].n = b
  <2>1. q[i] \in K /\ \A j \in i + 1 .. Len(q) : q[j] \notin K
    BY <1>0, <1>5
  <2>2. q[i].at + q[i].n = b
    BY <1>0, <2>1 DEF Chain
  <2> QED
    BY <1>0, <1>a, <2>2
<1>6. (\A i \in 1 .. Len(r) : r[i] \notin K) => a + k = b
  BY <1>0
<1>7. ASSUME NEW i \in 1 .. Len(r), NEW j \in 1 .. Len(r), i < j, r[i] \in K, r[j] \in K
      PROVE  r[i].at + r[i].n <= r[j].at
  <2>1. j \in 2 .. Len(q) /\ r[j] = q[j] /\ q[i] \in K /\ q[j] \in K
    BY <1>0, <1>7
  <2>2. q[i].at + q[i].n <= q[j].at
    BY <1>0, <1>7, <2>1 DEF Chain
  <2> QED
    BY <1>0, <1>a, <2>1, <2>2
<1>9. a + k <= b
  BY <1>a
<1>8. Chain(r, K, a + k, b)
  BY <1>2, <1>3, <1>4, <1>5, <1>6, <1>7, <1>9 DEF Chain
<1> QED
  BY <1>8 DEF r

(* A first member that is not in K is replaced by another.                 *)
LEMMA ChainReplace ==
    ASSUME NEW X, NEW q \in Seq(X), q # <<>>, NEW K, NEW y \in X,
           q[1] \notin K, y \notin K,
           NEW a \in Int, NEW b \in Int, Chain(q, K, a, b)
    PROVE  Chain([q EXCEPT ![1] = y], K, a, b)
<1> DEFINE r == [q EXCEPT ![1] = y]
<1>0. /\ Len(r) = Len(q) /\ Len(q) \in Nat
      /\ \A i \in 1 .. Len(q) : r[i] \in K <=> q[i] \in K
      /\ \A i \in 1 .. Len(q) : r[i] \in K => r[i] = q[i]
  OBVIOUS
<1> HIDE DEF r
<1>1. a <= b /\ ((\A i \in 1 .. Len(r) : r[i] \notin K) => a = b)
  BY <1>0 DEF Chain
<1>2. \A i \in 1 .. Len(r) : r[i] \in K => a <= r[i].at /\ r[i].at + r[i].n <= b
  BY <1>0 DEF Chain
<1>3. ASSUME NEW i \in 1 .. Len(r), r[i] \in K, \A j \in 1 .. i - 1 : r[j] \notin K
      PROVE  r[i].at = a
  <2>1. q[i] \in K /\ \A j \in 1 .. i - 1 : q[j] \notin K
    BY <1>0, <1>3
  <2> QED
    BY <1>0, <1>3, <2>1 DEF Chain
<1>4. ASSUME NEW i \in 1 .. Len(r), NEW j \in 1 .. Len(r),
             i < j, r[i] \in K, r[j] \in K, \A k \in i + 1 .. j - 1 : r[k] \notin K
      PROVE  r[j].at = r[i].at + r[i].n
  <2>1. q[i] \in K /\ q[j] \in K /\ \A k \in i + 1 .. j - 1 : q[k] \notin K
    BY <1>0, <1>4
  <2> QED
    BY <1>0, <1>4, <2>1 DEF Chain
<1>5. ASSUME NEW i \in 1 .. Len(r), r[i] \in K, \A j \in i + 1 .. Len(r) : r[j] \notin K
      PROVE  r[i].at + r[i].n = b
  <2>1. q[i] \in K /\ \A j \in i + 1 .. Len(q) : q[j] \notin K
    BY <1>0, <1>5
  <2> QED
    BY <1>0, <1>5, <2>1 DEF Chain
<1>6. \A i, j \in 1 .. Len(r) :
        i < j /\ r[i] \in K /\ r[j] \in K => r[i].at + r[i].n <= r[j].at
  BY <1>0 DEF Chain
<1>7. Chain(r, K, a, b)
  BY <1>1, <1>2, <1>3, <1>4, <1>5, <1>6 DEF Chain
<1> QED
  BY <1>7 DEF r

LEMMA ChainNone ==
    ASSUME NEW q, NEW K, \A i \in 1 .. Len(q) : q[i] \notin K, NEW a \in Int
    PROVE  Chain(q, K, a, a)
BY DEF Chain

-----------------------------------------------------------------------------
(* The order of datagrams, under each kind of change.                      *)

LEMMA DatagramPlaces ==
    ASSUME NEW q \in Seq(Datagrams)
    PROVE  \A i \in 1 .. Len(q) : q[i].at \in Nat
<1>1. \A x \in Datagrams : x.at \in Nat
  BY DEF Datagrams
<1> QED
  BY <1>1

LEMMA FramePlaces ==
    ASSUME NEW w \in Seq(Made)
    PROVE  \A i \in 1 .. Len(w) : w[i].at \in Nat
<1>1. \A x \in Made : x.at \in Nat
  BY DEF Made, Frames
<1> QED
  BY <1>1

LEMMA OrderedQueue ==
    ASSUME NEW d \in Seq(Datagrams), NEW w \in Seq(Made), NEW q \in Seq(Datagrams),
           NEW n \in Nat, NEW p \in End, Ordered(d, w, q, n, p),
           NEW y \in Datagrams, y.at = n, y.n \in DatagramSizes
    PROVE  Ordered(d, w, Append(q, y), n + 1, p)
<1> DEFINE r == Append(q, y)
<1>0. /\ Len(r) = Len(q) + 1 /\ Len(q) \in Nat /\ r[Len(q) + 1] = y
      /\ \A i \in 1 .. Len(q) : r[i] = q[i]
      /\ \A i \in 1 .. Len(r) : i \in 1 .. Len(q) \/ i = Len(q) + 1
  OBVIOUS
<1>a. /\ \A i \in 1 .. Len(d) : d[i].at \in Nat
      /\ \A i \in 1 .. Len(q) : q[i].at \in Nat
      /\ \A i \in 1 .. Len(w) : w[i].at \in Nat
  BY DatagramPlaces, FramePlaces
<1> HIDE DEF r
<1>1. Rising(r, Datagrams)
  BY <1>0, <1>a, SMTT(30) DEF Ordered, Rising
<1>2. Before(d, Datagrams, r, Datagrams)
  BY <1>0, <1>a DEF Ordered, Before
<1>3. Before(w, DatagramFrames, r, Datagrams)
  BY <1>0, <1>a DEF Ordered, Before
<1>4. ASSUME NEW i \in 1 .. Len(r) PROVE r[i].at < n + 1 /\ r[i].n \in DatagramSizes
  <2>1. CASE i \in 1 .. Len(q)
    <3>1. q[i].at < n /\ q[i].n \in DatagramSizes /\ q[i].at \in Nat
      BY <1>a, <2>1 DEF Ordered
    <3> QED
      BY <1>0, <2>1, <3>1
  <2>2. CASE i = Len(q) + 1
    BY <1>0, <2>2
  <2> QED
    BY <1>0, <2>1, <2>2
<1>5. Ordered(d, w, r, n + 1, p)
  BY <1>1, <1>2, <1>3, <1>4, <1>a DEF Ordered
<1> QED
  BY <1>5 DEF r

LEMMA OrderedCall ==
    ASSUME NEW d \in Seq(Datagrams), NEW w \in Seq(Made), NEW q \in Seq(Datagrams),
           NEW n \in Nat, NEW p \in End, Ordered(d, w, q, n, p)
    PROVE  Ordered(d, w, q, n + 1, p)
<1>a. /\ \A i \in 1 .. Len(d) : d[i].at \in Nat
      /\ \A i \in 1 .. Len(q) : q[i].at \in Nat
      /\ \A i \in 1 .. Len(w) : w[i].at \in Nat
  BY DatagramPlaces, FramePlaces
<1> QED
  BY <1>a DEF Ordered

LEMMA OrderedPop ==
    ASSUME NEW d \in Seq(Datagrams), NEW w \in Seq(Made), NEW q \in Seq(Datagrams),
           NEW n \in Nat, NEW p \in End, Ordered(d, w, q, n, p), q # <<>>
    PROVE  Ordered(d, w, Tail(q), n, p)
<1> DEFINE r == Tail(q)
<1>0. /\ Len(r) = Len(q) - 1 /\ Len(q) \in Nat /\ Len(q) > 0
      /\ \A i \in 1 .. Len(r) : r[i] = q[i + 1] /\ i + 1 \in 1 .. Len(q)
  OBVIOUS
<1> HIDE DEF r
<1>1. Rising(r, Datagrams)
  <2> SUFFICES ASSUME NEW i \in 1 .. Len(r), NEW j \in 1 .. Len(r), i < j,
                      r[i] \in Datagrams, r[j] \in Datagrams
               PROVE  r[i].at < r[j].at
    BY DEF Rising
  <2>1. r[i] = q[i + 1] /\ r[j] = q[j + 1] /\ i + 1 < j + 1
    BY <1>0
  <2>2. i + 1 \in 1 .. Len(q) /\ j + 1 \in 1 .. Len(q)
    BY <1>0
  <2> QED
    BY <2>1, <2>2 DEF Ordered, Rising
<1>2. Before(d, Datagrams, r, Datagrams)
  BY <1>0 DEF Ordered, Before
<1>3. Before(w, DatagramFrames, r, Datagrams)
  BY <1>0 DEF Ordered, Before
<1>4. \A i \in 1 .. Len(r) : r[i].at < n /\ r[i].n \in DatagramSizes
  BY <1>0 DEF Ordered
<1>5. Ordered(d, w, r, n, p)
  BY <1>1, <1>2, <1>3, <1>4 DEF Ordered
<1> QED
  BY <1>5 DEF r

LEMMA OrderedSend ==
    ASSUME NEW d \in Seq(Datagrams), NEW w \in Seq(Made), NEW q \in Seq(Datagrams),
           NEW n \in Nat, NEW p \in End, Ordered(d, w, q, n, p), q # <<>>,
           NEW f \in Made, f \in DatagramFrames,
           f.at = Head(q).at, f.n = Head(q).n,
           datagram_frame_length(Head(q).n) <= MaxDatagram[p]
    PROVE  Ordered(d, Append(w, f), Tail(q), n, p)
<1> DEFINE r == Tail(q)
           v == Append(w, f)
<1>0. /\ Len(r) = Len(q) - 1 /\ Len(q) \in Nat /\ Len(q) > 0 /\ 1 \in 1 .. Len(q)
      /\ Head(q) = q[1]
      /\ \A i \in 1 .. Len(r) : r[i] = q[i + 1] /\ i + 1 \in 1 .. Len(q) /\ 1 < i + 1
  OBVIOUS
<1>1. /\ Len(v) = Len(w) + 1 /\ Len(w) \in Nat /\ v[Len(w) + 1] = f
      /\ \A i \in 1 .. Len(w) : v[i] = w[i]
      /\ \A i \in 1 .. Len(v) : i \in 1 .. Len(w) \/ i = Len(w) + 1
  OBVIOUS
<1>2. Ordered(d, w, r, n, p)
  BY OrderedPop
<1>3. f.at = q[1].at /\ q[1] \in Datagrams /\ f.at < n /\ f.n \in DatagramSizes
  BY <1>0 DEF Ordered
<1> HIDE DEF r, v
<1>4. Rising(v, DatagramFrames)
  <2>1. Rising(w, DatagramFrames) /\ Before(w, DatagramFrames, q, Datagrams)
    BY DEF Ordered
  <2> SUFFICES ASSUME NEW i \in 1 .. Len(v), NEW j \in 1 .. Len(v), i < j,
                      v[i] \in DatagramFrames, v[j] \in DatagramFrames
               PROVE  v[i].at < v[j].at
    BY DEF Rising
  <2>2. i \in 1 .. Len(w) /\ v[i] = w[i]
    BY <1>1
  <2>3. CASE j \in 1 .. Len(w)
    BY <1>1, <2>1, <2>2, <2>3 DEF Rising
  <2>4. CASE j = Len(w) + 1
    <3>1. v[j].at = q[1].at
      BY <1>1, <1>3, <2>4
    <3>2. w[i].at < q[1].at
      BY <1>0, <1>3, <2>1, <2>2 DEF Before
    <3> QED
      BY <2>2, <3>1, <3>2
  <2> QED
    BY <1>1, <2>3, <2>4
<1>5. Before(d, Datagrams, v, DatagramFrames)
  BY <1>0, <1>1, <1>3 DEF Ordered, Before
<1>6. Before(v, DatagramFrames, r, Datagrams)
  <2>1. \A j \in 1 .. Len(r) : f.at < r[j].at
    <3> TAKE j \in 1 .. Len(r)
    <3>1. r[j] = q[j + 1] /\ j + 1 \in 1 .. Len(q) /\ 1 < j + 1 /\ q[j + 1] \in Datagrams
      BY <1>0
    <3> QED
      BY <1>0, <1>3, <3>1 DEF Ordered, Rising
  <2> QED
    BY <1>1, <1>2, <2>1 DEF Ordered, Before
<1>7. Fit(v, DatagramFrames, p)
  BY <1>0, <1>1, <1>3 DEF Ordered, Fit
<1>8. \A i \in 1 .. Len(v) : v[i] \in DatagramFrames => v[i].at < n
  BY <1>1, <1>3 DEF Ordered
<1>9. Ordered(d, v, r, n, p)
  BY <1>2, <1>4, <1>5, <1>6, <1>7, <1>8 DEF Ordered
<1> QED
  BY <1>9 DEF r, v

LEMMA OrderedSkip ==
    ASSUME NEW d, NEW w \in Seq(Made), NEW q, NEW n, NEW p, Ordered(d, w, q, n, p),
           NEW f \in Made, f \notin DatagramFrames
    PROVE  Ordered(d, Append(w, f), q, n, p)
<1> DEFINE v == Append(w, f)
<1>1. /\ Len(v) = Len(w) + 1 /\ Len(w) \in Nat /\ v[Len(w) + 1] = f
      /\ \A i \in 1 .. Len(w) : v[i] = w[i]
      /\ \A i \in 1 .. Len(v) : i \in 1 .. Len(w) \/ i = Len(w) + 1
  OBVIOUS
<1> HIDE DEF v
<1>2. \A i \in 1 .. Len(v) : v[i] \in DatagramFrames => i \in 1 .. Len(w) /\ v[i] = w[i]
  BY <1>1
<1>4. Rising(v, DatagramFrames)
  BY <1>2 DEF Ordered, Rising
<1>5. Before(d, Datagrams, v, DatagramFrames)
  BY <1>2 DEF Ordered, Before
<1>6. Before(v, DatagramFrames, q, Datagrams)
  BY <1>2 DEF Ordered, Before
<1>7. Fit(v, DatagramFrames, p)
  BY <1>2 DEF Ordered, Fit
<1>8. \A i \in 1 .. Len(v) : v[i] \in DatagramFrames => v[i].at < n
  BY <1>2 DEF Ordered
<1>9. Ordered(d, v, q, n, p)
  BY <1>4, <1>5, <1>6, <1>7, <1>8 DEF Ordered
<1> QED
  BY <1>9 DEF v

LEMMA OrderedConcat ==
    ASSUME NEW d, NEW w \in Seq(Made), NEW q, NEW n, NEW p, Ordered(d, w, q, n, p),
           NEW o \in Seq(Made), \A i \in 1 .. Len(o) : o[i] \notin DatagramFrames
    PROVE  Ordered(d, w \o o, q, n, p)
<1> DEFINE v == w \o o
<1>1. /\ Len(v) = Len(w) + Len(o) /\ Len(w) \in Nat /\ Len(o) \in Nat
      /\ \A i \in 1 .. Len(w) : v[i] = w[i]
      /\ \A i \in Len(w) + 1 .. Len(v) : v[i] = o[i - Len(w)] /\ i - Len(w) \in 1 .. Len(o)
  OBVIOUS
<1> HIDE DEF v
<1>2. \A i \in 1 .. Len(v) : v[i] \in DatagramFrames => i \in 1 .. Len(w) /\ v[i] = w[i]
  BY <1>1, SMTT(60)
<1>4. Rising(v, DatagramFrames)
  BY <1>2 DEF Ordered, Rising
<1>5. Before(d, Datagrams, v, DatagramFrames)
  BY <1>2 DEF Ordered, Before
<1>6. Before(v, DatagramFrames, q, Datagrams)
  BY <1>2 DEF Ordered, Before
<1>7. Fit(v, DatagramFrames, p)
  BY <1>2 DEF Ordered, Fit
<1>8. \A i \in 1 .. Len(v) : v[i] \in DatagramFrames => v[i].at < n
  BY <1>2 DEF Ordered
<1>9. Ordered(d, v, q, n, p)
  BY <1>4, <1>5, <1>6, <1>7, <1>8 DEF Ordered
<1> QED
  BY <1>9 DEF v

LEMMA OrderedRead ==
    ASSUME NEW d, NEW w \in Seq(Made), NEW q, NEW n, NEW p, Ordered(d, w, q, n, p),
           w # <<>>
    PROVE  Ordered(d, Tail(w), q, n, p)
<1> DEFINE v == Tail(w)
<1>1. \A i \in 1 .. Len(v) : v[i] = w[i + 1] /\ i + 1 \in 1 .. Len(w) /\ i \in Nat
  OBVIOUS
<1> HIDE DEF v
<1>4. Rising(v, DatagramFrames)
  BY <1>1 DEF Ordered, Rising
<1>5. Before(d, Datagrams, v, DatagramFrames)
  BY <1>1 DEF Ordered, Before
<1>6. Before(v, DatagramFrames, q, Datagrams)
  BY <1>1 DEF Ordered, Before
<1>7. Fit(v, DatagramFrames, p)
  BY <1>1 DEF Ordered, Fit
<1>8. \A i \in 1 .. Len(v) : v[i] \in DatagramFrames => v[i].at < n
  BY <1>1 DEF Ordered
<1>9. Ordered(d, v, q, n, p)
  BY <1>4, <1>5, <1>6, <1>7, <1>8 DEF Ordered
<1> QED
  BY <1>9 DEF v

LEMMA OrderedTold ==
    ASSUME NEW d \in Seq(Datagrams), NEW w \in Seq(Made), NEW q \in Seq(Datagrams),
           NEW n, NEW p, Ordered(d, w, q, n, p), w # <<>>,
           NEW y \in Datagrams, w[1] \in DatagramFrames, y.at = w[1].at, y.n = w[1].n
    PROVE  Ordered(Append(d, y), Tail(w), q, n, p)
<1> DEFINE v == Tail(w)
           c == Append(d, y)
<1>0. /\ 1 \in 1 .. Len(w)
      /\ \A i \in 1 .. Len(v) : v[i] = w[i + 1] /\ i + 1 \in 1 .. Len(w) /\ 1 < i + 1
  OBVIOUS
<1>1. /\ Len(c) = Len(d) + 1 /\ Len(d) \in Nat /\ c[Len(d) + 1] = y
      /\ \A i \in 1 .. Len(d) : c[i] = d[i]
      /\ \A i \in 1 .. Len(c) : i \in 1 .. Len(d) \/ i = Len(d) + 1
  OBVIOUS
<1>2. Ordered(d, v, q, n, p)
  BY OrderedRead
<1> HIDE DEF c, v
<1>3. Rising(c, Datagrams)
  BY <1>0, <1>1 DEF Ordered, Rising, Before
<1>4. Before(c, Datagrams, v, DatagramFrames)
  <2>1. \A j \in 1 .. Len(v) : v[j] \in DatagramFrames => y.at < v[j].at
    BY <1>0 DEF Ordered, Rising
  <2> QED
    BY <1>1, <1>2, <2>1 DEF Ordered, Before
<1>5. Before(c, Datagrams, q, Datagrams)
  BY <1>0, <1>1 DEF Ordered, Before
<1>6. \A i \in 1 .. Len(c) : c[i].at < n
  BY <1>0, <1>1 DEF Ordered
<1>7. Fit(c, Datagrams, p)
  BY <1>0, <1>1 DEF Ordered, Fit
<1>8. Ordered(c, v, q, n, p)
  BY <1>2, <1>3, <1>4, <1>5, <1>6, <1>7 DEF Ordered
<1> QED
  BY <1>8 DEF c, v

-----------------------------------------------------------------------------
(* What send() asks of dwnx, in terms of sums.                             *)

SizeOf(q) == FoldSeq(LAMBDA f, a : a + FrameSize(f), 0, q)

LEMMA RoomIs == ASSUME NEW c PROVE Room(c) = RecordSize - SizeOf(c.record \o c.owed)
BY Zenon DEF Room, SizeOf, Full

LEMMA SentSumIs ==
    ASSUME NEW c \in Connections
    PROVE  SentSum(c) = SumFunctionOnSet(c.sent, Streams)
<1>1. DOMAIN c.sent = Streams
  BY DEF Connections
<1>2. SentSum(c) = SumFunctionOnSet(c.sent, DOMAIN c.sent)
  BY Zenon, SentIsSum DEF SentSum
<1> QED
  BY <1>1, <1>2

LEMMA CreditIs ==
    ASSUME NEW c, NEW s
    PROVE  Credit(c, s) = Min({MaxStreamData - c.sent[s], MaxData - SentSum(c)})
BY Zenon DEF Credit, SentSum

LEMMA SentNat ==
    ASSUME NEW c \in Connections PROVE SentSum(c) \in Nat
<1>1. c.sent \in [Streams -> Nat]
  BY DEF Connections
<1>2. SumFunctionOnSet(c.sent, Streams) \in Nat
  BY <1>1, StreamAssumption, SumNat
<1> QED
  BY <1>2, SentSumIs

LEMMA MinTwo ==
    ASSUME NEW a \in Int, NEW b \in Int
    PROVE  Min({a, b}) \in Int /\ Min({a, b}) = IF a <= b THEN a ELSE b
BY DEF Min

LEMMA MinThree ==
    ASSUME NEW a \in Int, NEW b \in Int, NEW c \in Int
    PROVE  LET k == Min({a, b, c})
           IN  k \in {a, b, c} /\ k <= a /\ k <= b /\ k <= c
<1>1. \E x \in {a, b, c} : \A y \in {a, b, c} : x <= y
  OBVIOUS
<1>2. Min({a, b, c}) \in {a, b, c} /\ \A y \in {a, b, c} : Min({a, b, c}) <= y
  BY <1>1 DEF Min
<1> QED
  BY <1>2

(* The credit left, when the credit given was not overrun.                 *)
LEMMA CreditFacts ==
    ASSUME NEW c \in Connections, NEW s \in Streams
    PROVE  /\ Credit(c, s) \in Int
           /\ Credit(c, s) <= MaxStreamData - c.sent[s]
           /\ Credit(c, s) <= MaxData - SentSum(c)
           /\ c.sent[s] <= MaxStreamData /\ SentSum(c) <= MaxData => Credit(c, s) >= 0
           /\ c.sent[s] < MaxStreamData /\ SentSum(c) < MaxData => Credit(c, s) > 0
<1>1. c.sent[s] \in Nat /\ SentSum(c) \in Nat /\ MaxStreamData \in Nat /\ MaxData \in Nat
  BY SentNat, LimitAssumption DEF Connections
<1> DEFINE a == MaxStreamData - c.sent[s]
           b == MaxData - SentSum(c)
<1>2. a \in Int /\ b \in Int /\ Credit(c, s) = Min({a, b})
  BY <1>1, CreditIs
<1>3. Credit(c, s) = IF a <= b THEN a ELSE b
  BY <1>2, MinTwo
<1> QED
  BY <1>1, <1>3

(* A record with control frames only has room.                             *)
LEMMA RoomAtFirst ==
    ASSUME NEW c \in Connections, c.record = <<>>,
           \A i \in 1 .. Len(c.owed) : c.owed[i] \in Controls
    PROVE  Room(c) > 0
<1>1. c.owed \in Seq(Made)
  BY DEF Connections
<1>2. c.record \o c.owed = c.owed
  BY <1>1
<1>3. DOMAIN c.owed = 1 .. Len(c.owed) /\ IsFiniteSet(DOMAIN c.owed)
  BY <1>1, FS_Interval
<1>4. \A i \in DOMAIN c.owed : FrameSize(c.owed[i]) = 0
  BY <1>3 DEF FrameSize, Controls
<1>5. SizeOf(c.owed) = 0
  BY <1>3, <1>4, SizeZero, Zenon DEF SizeOf
<1>6. Room(c) = RecordSize - 0
  BY <1>2, <1>5, RoomIs
<1> QED
  BY <1>6, LimitAssumption

LEMMA RoomSame ==
    ASSUME NEW c, NEW x, x.record = c.record, x.owed = c.owed
    PROVE  Room(x) = Room(c)
BY RoomIs

LEMMA RoomInt ==
    ASSUME NEW c, Room(c) > 0, SizeOf(c.record \o c.owed) \in Int PROVE Room(c) \in Int
BY RoomIs, LimitAssumption

(* The size of a sequence of frames is a number.                           *)
LEMMA SumsNat ==
    ASSUME NEW S, IsFiniteSet(S), NEW f \in [S -> Nat], NEW K, Sums(f, SUBSET S, K)
    PROVE  \A s \in SUBSET S : K[s] \in Nat
<1> DEFINE T == {s \in SUBSET S : K[s] \notin Nat}
<1> SUFFICES ASSUME T # {} PROVE FALSE
  OBVIOUS
<1>1. PICK s \in T : s = {} \/ s \ {Pick(s)} \notin T
  BY SmallestSubset
<1>2. \A t \in SUBSET S : K[t] = IF t = {} THEN 0 ELSE f[Pick(t)] + K[t \ {Pick(t)}]
  BY DEF Sums
<1>3. s # {}
  <2>1. K[{}] = 0
    BY <1>2
  <2>2. K[s] \notin Nat
    OBVIOUS
  <2> HIDE DEF T
  <2> QED
    BY <2>1, <2>2
<1>4. Pick(s) \in S /\ s \ {Pick(s)} \in SUBSET S
  BY <1>3, PickFacts
<1>5. K[s \ {Pick(s)}] \in Nat /\ f[Pick(s)] \in Nat
  BY <1>1, <1>3, <1>4
<1>6. K[s] = f[Pick(s)] + K[s \ {Pick(s)}]
  BY <1>2, <1>3
<1> QED
  BY <1>5, <1>6

LEMMA SizeNat ==
    ASSUME NEW q, IsFiniteSet(DOMAIN q), \A i \in DOMAIN q : FrameSize(q[i]) \in Nat
    PROVE  SizeOf(q) \in Nat
<1> DEFINE S == DOMAIN q
           f == [i \in S |-> FrameSize(q[i])]
           K == TheSize(q, SUBSET S)
           T == {s \in SUBSET S : K[s] \notin Nat}
<1>1. f \in [S -> Nat] /\ \A i \in S : f[i] = FrameSize(q[i])
  OBVIOUS
<1>2. PICK J : Sums(f, SUBSET S, J)
  BY SumsExist
<1>3. \A s \in SUBSET S : J[s] \in Nat
  <2> HIDE DEF f, S
  <2> QED
    BY <1>1, <1>2, SumsNat DEF S
<1>4. J = [s \in SUBSET S |-> IF s = {} THEN 0 ELSE f[Pick(s)] + J[s \ {Pick(s)}]]
  BY <1>2 DEF Sums
<1> HIDE DEF f
<1>5. \A s \in SUBSET S : s # {} =>
        /\ f[Pick(s)] = FrameSize(q[Pick(s)]) /\ f[Pick(s)] \in Nat
        /\ s \ {Pick(s)} \in SUBSET S
  BY <1>1, PickFacts
<1>6. \A s \in SUBSET S : s # {} =>
        f[Pick(s)] + J[s \ {Pick(s)}] = J[s \ {Pick(s)}] + FrameSize(q[Pick(s)])
  BY <1>3, <1>5
<1>7. J = [s \in SUBSET S |->
             IF s = {} THEN 0 ELSE J[s \ {Pick(s)}] + FrameSize(q[Pick(s)])]
  BY <1>4, <1>6
<1>8. Sizes(q, SUBSET S, J)
  BY <1>7 DEF Sizes
<1>9. Sizes(q, SUBSET S, K)
  BY <1>8, TheSizes
<1>10. T = {}
  <2> SUFFICES ASSUME T # {} PROVE FALSE
    OBVIOUS
  <2> HIDE DEF K, S
  <2>0. IsFiniteSet(S)
    BY DEF S
  <2>1. PICK s \in T : s = {} \/ s \ {Pick(s)} \notin T
    BY <2>0, SmallestSubset
  <2>2. \A t \in SUBSET S :
          K[t] = IF t = {} THEN 0 ELSE K[t \ {Pick(t)}] + FrameSize(q[Pick(t)])
    BY <1>9 DEF Sizes
  <2>3. s # {}
    <3>1. K[{}] = 0
      BY <2>2
    <3>2. K[s] \notin Nat
      OBVIOUS
    <3> HIDE DEF T
    <3> QED
      BY <3>1, <3>2
  <2>4. K[s \ {Pick(s)}] \in Nat /\ FrameSize(q[Pick(s)]) \in Nat
    BY <1>5, <2>1, <2>3
  <2>5. K[s] = K[s \ {Pick(s)}] + FrameSize(q[Pick(s)])
    BY <2>2, <2>3
  <2> QED
    BY <2>4, <2>5
<1>11. K[S] \in Nat
  BY <1>10
<1> QED
  BY <1>11, SizeIsThe, Zenon DEF SizeOf

LEMMA RoomIsInt == ASSUME NEW c \in Connections PROVE Room(c) \in Int
<1>1. c.record \o c.owed \in Seq(Made)
  BY DEF Connections
<1> DEFINE q == c.record \o c.owed
<1>a. q \in Seq(Made)
  BY <1>1
<1> HIDE DEF q
<1>2. DOMAIN q = 1 .. Len(q) /\ Len(q) \in Nat /\ \A i \in DOMAIN q : q[i] \in Made
  BY <1>a
<1>3. \A x \in Made : FrameSize(x) \in Nat
  BY DEF Made, Frames, FrameSize
<1>4. SizeOf(q) \in Nat
  <2>1. IsFiniteSet(DOMAIN q)
    BY <1>2, FS_Interval
  <2> QED
    BY <1>2, <1>3, <2>1, SizeNat
<1> QED
  BY <1>4, RoomIs, LimitAssumption DEF q

-----------------------------------------------------------------------------
(* What a step makes of a connection.                                      *)

(* The two ends.                                                           *)
LEMMA Ends ==
    ASSUME NEW e \in End
    PROVE  Peer(e) \in End /\ Peer(e) # e /\ Peer(Peer(e)) = e
           /\ \A p \in End : p = e \/ p = Peer(e)
BY DEF End, Peer

LEMMA NoneIsNoStream == None \notin Streams
BY StreamAssumption DEF None

LEMMA ControlMade ==
    /\ \A s \in Streams : /\ Control("RESET", s) \in Made /\ Control("RESET", s) \in Controls
                          /\ Control("STOP", s) \in Made /\ Control("STOP", s) \in Controls
    /\ Control("PARAMS", None) \in Made /\ Control("PARAMS", None) \in Controls
    /\ Control("CLOSE", None) \in Made /\ Control("CLOSE", None) \in Controls
BY DEF Control, Frame, Made, Frames, WellMade, Controls, Kind

(* The part of the head that is written, its frame, and the connection     *)
(* with it.                                                                *)
Taken(c) ==
    LET h == Head(c.pending_stream_data)
    IN  Min({h.n, Credit(c, h.s), Room(c) - 1})
FrameOf(c) ==
    LET h == Head(c.pending_stream_data)
    IN  Frame("STREAM", h.s, h.at, Taken(c), h.fin /\ Taken(c) = h.n)
Begun(c) ==
    LET h == Head(c.pending_stream_data)
    IN  [c EXCEPT !.record = Append(@, FrameOf(c)),
                  !.sent[h.s] = @ + Taken(c),
                  !.tx[h.s] = IF FrameOf(c).fin THEN "fin" ELSE @]
Written(c) == consume_stream_data(Begun(c), Taken(c))
Writing(c) ==
    /\ c.pc = "stream" /\ c.state = "open"
    /\ c.pending_stream_data # <<>>
    /\ c.tx[Head(c.pending_stream_data).s] = "open"
    /\ Head(c.pending_stream_data).n > 0 =>
         Credit(c, Head(c.pending_stream_data).s) > 0

LEMMA WriteHeadIs ==
    ASSUME NEW e, WriteHead(e)
    PROVE  /\ Writing(m[e])
           /\ Emit(e, Written(m[e])) \/ (Room(Written(m[e])) > 0 /\ Go(e, Written(m[e])))
           /\ UNCHANGED <<offset, said, told, calls>>
BY Zenon DEF WriteHead, Writing, Written, Begun, FrameOf, Taken
HeadOf(c) == Head(c.pending_stream_data)

LEMMA HeadTyped ==
    ASSUME NEW c \in Connections, c.pending_stream_data # <<>>
    PROVE  /\ HeadOf(c) \in Writes /\ HeadOf(c) = c.pending_stream_data[1]
           /\ HeadOf(c).s \in Streams /\ HeadOf(c).at \in Nat /\ HeadOf(c).n \in Nat
           /\ HeadOf(c).fin \in BOOLEAN
           /\ Tail(c.pending_stream_data) \in Seq(Writes)
<1> DEFINE q == c.pending_stream_data
<1>1. q \in Seq(Writes) /\ q # <<>>
  BY DEF Connections
<1> HIDE DEF q
<1>2. Head(q) \in Writes /\ Tail(q) \in Seq(Writes) /\ Head(q) = q[1]
  BY <1>1
<1> QED
  BY <1>2 DEF q, HeadOf, Writes

LEMMA TakenFacts ==
    ASSUME NEW c, Sound(c), Writing(c)
    PROVE  /\ Taken(c) \in Nat /\ Taken(c) <= HeadOf(c).n
           /\ Taken(c) <= MaxStreamData - c.sent[HeadOf(c).s]
           /\ Taken(c) <= MaxData - SentSum(c)
<1>1. c \in Connections /\ Room(c) > 0 /\ c.pending_stream_data # <<>>
  BY DEF Sound, Records, Writing
<1>2. HeadOf(c).s \in Streams /\ HeadOf(c).n \in Nat
  BY <1>1, HeadTyped
<1> DEFINE a == HeadOf(c).n
           b == Credit(c, HeadOf(c).s)
           d == Room(c) - 1
<1>3. b \in Int /\ b <= MaxStreamData - c.sent[HeadOf(c).s] /\ b <= MaxData - SentSum(c)
  BY <1>1, <1>2, CreditFacts
<1>4. c.sent[HeadOf(c).s] <= MaxStreamData /\ SentSum(c) <= MaxData
  BY <1>2 DEF Sound, Credited
<1>5. b >= 0
  BY <1>1, <1>2, <1>4, CreditFacts
<1>6. d \in Int /\ d >= 0
  BY <1>1, RoomIsInt
<1>7. Taken(c) = Min({a, b, d})
  BY Zenon DEF Taken, HeadOf
<1>8. c.sent[HeadOf(c).s] \in Nat /\ SentSum(c) \in Nat
  BY <1>1, <1>2, SentNat DEF Connections
<1> HIDE DEF a, b, d
<1>9. a \in Int /\ a >= 0
  BY <1>2 DEF a
<1>10. /\ Min({a, b, d}) \in {a, b, d} /\ Min({a, b, d}) <= a /\ Min({a, b, d}) <= b
  BY <1>3, <1>6, <1>9, MinThree
<1>11. Taken(c) \in Nat /\ Taken(c) <= a /\ Taken(c) <= b
  BY <1>3, <1>5, <1>6, <1>7, <1>9, <1>10
<1> QED
  BY <1>3, <1>8, <1>11, LimitAssumption DEF a

LEMMA FrameOfMade ==
    ASSUME NEW c, Sound(c), Writing(c)
    PROVE  /\ FrameOf(c) \in Made /\ FrameOf(c) \in FramesOf(HeadOf(c).s)
           /\ FrameOf(c).k = "STREAM" /\ FrameOf(c).s = HeadOf(c).s
           /\ FrameOf(c).at = HeadOf(c).at /\ FrameOf(c).n = Taken(c)
           /\ FrameOf(c).fin = (HeadOf(c).fin /\ Taken(c) = HeadOf(c).n)
           /\ FrameOf(c).fin \in BOOLEAN
<1> DEFINE h == HeadOf(c)
           k == Taken(c)
           fin == h.fin /\ k = h.n
<1>1. h \in Writes /\ k \in Nat
  BY HeadTyped, TakenFacts DEF Sound, Writing
<1>2. FrameOf(c) = [k |-> "STREAM", s |-> h.s, at |-> h.at, n |-> k, fin |-> fin]
  BY DEF FrameOf, HeadOf, Frame
<1>3. h.s \in Streams /\ h.at \in Nat /\ fin \in BOOLEAN
  BY <1>1 DEF Writes
<1> HIDE DEF h, k, fin
<1>4. FrameOf(c) \in Frames
  BY <1>1, <1>2, <1>3 DEF Frames, Kind
<1>5. /\ FrameOf(c).k = "STREAM" /\ FrameOf(c).s = h.s
      /\ FrameOf(c).at = h.at /\ FrameOf(c).n = k /\ FrameOf(c).fin = fin
  BY <1>2
<1>6. FrameOf(c) \in Made /\ FrameOf(c) \in FramesOf(h.s)
  BY <1>3, <1>4, <1>5 DEF Made, WellMade, FramesOf
<1> QED
  BY <1>3, <1>5, <1>6 DEF h, k, fin

(* The fields of a connection that sending does not touch.                 *)
Beside(c, x) ==
    /\ x.pending_datagrams = c.pending_datagrams /\ x.params_received = c.params_received
    /\ x.close_requested = c.close_requested /\ x.pc = c.pc /\ x.loop = c.loop
    /\ x.closed = c.closed /\ x.owed = c.owed /\ x.rx = c.rx /\ x.state = c.state
    /\ x.buffer = c.buffer

BegunAs(c, s, k, f, t) ==
    [c EXCEPT !.record = Append(@, f), !.sent[s] = @ + k, !.tx[s] = t]

Has(c, s, k, f, t, x) ==
    /\ x.pending_stream_data = c.pending_stream_data
    /\ x.record = Append(c.record, f)
    /\ x.sent = [c.sent EXCEPT ![s] = @ + k]
    /\ x.tx = [c.tx EXCEPT ![s] = t]

LEMMA BegunFields ==
    ASSUME NEW c \in Connections, NEW s \in Streams, NEW k \in Nat, NEW f \in Made,
           NEW t \in {"none", "open", "fin", "reset"}, NEW x,
           x = BegunAs(c, s, k, f, t)
    PROVE  x \in Connections /\ Beside(c, x) /\ Has(c, s, k, f, t, x)
<1> DEFINE r == Append(c.record, f)
           d == [c.sent EXCEPT ![s] = @ + k]
           z == [c.tx EXCEPT ![s] = t]
<1>1. c.record \in Seq(Made) /\ c.sent \in [Streams -> Nat]
      /\ c.tx \in [Streams -> {"none", "open", "fin", "reset"}]
  BY DEF Connections
<1>2. r \in Seq(Made) /\ d \in [Streams -> Nat]
      /\ z \in [Streams -> {"none", "open", "fin", "reset"}]
  BY <1>1
<1>3. x = [c EXCEPT !.record = r, !.sent = d, !.tx = z]
  BY DEF Connections, BegunAs
<1> HIDE DEF r, d, z
<1>4. x \in Connections
  BY <1>2, <1>3, ZenonT(60) DEF Connections
<1>5. /\ x.pending_stream_data = c.pending_stream_data
      /\ x.record = r /\ x.sent = d /\ x.tx = z
  BY <1>3 DEF Connections
<1>6. Beside(c, x)
  BY <1>3 DEF Connections, Beside
<1> QED
  BY <1>4, <1>5, <1>6 DEF r, d, z, Has

(* What is left of the queue.                                              *)
Rest(q, k) ==
    IF k = 0 THEN q
    ELSE IF k = Head(q).n THEN Tail(q)
    ELSE [q EXCEPT ![1] = [Head(q) EXCEPT !.at = @ + k, !.n = @ - k]]

LEMMA RestTyped ==
    ASSUME NEW q \in Seq(Writes), q # <<>>, NEW k \in Nat, k <= Head(q).n
    PROVE  Rest(q, k) \in Seq(Writes)
<1> DEFINE h == Head(q)
           y == [h EXCEPT !.at = @ + k, !.n = @ - k]
<1>1. h \in Writes
  OBVIOUS
<1>a. h.at \in Nat /\ h.n \in Nat /\ k <= h.n
  BY <1>1 DEF Writes
<1>b. h.at + k \in Nat /\ h.n - k \in Nat
  BY <1>a
<1>2. y \in Writes
  <2>1. \A u \in Nat, v \in Nat : [h EXCEPT !.at = u, !.n = v] \in Writes
    BY <1>1 DEF Writes
  <2> QED
    BY <1>b, <2>1
<1> HIDE DEF y
<1>3. [q EXCEPT ![1] = y] \in Seq(Writes)
  BY <1>2
<1> QED
  BY <1>3 DEF Rest, y

LEMMA ConsumeFields ==
    ASSUME NEW c \in Connections, c.pending_stream_data # <<>>, NEW k \in Nat,
           k <= Head(c.pending_stream_data).n, NEW x, x = consume_stream_data(c, k)
    PROVE  /\ x \in Connections /\ Beside(c, x)
           /\ x.pending_stream_data = Rest(c.pending_stream_data, k)
           /\ x.record = c.record /\ x.sent = c.sent /\ x.tx = c.tx
<1> DEFINE q == c.pending_stream_data
           r == Rest(q, k)
<1>1. q \in Seq(Writes) /\ q # <<>> /\ k <= Head(q).n
  BY DEF Connections
<1>2. r \in Seq(Writes)
  BY <1>1, RestTyped
<1>3. x = [c EXCEPT !.pending_stream_data = r]
  <2>1. Head(q) = q[1] /\ Len(q) >= 1 /\ 1 \in DOMAIN q
    BY <1>1
  <2>2. CASE k = 0
    BY <2>2 DEF Connections, consume_stream_data, Rest
  <2>3. CASE k # 0 /\ k = Head(q).n
    BY <2>3 DEF Connections, consume_stream_data, Rest
  <2>4. CASE k # 0 /\ k # Head(q).n
    <3> DEFINE y == [Head(q) EXCEPT !.at = @ + k, !.n = @ - k]
    <3>1. x = [c EXCEPT !.pending_stream_data[1] = y]
      BY <2>4 DEF consume_stream_data
    <3> HIDE DEF y
    <3>2. x = [c EXCEPT !.pending_stream_data = [q EXCEPT ![1] = y]]
      BY <3>1 DEF Connections
    <3> USE DEF y
    <3> QED
      BY <2>1, <2>4, <3>2 DEF Rest
  <2> QED
    BY <2>2, <2>3, <2>4
<1> HIDE DEF q, r
<1>4. x \in Connections /\ x.pending_stream_data = r
      /\ x.record = c.record /\ x.sent = c.sent /\ x.tx = c.tx
  BY <1>2, <1>3 DEF Connections
<1>5. Beside(c, x)
  BY <1>3 DEF Connections, Beside
<1> QED
  BY <1>4, <1>5 DEF q, r

LEMMA ConcatAssoc ==
    ASSUME NEW X, NEW p \in Seq(X), NEW q \in Seq(X), NEW r \in Seq(X)
    PROVE  (p \o (q \o r)) \o <<>> = (p \o q) \o r
<1>1. q \o r \in Seq(X) /\ p \o q \in Seq(X)
  OBVIOUS
<1>2. p \o (q \o r) \in Seq(X) /\ (p \o q) \o r \in Seq(X)
  BY <1>1
<1>3. (p \o (q \o r)) \o <<>> = p \o (q \o r)
  BY <1>2
<1> QED
  BY <1>1, <1>2, <1>3

LEMMA WrittenFields ==
    ASSUME NEW c, Sound(c), Writing(c), NEW x, x = Written(c)
    PROVE  /\ x \in Connections /\ Beside(c, x)
           /\ x.pending_stream_data = Rest(c.pending_stream_data, Taken(c))
           /\ x.record = Append(c.record, FrameOf(c))
           /\ x.sent = [c.sent EXCEPT ![HeadOf(c).s] = @ + Taken(c)]
           /\ x.tx = [c.tx EXCEPT ![HeadOf(c).s] = IF FrameOf(c).fin THEN "fin" ELSE @]
<1> DEFINE s == HeadOf(c).s
           k == Taken(c)
           f == FrameOf(c)
           t == IF f.fin THEN "fin" ELSE c.tx[s]
           b == Begun(c)
<1>1. c \in Connections /\ c.pending_stream_data # <<>>
  BY DEF Sound, Writing
<1>2. s \in Streams /\ k \in Nat /\ k <= Head(c.pending_stream_data).n
  BY <1>1, HeadTyped, TakenFacts DEF HeadOf
<1>3. f \in Made
  BY FrameOfMade
<1>4. t \in {"none", "open", "fin", "reset"}
  BY <1>1, <1>2 DEF Connections
<1>5. b = BegunAs(c, s, k, f, t)
  BY <1>1 DEF Begun, HeadOf, Connections, BegunAs
<1> HIDE DEF s, k, f, t, b
<1>6. /\ b \in Connections /\ Beside(c, b)
      /\ b.pending_stream_data = c.pending_stream_data
      /\ b.record = Append(c.record, f)
      /\ b.sent = [c.sent EXCEPT ![s] = @ + k]
      /\ b.tx = [c.tx EXCEPT ![s] = t]
  <2>1. b \in Connections /\ Beside(c, b) /\ Has(c, s, k, f, t, b)
    BY <1>1, <1>2, <1>3, <1>4, <1>5, BegunFields
  <2> QED
    BY <2>1 DEF Has
<1>7. x = consume_stream_data(b, k)
  BY DEF Written, b, k
<1>8. /\ x \in Connections /\ Beside(b, x)
      /\ x.pending_stream_data = Rest(b.pending_stream_data, k)
      /\ x.record = b.record /\ x.sent = b.sent /\ x.tx = b.tx
  BY <1>1, <1>2, <1>6, <1>7, ConsumeFields
<1>9. Beside(c, x)
  BY <1>6, <1>8 DEF Beside
<1> QED
  BY <1>6, <1>8, <1>9 DEF s, k, f, t

LEMMA WrittenPlain ==
    ASSUME NEW c, Sound(c), Writing(c)
    PROVE  /\ Written(c) \in Connections
           /\ Written(c).pending_datagrams = c.pending_datagrams
           /\ Written(c).record = Append(c.record, FrameOf(c))
           /\ Written(c).rx = c.rx /\ Written(c).owed = c.owed
           /\ Written(c).buffer = c.buffer
           /\ Written(c).pending_stream_data = Rest(c.pending_stream_data, Taken(c))
<1> DEFINE x == Written(c)
<1>1. /\ x \in Connections /\ Beside(c, x)
      /\ x.pending_stream_data = Rest(c.pending_stream_data, Taken(c))
      /\ x.record = Append(c.record, FrameOf(c))
  BY WrittenFields
<1> HIDE DEF x
<1>2. /\ x.pending_datagrams = c.pending_datagrams
      /\ x.rx = c.rx /\ x.owed = c.owed /\ x.buffer = c.buffer
  BY <1>1 DEF Beside
<1> QED
  BY <1>1, <1>2 DEF x

LEMMA WrittenCredited ==
    ASSUME NEW c, Sound(c), Writing(c)
    PROVE  Credited(Written(c))
<1> DEFINE x == Written(c)
           s == HeadOf(c).s
           k == Taken(c)
<1>1. x \in Connections /\ x.sent = [c.sent EXCEPT ![s] = @ + k]
  BY WrittenFields
<1>2. c \in Connections /\ s \in Streams /\ c.sent \in [Streams -> Nat]
  BY HeadTyped DEF Sound, Writing, Connections
<1>3. k \in Nat /\ k <= MaxStreamData - c.sent[s] /\ k <= MaxData - SentSum(c)
  BY TakenFacts
<1>4. Credited(c)
  BY DEF Sound
<1> HIDE DEF x, s, k
<1>5. x.sent \in [Streams -> Nat] /\ x.sent[s] = c.sent[s] + k
      /\ \A r \in Streams : r # s => x.sent[r] = c.sent[r]
  BY <1>1, <1>2, <1>3
<1>6. /\ SumFunctionOnSet(c.sent, Streams) \in Nat
      /\ SumFunctionOnSet(x.sent, Streams) \in Nat
      /\ SumFunctionOnSet(x.sent, Streams) =
           SumFunctionOnSet(c.sent, Streams) - c.sent[s] + x.sent[s]
  <2> DEFINE f == c.sent
             g == x.sent
  <2>1. f \in [Streams -> Nat] /\ g \in [Streams -> Nat]
        /\ \A r \in Streams : r # s => g[r] = f[r]
    BY <1>2, <1>5
  <2> HIDE DEF f, g
  <2>2. /\ SumFunctionOnSet(f, Streams) \in Nat
        /\ SumFunctionOnSet(g, Streams) \in Nat
        /\ SumFunctionOnSet(g, Streams) = SumFunctionOnSet(f, Streams) - f[s] + g[s]
    <3>1. IsFiniteSet(Streams) /\ s \in Streams
      BY <1>2, StreamAssumption
    <3> QED
      BY <2>1, <3>1, SumUpdate
  <2> QED
    BY <2>2 DEF f, g
<1>7. SentSum(c) = SumFunctionOnSet(c.sent, Streams)
      /\ SentSum(x) = SumFunctionOnSet(x.sent, Streams)
  BY <1>1, <1>2, SentSumIs
<1>8. SentSum(x) <= MaxData
  BY <1>2, <1>3, <1>5, <1>6, <1>7, LimitAssumption
<1>9. \A r \in Streams : x.sent[r] <= MaxStreamData
  BY <1>2, <1>3, <1>4, <1>5, LimitAssumption DEF Credited
<1> QED
  BY <1>8, <1>9 DEF Credited, x

LEMMA CreditedSame ==
    ASSUME NEW c, NEW x, x.sent = c.sent, Credited(c) PROVE Credited(x)
BY Zenon DEF Credited, SentSum

EmittedAs(w, o, p) == [w EXCEPT !.record = o, !.owed = o, !.pc = p]

LEMMA EmittedFields ==
    ASSUME NEW w \in Connections, NEW o \in Seq(Made), NEW p \in {"idle", "send"}, NEW x,
           x = EmittedAs(w, o, p)
    PROVE  /\ x \in Connections
           /\ x.record = o /\ x.owed = o /\ x.pc = p
           /\ x.pending_stream_data = w.pending_stream_data
           /\ x.pending_datagrams = w.pending_datagrams
           /\ x.tx = w.tx /\ x.rx = w.rx /\ x.sent = w.sent
           /\ x.buffer = w.buffer /\ x.state = w.state
BY DEF Connections, EmittedAs

(* A step of the flush of e, which fills the record as w has it: o, frames *)
(* of control, goes behind it.                                             *)
After(e, w, o) ==
    /\ m'[Peer(e)] = m[Peer(e)] /\ wire'[Peer(e)] = wire[Peer(e)]
    /\ Flight(e)' = (wire[e] \o w.record) \o o
    /\ Flight(Peer(e))' = Flight(Peer(e))
    /\ wire[e] # <<>> => wire'[e] # <<>> /\ Head(wire'[e]) = Head(wire[e])
    /\ m'[e].pending_stream_data = w.pending_stream_data
    /\ m'[e].pending_datagrams = w.pending_datagrams
    /\ m'[e].tx = w.tx /\ m'[e].rx = w.rx /\ m'[e].sent = w.sent
    /\ m'[e].buffer = w.buffer
    /\ m'[e].owed \in {w.owed, <<>>}
    /\ o \in Seq(Made)
    /\ \A i \in 1 .. Len(o) :
         /\ o[i] \in Controls
         /\ o[i].s \in Streams => \E j \in 1 .. Len(w.owed) : w.owed[j].s = o[i].s
    /\ UNCHANGED <<offset, said, told, calls>>

LEMMA EmitAfter ==
    ASSUME Base, NEW e \in End, NEW w \in Connections, Emit(e, w),
           \A i \in 1 .. Len(w.owed) : w.owed[i] \in Controls, Credited(w),
           UNCHANGED <<offset, said, told, calls>>
    PROVE  After(e, w, w.owed) /\ Base'
<1> DEFINE x == [w EXCEPT !.record = <<>>, !.owed = <<>>, !.pc = "send"]
           p == Peer(e)
<1>0. p \in End /\ p # e /\ \A z \in End : z = e \/ z = p
  BY Ends
<1>1. m \in [End -> Connections] /\ wire \in [End -> Seq(Made)]
  BY DEF Base, TypeOK
<1>2. <<>> \in Seq(Made) /\ "send" \in {"idle", "send"}
  OBVIOUS
<1>3. /\ x \in Connections
      /\ x.record = <<>> /\ x.owed = <<>> /\ x.pc = "send"
      /\ x.pending_stream_data = w.pending_stream_data
      /\ x.pending_datagrams = w.pending_datagrams
      /\ x.tx = w.tx /\ x.rx = w.rx /\ x.sent = w.sent
      /\ x.buffer = w.buffer /\ x.state = w.state
  <2> DEFINE o == <<>>
             y == "send"
  <2>1. x = EmittedAs(w, o, y)
    BY DEF EmittedAs
  <2>2. o \in Seq(Made) /\ y \in {"idle", "send"}
    BY <1>2
  <2> HIDE DEF x, o, y
  <2>3. /\ x \in Connections
        /\ x.record = o /\ x.owed = o /\ x.pc = y
        /\ x.pending_stream_data = w.pending_stream_data
        /\ x.pending_datagrams = w.pending_datagrams
        /\ x.tx = w.tx /\ x.rx = w.rx /\ x.sent = w.sent
        /\ x.buffer = w.buffer /\ x.state = w.state
    BY <2>1, <2>2, EmittedFields
  <2> QED
    BY <2>3 DEF o, y
<1>4. w.record \in Seq(Made) /\ w.owed \in Seq(Made)
  BY DEF Connections
<1>5. m' = [m EXCEPT ![e] = x] /\ wire' = [wire EXCEPT ![e] = wire[e] \o (w.record \o w.owed)]
  BY DEF Emit, Full
<1> HIDE DEF x
<1>6. m'[e] = x /\ m'[p] = m[p] /\ wire'[p] = wire[p]
      /\ wire'[e] = wire[e] \o (w.record \o w.owed)
  BY <1>0, <1>1, <1>5
<1>7. wire[e] \in Seq(Made)
  BY <1>1
<1>8. Flight(e)' = (wire[e] \o w.record) \o w.owed
  <2>1. Flight(e)' = (wire[e] \o (w.record \o w.owed)) \o <<>>
    BY <1>3, <1>6 DEF Flight
  <2> DEFINE a == wire[e]
             b == w.record
             d == w.owed
  <2>2. a \in Seq(Made) /\ b \in Seq(Made) /\ d \in Seq(Made)
    BY <1>4, <1>7
  <2> HIDE DEF a, b, d
  <2>3. (a \o (b \o d)) \o <<>> = (a \o b) \o d
    BY <2>2, ConcatAssoc
  <2> QED
    BY <2>1, <2>3 DEF a, b, d
<1>9. Flight(p)' = Flight(p)
  BY <1>6 DEF Flight
<1>10. wire[e] # <<>> => wire'[e] # <<>> /\ Head(wire'[e]) = Head(wire[e])
  <2>1. w.record \o w.owed \in Seq(Made)
    BY <1>4
  <2>2. wire[e] # <<>> =>
          /\ wire[e] \o (w.record \o w.owed) # <<>>
          /\ Head(wire[e] \o (w.record \o w.owed)) = Head(wire[e])
    BY <1>7, <2>1, ConcatTail, Zenon
  <2> QED
    BY <1>6, <2>2
<1>11. After(e, w, w.owed)
  BY <1>3, <1>4, <1>6, <1>8, <1>9, <1>10 DEF After
<1>12. m' \in [End -> Connections] /\ wire' \in [End -> Seq(Made)]
  BY <1>1, <1>3, <1>4, <1>5, <1>7
<1>13. TypeOK'
  BY <1>12 DEF TypeOK, Base
<1>14. Sound(x)
  <2>1. Credited(x)
    BY <1>3, CreditedSame
  <2>2. Records(x)
    BY <1>3 DEF Records
  <2> QED
    BY <1>3, <2>1, <2>2 DEF Sound
<1>15. \A z \in End : Sound(m'[z])
  BY <1>0, <1>6, <1>14 DEF Base
<1> QED
  BY <1>11, <1>13, <1>15 DEF Base

LEMMA GoAfter ==
    ASSUME Base, NEW e \in End, NEW x, Go(e, x), Sound(x),
           UNCHANGED <<offset, said, told, calls>>
    PROVE  After(e, x, <<>>) /\ Base'
<1> DEFINE p == Peer(e)
<1>0. p \in End /\ p # e /\ \A z \in End : z = e \/ z = p
  BY Ends
<1>1. m \in [End -> Connections] /\ wire \in [End -> Seq(Made)]
  BY DEF Base, TypeOK
<1>2. x \in Connections /\ x.record \in Seq(Made)
  BY DEF Sound, Connections
<1>3. m' = [m EXCEPT ![e] = x] /\ wire' = wire
  BY DEF Go
<1>4. m'[e] = x /\ m'[p] = m[p] /\ wire'[p] = wire[p] /\ wire'[e] = wire[e]
  BY <1>0, <1>1, <1>3
<1>5. wire[e] \in Seq(Made)
  BY <1>1
<1>6. Flight(e)' = (wire[e] \o x.record) \o <<>>
  <2>1. Flight(e)' = wire[e] \o x.record
    BY <1>4 DEF Flight
  <2> QED
    BY <1>2, <1>5, <2>1
<1>7. Flight(p)' = Flight(p)
  BY <1>4 DEF Flight
<1>8. <<>> \in Seq(Made) /\ \A i \in 1 .. Len(<<>>) : FALSE
  OBVIOUS
<1>9. After(e, x, <<>>)
  BY <1>4, <1>6, <1>7, <1>8 DEF After
<1>10. m' \in [End -> Connections]
  BY <1>1, <1>2, <1>3
<1>11. TypeOK'
  BY <1>3, <1>10 DEF TypeOK, Base
<1>12. \A z \in End : Sound(m'[z])
  BY <1>0, <1>4 DEF Base
<1> QED
  BY <1>9, <1>11, <1>12 DEF Base

-----------------------------------------------------------------------------
(* The steps of a flush.                                                   *)

Beneath(c, w) == w.owed = c.owed /\ w.buffer = c.buffer
StreamsKept(c, w) ==
    /\ w.pending_stream_data = c.pending_stream_data
    /\ w.tx = c.tx /\ w.rx = c.rx /\ w.sent = c.sent

(* Nothing is written, or only what is due.                                *)
Idle(c, w) ==
    /\ Beneath(c, w) /\ StreamsKept(c, w) /\ w.record = c.record
    /\ w.pending_datagrams = c.pending_datagrams

(* A write is discarded; a datagram is; or goes.                           *)
Discards(c, w) ==
    /\ Beneath(c, w) /\ w.tx = c.tx /\ w.rx = c.rx /\ w.sent = c.sent
    /\ w.record = c.record /\ w.pending_datagrams = c.pending_datagrams
    /\ c.pending_stream_data # <<>>
    /\ w.pending_stream_data = Tail(c.pending_stream_data)
    /\ \/ c.tx[HeadOf(c).s] # "open"
       \/ HeadOf(c).n > 0 /\ Credit(c, HeadOf(c).s) = 0
Pops(c, w) ==
    /\ Beneath(c, w) /\ StreamsKept(c, w) /\ w.record = c.record
    /\ c.pending_datagrams # <<>> /\ w.pending_datagrams = Tail(c.pending_datagrams)
DatagramOf(c) ==
    LET h == Head(c.pending_datagrams) IN Frame("DATAGRAM", None, h.at, h.n, TRUE)
Hands(c, w, p) ==
    /\ Beneath(c, w) /\ StreamsKept(c, w) /\ w.record = Append(c.record, DatagramOf(c))
    /\ c.pending_datagrams # <<>> /\ w.pending_datagrams = Tail(c.pending_datagrams)
    /\ datagram_frame_length(Head(c.pending_datagrams).n) <= MaxDatagram[p]

(* A part of the head of the queue goes.                                   *)
Fills(c, w) == Writing(c) /\ w = Written(c)

Shape(e, w) ==
    \/ Idle(m[e], w) \/ Discards(m[e], w) \/ Pops(m[e], w)
    \/ Hands(m[e], w, Peer(e)) \/ Fills(m[e], w)

LEMMA SoundEnd == ASSUME Base, NEW e \in End
                  PROVE  Sound(m[e]) /\ m[e] \in Connections
BY DEF Base, Sound

LEMMA RecordsSame ==
    ASSUME NEW c, NEW x, Records(c), x.record = c.record, x.owed = c.owed,
           x.state = c.state, x.pc = c.pc \/ x.pc \in {"datagram", "record"}
    PROVE  Records(x)
<1>1. Room(x) = Room(c)
  BY RoomSame
<1>2. x.pc \in {"idle", "send"} \/ x.state # "open" => x.record = <<>>
  BY DEF Records
<1>3. x.pc = "stream" /\ x.state = "open" => Room(x) > 0
  BY <1>1 DEF Records
<1> QED
  BY <1>2, <1>3 DEF Records

Goto(c, p) == [c EXCEPT !.pc = p]
LEMMA GotoFields ==
    ASSUME NEW c \in Connections, NEW p \in {"idle", "send", "stream", "datagram", "record"},
           NEW x, x = Goto(c, p)
    PROVE  /\ x \in Connections /\ x.pc = p /\ x.record = c.record /\ x.owed = c.owed
           /\ x.state = c.state /\ x.sent = c.sent /\ Idle(c, x)
BY DEF Connections, Goto, Idle, Beneath, StreamsKept

LEMMA GotoSound ==
    ASSUME NEW c, Sound(c), NEW p \in {"datagram", "record"}
    PROVE  Sound(Goto(c, p)) /\ Idle(c, Goto(c, p))
<1> DEFINE x == Goto(c, p)
<1>1. c \in Connections /\ Records(c) /\ Credited(c)
  BY DEF Sound
<1> HIDE DEF x
<1>2. /\ x \in Connections /\ x.pc = p /\ x.record = c.record /\ x.owed = c.owed
      /\ x.state = c.state /\ x.sent = c.sent /\ Idle(c, x)
  BY <1>1, GotoFields DEF x
<1>3. Records(x) /\ Credited(x)
  BY <1>1, <1>2, RecordsSame, CreditedSame
<1> QED
  BY <1>2, <1>3 DEF Sound, x

LEMMA EmitShape ==
    ASSUME Base, NEW e \in End, Emit(e, m[e]), UNCHANGED <<offset, said, told, calls>>
    PROVE  Base' /\ \E w \in Connections : \E o : After(e, w, o) /\ Shape(e, w)
<1>1. m[e] \in Connections /\ Credited(m[e])
      /\ \A i \in 1 .. Len(m[e].owed) : m[e].owed[i] \in Controls
  BY SoundEnd DEF Sound, Records
<1>2. After(e, m[e], m[e].owed) /\ Base'
  BY <1>1, EmitAfter
<1>3. Shape(e, m[e])
  BY DEF Shape, Idle, Beneath, StreamsKept
<1> QED
  BY <1>1, <1>2, <1>3

LEMMA GoShape ==
    ASSUME Base, NEW e \in End, NEW x, Go(e, x), Sound(x), Shape(e, x),
           UNCHANGED <<offset, said, told, calls>>
    PROVE  Base' /\ \E w \in Connections : \E o : After(e, w, o) /\ Shape(e, w)
<1>1. After(e, x, <<>>) /\ Base'
  BY GoAfter
<1>2. x \in Connections
  BY DEF Sound
<1> QED
  BY <1>1, <1>2

ClosingOf(c, b, p) == [c EXCEPT !.close_requested = b, !.state = p]
LEMMA ClosingFields ==
    ASSUME NEW c \in Connections, NEW b \in BOOLEAN, NEW p \in {"closing", "draining"},
           NEW x, x = ClosingOf(c, b, p)
    PROVE  /\ x \in Connections /\ x.pc = c.pc /\ x.record = c.record /\ x.owed = c.owed
           /\ x.state = p /\ x.sent = c.sent /\ Idle(c, x)
BY DEF Connections, ClosingOf, Idle, Beneath, StreamsKept

LEMMA SendShape ==
    ASSUME Base, NEW e \in End, Send(e)
    PROVE  Base' /\ \E w \in Connections : \E o : After(e, w, o) /\ Shape(e, w)
<1> DEFINE c == m[e]
           p == Peer(e)
<1>0. c \in Connections /\ Sound(c) /\ Records(c) /\ Credited(c)
  BY SoundEnd DEF Sound
<1>1. c.pc = "send" /\ c.record = <<>> /\ \A i \in 1 .. Len(c.owed) : c.owed[i] \in Controls
  BY <1>0 DEF Send, Records
<1>2. UNCHANGED <<offset, said, told, calls>>
  BY DEF Send
<1>3. CASE ~c.close_requested
  <2> DEFINE x == Goto(c, "stream")
  <2>1. Go(e, x)
    BY <1>3 DEF Send, Goto
  <2> HIDE DEF x
  <2>2. /\ x \in Connections /\ x.pc = "stream" /\ x.record = c.record /\ x.owed = c.owed
        /\ x.state = c.state /\ x.sent = c.sent /\ Idle(c, x)
    BY <1>0, GotoFields DEF x
  <2>3. Room(x) > 0
    BY <1>1, <2>2, RoomAtFirst
  <2>4. Records(x) /\ Credited(x)
    BY <1>0, <1>1, <2>2, <2>3, CreditedSame DEF Records
  <2>5. Sound(x) /\ Shape(e, x)
    BY <2>2, <2>4 DEF Sound, Shape
  <2> QED
    BY <1>2, <2>1, <2>5, GoShape
<1>4. CASE c.close_requested
  <2> DEFINE x == ClosingOf(c, FALSE, "closing")
  <2>1. /\ m' = [m EXCEPT ![e] = x]
        /\ wire' = IF c.state = "open"
                   THEN [wire EXCEPT ![e] = Append(@, Control("CLOSE", None))]
                   ELSE wire
    BY <1>4 DEF Send, ClosingOf
  <2> HIDE DEF x
  <2>2. /\ x \in Connections /\ x.pc = c.pc /\ x.record = c.record /\ x.owed = c.owed
        /\ x.state = "closing" /\ x.sent = c.sent /\ Idle(c, x)
    BY <1>0, ClosingFields DEF x
  <2>3. Records(x) /\ Credited(x)
    BY <1>0, <1>1, <2>2, CreditedSame DEF Records
  <2>4. Sound(x) /\ Shape(e, x)
    BY <2>2, <2>3 DEF Sound, Shape
  <2>5. CASE c.state # "open"
    <3>1. Go(e, x)
      BY <2>1, <2>5 DEF Go
    <3> QED
      BY <1>2, <2>4, <3>1, GoShape
  <2>6. CASE c.state = "open"
    <3> DEFINE f == Control("CLOSE", None)
               o == <<f>>
    <3>0. p \in End /\ p # e /\ \A z \in End : z = e \/ z = p
      BY Ends
    <3>1. f \in Made /\ f \in Controls /\ f.s \notin Streams
      BY ControlMade, NoneIsNoStream DEF Control, Frame
    <3> HIDE DEF f
    <3>2. m \in [End -> Connections] /\ wire \in [End -> Seq(Made)] /\ wire[e] \in Seq(Made)
      BY DEF Base, TypeOK
    <3>3. wire' = [wire EXCEPT ![e] = Append(wire[e], f)]
      BY <2>1, <2>6 DEF f
    <3>4. m'[e] = x /\ m'[p] = m[p] /\ wire'[p] = wire[p] /\ wire'[e] = Append(wire[e], f)
      BY <2>1, <3>0, <3>2, <3>3
    <3>5. Append(wire[e], f) \in Seq(Made) /\ Append(wire[e], f) # <<>>
          /\ Append(wire[e], f) \o <<>> = (wire[e] \o <<>>) \o o
          /\ (wire[e] # <<>> => Head(Append(wire[e], f)) = Head(wire[e]))
      BY <3>1, <3>2, SMTT(30)
    <3>6. Flight(e)' = (wire[e] \o x.record) \o o
      BY <1>1, <2>2, <3>4, <3>5 DEF Flight
    <3>7. Flight(p)' = Flight(p)
      BY <3>4 DEF Flight
    <3>8. o \in Seq(Made) /\ Len(o) = 1 /\ o[1] = f
      BY <3>1
    <3> HIDE DEF o
    <3>9. \A i \in 1 .. Len(o) : o[i] \in Controls /\ o[i].s \notin Streams
      BY <3>1, <3>8
    <3>10. After(e, x, o)
      BY <1>2, <3>4, <3>5, <3>6, <3>7, <3>8, <3>9 DEF After
    <3>11. m' \in [End -> Connections] /\ wire' \in [End -> Seq(Made)]
      BY <2>1, <2>2, <3>2, <3>3, <3>5
    <3>12. TypeOK'
      BY <1>2, <3>11 DEF TypeOK, Base
    <3>13. \A z \in End : Sound(m'[z])
      BY <2>4, <3>0, <3>4 DEF Base
    <3>14. Base'
      BY <3>12, <3>13 DEF Base
    <3> QED
      BY <2>2, <2>4, <3>10, <3>14
  <2> QED
    BY <2>5, <2>6
<1> QED
  BY <1>3, <1>4

LEMMA FinishShape ==
    ASSUME Base, NEW e \in End, FinishRecord(e)
    PROVE  Base' /\ \E w \in Connections : \E o : After(e, w, o) /\ Shape(e, w)
<1>1. UNCHANGED <<offset, said, told, calls>>
  BY DEF FinishRecord
<1>2. CASE Full(m[e]) # <<>>
  <2>1. Emit(e, m[e])
    BY <1>2 DEF FinishRecord
  <2> QED
    BY <1>1, <2>1, EmitShape
<1>3. CASE Full(m[e]) = <<>>
  <2>1. Go(e, Goto(m[e], "datagram"))
    BY <1>3 DEF FinishRecord, Goto
  <2>2. Sound(Goto(m[e], "datagram")) /\ Shape(e, Goto(m[e], "datagram"))
    BY SoundEnd, GotoSound DEF Shape
  <2> QED
    BY <1>1, <2>1, <2>2, GoShape
<1> QED
  BY <1>2, <1>3

LEMMA ErrorShape ==
    ASSUME Base, NEW e \in End, StreamError(e)
    PROVE  Base' /\ \E w \in Connections : \E o : After(e, w, o) /\ Shape(e, w)
<1>1. UNCHANGED <<offset, said, told, calls>>
  BY DEF StreamError
<1>2. Go(e, Goto(m[e], "datagram"))
  BY DEF StreamError, Goto
<1>3. Sound(Goto(m[e], "datagram")) /\ Shape(e, Goto(m[e], "datagram"))
  BY SoundEnd, GotoSound DEF Shape
<1> QED
  BY <1>1, <1>2, <1>3, GoShape

QueueSet(c, q) == [c EXCEPT !.pending_stream_data = q]
LEMMA QueueFields ==
    ASSUME NEW c \in Connections, NEW q \in Seq(Writes), NEW x, x = QueueSet(c, q)
    PROVE  /\ x \in Connections /\ Beside(c, x) /\ x.pending_stream_data = q
           /\ x.record = c.record /\ x.sent = c.sent /\ x.tx = c.tx
BY DEF Connections, QueueSet, Beside

LEMMA DiscardShape ==
    ASSUME Base, NEW e \in End, DiscardHead(e)
    PROVE  Base' /\ \E w \in Connections : \E o : After(e, w, o) /\ Shape(e, w)
<1> DEFINE c == m[e]
           q == Tail(c.pending_stream_data)
           x == QueueSet(c, q)
<1>0. c \in Connections /\ Sound(c) /\ Records(c) /\ Credited(c)
  BY SoundEnd DEF Sound
<1>1. UNCHANGED <<offset, said, told, calls>> /\ c.pending_stream_data # <<>>
      /\ (c.tx[HeadOf(c).s] # "open" \/ (HeadOf(c).n > 0 /\ Credit(c, HeadOf(c).s) = 0))
  <2>1. \/ c.tx[HeadOf(c).s] # "open"
        \/ HeadOf(c).n > 0 /\ Credit(c, HeadOf(c).s) = 0
    BY Zenon DEF DiscardHead, HeadOf
  <2>2. UNCHANGED <<offset, said, told, calls>> /\ c.pending_stream_data # <<>>
    BY DEF DiscardHead
  <2> QED
    BY <2>1, <2>2
<1>2. Go(e, x)
  BY DEF DiscardHead, QueueSet
<1>3. q \in Seq(Writes)
  BY <1>0, <1>1, HeadTyped
<1> HIDE DEF q, x
<1>4. /\ x \in Connections /\ Beside(c, x) /\ x.pending_stream_data = q
      /\ x.record = c.record /\ x.sent = c.sent /\ x.tx = c.tx
  BY <1>0, <1>3, QueueFields DEF x
<1>5. Records(x) /\ Credited(x)
  BY <1>0, <1>4, RecordsSame, CreditedSame DEF Beside
<1>6. Discards(c, x)
  BY <1>1, <1>4 DEF Discards, Beneath, Beside, q
<1>7. Sound(x) /\ Shape(e, x)
  BY <1>4, <1>5, <1>6 DEF Sound, Shape
<1> QED
  BY <1>1, <1>2, <1>7, GoShape

LEMMA HeadShape ==
    ASSUME Base, NEW e \in End, WriteHead(e)
    PROVE  Base' /\ \E w \in Connections : \E o : After(e, w, o) /\ Shape(e, w)
<1> DEFINE c == m[e]
           x == Written(c)
<1>0. c \in Connections /\ Sound(c) /\ Records(c)
  BY SoundEnd DEF Sound
<1>1. /\ Writing(c) /\ UNCHANGED <<offset, said, told, calls>>
      /\ Emit(e, x) \/ (Room(x) > 0 /\ Go(e, x))
  BY WriteHeadIs
<1>2. x \in Connections /\ Beside(c, x)
  BY <1>0, <1>1, WrittenFields
<1>3. Credited(x)
  BY <1>0, <1>1, WrittenCredited
<1>4. Shape(e, x)
  BY <1>1 DEF Shape, Fills
<1> HIDE DEF x
<1>5. \A i \in 1 .. Len(x.owed) : x.owed[i] \in Controls
  BY <1>0, <1>2 DEF Records, Beside
<1>6. x.pc = "stream" /\ x.state = "open"
  BY <1>1, <1>2 DEF Writing, Beside
<1>7. CASE Emit(e, x)
  BY <1>1, <1>2, <1>3, <1>4, <1>5, <1>7, EmitAfter
<1>8. CASE Room(x) > 0 /\ Go(e, x)
  <2>1. Sound(x)
    BY <1>2, <1>3, <1>5, <1>6, <1>8 DEF Records, Sound
  <2> QED
    BY <1>1, <1>4, <1>8, <2>1, GoShape
<1> QED
  BY <1>1, <1>7, <1>8

DatagramsSet(c, q) == [c EXCEPT !.pending_datagrams = q]
LEMMA DatagramsFields ==
    ASSUME NEW c \in Connections, NEW q \in Seq(Datagrams), NEW x, x = DatagramsSet(c, q)
    PROVE  /\ x \in Connections /\ Beneath(c, x) /\ StreamsKept(c, x)
           /\ x.pending_datagrams = q
           /\ x.record = c.record /\ x.sent = c.sent
           /\ x.state = c.state /\ x.pc = c.pc /\ x.owed = c.owed
BY DEF Connections, DatagramsSet, Beneath, StreamsKept

RecordSet(c, r) == [c EXCEPT !.record = r]
LEMMA RecordFields ==
    ASSUME NEW c \in Connections, NEW r \in Seq(Made), NEW x, x = RecordSet(c, r)
    PROVE  /\ x \in Connections /\ Beneath(c, x) /\ StreamsKept(c, x)
           /\ x.pending_datagrams = c.pending_datagrams
           /\ x.record = r /\ x.sent = c.sent
           /\ x.state = c.state /\ x.pc = c.pc /\ x.owed = c.owed
BY DEF Connections, RecordSet, Beneath, StreamsKept

LEMMA DatagramHead ==
    ASSUME NEW c \in Connections, c.pending_datagrams # <<>>
    PROVE  /\ Tail(c.pending_datagrams) \in Seq(Datagrams)
           /\ Head(c.pending_datagrams) \in Datagrams
           /\ DatagramOf(c) \in Made /\ DatagramOf(c) \in DatagramFrames
           /\ DatagramOf(c).at = Head(c.pending_datagrams).at
           /\ DatagramOf(c).n = Head(c.pending_datagrams).n
           /\ DatagramOf(c).s = None /\ DatagramOf(c).k = "DATAGRAM"
<1> DEFINE q == c.pending_datagrams
           h == Head(q)
<1>1. q \in Seq(Datagrams) /\ q # <<>>
  BY DEF Connections
<1> HIDE DEF q
<1>2. h \in Datagrams /\ Tail(q) \in Seq(Datagrams)
  BY <1>1
<1> HIDE DEF h
<1>3. h.at \in Nat /\ h.n \in Nat
  BY <1>2 DEF Datagrams
<1>4. DatagramOf(c) = [k |-> "DATAGRAM", s |-> None, at |-> h.at, n |-> h.n, fin |-> TRUE]
  BY DEF DatagramOf, Frame, h, q
<1>5. DatagramOf(c) \in Frames
  BY <1>3, <1>4 DEF Frames, Kind
<1>6. /\ DatagramOf(c).k = "DATAGRAM" /\ DatagramOf(c).s = None
      /\ DatagramOf(c).at = h.at /\ DatagramOf(c).n = h.n
  BY <1>4
<1>7. DatagramOf(c) \in Made /\ DatagramOf(c) \in DatagramFrames
  BY <1>5, <1>6 DEF Made, WellMade, DatagramFrames
<1> QED
  BY <1>2, <1>6, <1>7 DEF h, q

(* The parts of WriteDatagram.                                             *)
Popped(c) == DatagramsSet(c, Tail(c.pending_datagrams))
Handed(c) == RecordSet(Popped(c), Append(Popped(c).record, DatagramOf(c)))

LEMMA WriteDatagramIs ==
    ASSUME NEW e \in End, WriteDatagram(e)
    PROVE  /\ m[e].pc = "datagram" /\ UNCHANGED <<offset, said, told, calls>>
           /\ \/ Go(e, Goto(m[e], "record")) \/ Emit(e, m[e])
              \/ /\ m[e].pending_datagrams # <<>> /\ m[e].state = "open"
                 /\ \/ Go(e, Popped(m[e]))
                    \/ /\ ~(datagram_frame_length(Head(m[e].pending_datagrams).n)
                              > MaxDatagram[Peer(e)])
                       /\ Emit(e, Handed(m[e])) \/ Go(e, Handed(m[e]))
BY Zenon DEF WriteDatagram, Goto, Popped, Handed, DatagramsSet, RecordSet, DatagramOf

LEMMA PoppedFields ==
    ASSUME NEW c, Sound(c), c.pc = "datagram", c.pending_datagrams # <<>>, c.state = "open"
    PROVE  Sound(Popped(c)) /\ Pops(c, Popped(c))
<1> DEFINE x == Popped(c)
           q == Tail(c.pending_datagrams)
<1>0. c \in Connections /\ Records(c) /\ Credited(c) /\ q \in Seq(Datagrams)
  BY DatagramHead DEF Sound
<1> HIDE DEF x, q
<1>1. /\ x \in Connections /\ Beneath(c, x) /\ StreamsKept(c, x)
      /\ x.pending_datagrams = q
      /\ x.record = c.record /\ x.sent = c.sent
      /\ x.state = c.state /\ x.pc = c.pc /\ x.owed = c.owed
  BY <1>0, DatagramsFields DEF Popped, x, q
<1>2. Records(x) /\ Credited(x)
  BY <1>0, <1>1, RecordsSame, CreditedSame
<1>3. Pops(c, x)
  BY <1>1 DEF Pops, q
<1> QED
  BY <1>1, <1>2, <1>3 DEF Sound, x

LEMMA HandedFields ==
    ASSUME NEW c, Sound(c), c.pc = "datagram", c.pending_datagrams # <<>>, c.state = "open",
           NEW p \in End,
           ~(datagram_frame_length(Head(c.pending_datagrams).n) > MaxDatagram[p])
    PROVE  Sound(Handed(c)) /\ Hands(c, Handed(c), p)
<1> DEFINE x == Handed(c)
           b == Popped(c)
           r == Append(b.record, DatagramOf(c))
<1>0. c \in Connections
  BY DEF Sound
<1>1. Sound(b) /\ Pops(c, b) /\ b \in Connections /\ Records(b) /\ Credited(b)
  BY PoppedFields DEF Sound
<1> HIDE DEF b
<1>2. b.record \in Seq(Made) /\ DatagramOf(c) \in Made
  BY <1>0, <1>1, DatagramHead DEF Connections
<1>3. r \in Seq(Made)
  BY <1>2
<1>4. b.pc = "datagram" /\ b.state = "open"
  BY <1>0, DatagramHead DEF Popped, b, DatagramsSet, Connections
<1>a. x = RecordSet(b, r)
  BY DEF Handed, b
<1> HIDE DEF x, r
<1>5. /\ x \in Connections /\ Beneath(b, x) /\ StreamsKept(b, x)
      /\ x.pending_datagrams = b.pending_datagrams
      /\ x.record = r /\ x.sent = b.sent
      /\ x.state = b.state /\ x.pc = b.pc /\ x.owed = b.owed
  BY <1>1, <1>3, <1>a, RecordFields
<1>6. Records(x) /\ Credited(x)
  BY <1>1, <1>4, <1>5, CreditedSame DEF Records
<1>7. datagram_frame_length(Head(c.pending_datagrams).n) <= MaxDatagram[p]
  <2>1. Head(c.pending_datagrams).n \in Nat /\ MaxDatagram[p] \in Nat
    BY <1>0, DatagramHead, LimitAssumption DEF Datagrams
  <2> QED
    BY <2>1 DEF datagram_frame_length
<1>8. Hands(c, x, p)
  BY <1>1, <1>5, <1>7 DEF Hands, Pops, Beneath, StreamsKept, r
<1> QED
  BY <1>5, <1>6, <1>8 DEF Sound, x

LEMMA DatagramShape ==
    ASSUME Base, NEW e \in End, WriteDatagram(e)
    PROVE  Base' /\ \E w \in Connections : \E o : After(e, w, o) /\ Shape(e, w)
<1> DEFINE c == m[e]
           Result == Base' /\ \E w \in Connections : \E o : After(e, w, o) /\ Shape(e, w)
<1>0. Sound(c) /\ c.pc = "datagram" /\ UNCHANGED <<offset, said, told, calls>>
  BY SoundEnd, WriteDatagramIs
<1>1. CASE Go(e, Goto(c, "record"))
  <2>1. Sound(Goto(c, "record")) /\ Shape(e, Goto(c, "record"))
    BY <1>0, GotoSound DEF Shape
  <2> QED
    BY <1>0, <1>1, <2>1, GoShape
<1>2. CASE Emit(e, c)
  BY <1>0, <1>2, EmitShape
<1>3. CASE c.pending_datagrams # <<>> /\ c.state = "open" /\ Go(e, Popped(c))
  <2>1. Sound(Popped(c)) /\ Shape(e, Popped(c))
    BY <1>0, <1>3, PoppedFields DEF Shape
  <2> QED
    BY <1>0, <1>3, <2>1, GoShape
<1>4. CASE /\ c.pending_datagrams # <<>> /\ c.state = "open"
           /\ ~(datagram_frame_length(Head(c.pending_datagrams).n) > MaxDatagram[Peer(e)])
           /\ Emit(e, Handed(c)) \/ Go(e, Handed(c))
  <2>1. Sound(Handed(c)) /\ Shape(e, Handed(c))
    BY <1>0, <1>4, HandedFields, Ends DEF Shape
  <2>2. CASE Go(e, Handed(c))
    BY <1>0, <2>1, <2>2, GoShape
  <2>3. CASE Emit(e, Handed(c))
    <3>1. /\ Handed(c) \in Connections /\ Credited(Handed(c))
          /\ \A i \in 1 .. Len(Handed(c).owed) : Handed(c).owed[i] \in Controls
      BY <2>1 DEF Sound, Records
    <3>2. After(e, Handed(c), Handed(c).owed) /\ Base'
      BY <1>0, <2>3, <3>1, EmitAfter
    <3> QED
      BY <2>1, <3>1, <3>2
  <2> QED
    BY <1>4, <2>2, <2>3
<1> QED
  BY <1>1, <1>2, <1>3, <1>4, WriteDatagramIs

OverOf(c, p, b) == [c EXCEPT !.pc = p, !.closed = b]
LEMMA OverFields ==
    ASSUME NEW c \in Connections, NEW p \in {"idle", "send"}, NEW b \in BOOLEAN,
           NEW x, x = OverOf(c, p, b)
    PROVE  /\ x \in Connections /\ x.pc = p /\ x.record = c.record /\ x.owed = c.owed
           /\ x.state = c.state /\ x.sent = c.sent /\ Idle(c, x)
BY DEF Connections, OverOf, Idle, Beneath, StreamsKept

LEMMA RecordShape ==
    ASSUME Base, NEW e \in End, WriteRecord(e)
    PROVE  Base' /\ \E w \in Connections : \E o : After(e, w, o) /\ Shape(e, w)
<1> DEFINE c == m[e]
           b == c.closed \/ c.state = "closing"
           x == OverOf(c, "idle", b)
<1>0. Sound(c) /\ c \in Connections /\ Records(c) /\ Credited(c)
      /\ UNCHANGED <<offset, said, told, calls>>
  BY SoundEnd DEF WriteRecord, Sound
<1>1. CASE c.state = "open" /\ Full(c) # <<>>
  <2>1. Emit(e, c)
    BY <1>1 DEF WriteRecord
  <2> QED
    BY <1>0, <2>1, EmitShape
<1>2. CASE ~(c.state = "open" /\ Full(c) # <<>>)
  <2>1. Go(e, x)
    BY <1>2 DEF WriteRecord, OverOf
  <2>2. c.record = <<>>
    <3>1. CASE c.state # "open"
      BY <1>0, <3>1 DEF Records
    <3>2. CASE Full(c) = <<>>
      <4> DEFINE r == c.record
                 o == c.owed
      <4>1. r \in Seq(Made) /\ o \in Seq(Made) /\ r \o o = <<>>
        BY <1>0, <3>2 DEF Connections, Full
      <4> HIDE DEF r, o
      <4>2. Len(r \o o) = Len(r) + Len(o) /\ Len(r \o o) = 0
        BY <4>1
      <4>3. r = <<>>
        BY <4>1, <4>2
      <4> QED
        BY <4>3 DEF r
    <3> QED
      BY <1>2, <3>1, <3>2
  <2>3. b \in BOOLEAN
    BY <1>0 DEF Connections
  <2> HIDE DEF x, b
  <2>4. /\ x \in Connections /\ x.pc = "idle" /\ x.record = c.record /\ x.owed = c.owed
        /\ x.state = c.state /\ x.sent = c.sent /\ Idle(c, x)
    BY <1>0, <2>3, OverFields DEF x
  <2>5. Records(x) /\ Credited(x)
    BY <1>0, <2>2, <2>4, CreditedSame DEF Records
  <2>6. Sound(x) /\ Shape(e, x)
    BY <2>4, <2>5 DEF Sound, Shape
  <2> QED
    BY <1>0, <2>1, <2>6, GoShape
<1> QED
  BY <1>1, <1>2

LEMMA FlushShape ==
    ASSUME Base, NEW e \in End, Flush(e)
    PROVE  Base' /\ \E w \in Connections : \E o : After(e, w, o) /\ Shape(e, w)
BY SendShape, FinishShape, HeadShape, DiscardShape, ErrorShape, DatagramShape, RecordShape
   DEF Flush

-----------------------------------------------------------------------------
(* Calls, and the turns of the pump.                                       *)

(* d is c with other queues and streams; what is under way is the same.    *)
Changed(c, d) ==
    /\ d \in Connections
    /\ d.record = c.record /\ d.sent = c.sent
    /\ \A i \in 1 .. Len(d.owed) : d.owed[i] \in Controls

(* The end e is left with the fields of d.                                 *)
Left(e, d) ==
    /\ m'[Peer(e)] = m[Peer(e)]
    /\ m'[e].pending_stream_data = d.pending_stream_data
    /\ m'[e].pending_datagrams = d.pending_datagrams
    /\ m'[e].tx = d.tx /\ m'[e].rx = d.rx /\ m'[e].sent = d.sent
    /\ m'[e].buffer = d.buffer /\ m'[e].owed = d.owed
    /\ Flight(e)' = wire'[e] /\ Flight(Peer(e))' = wire'[Peer(e)]
    /\ Flight(e) = wire[e] /\ Flight(Peer(e)) = wire[Peer(e)]

LEMMA QuietFlight ==
    ASSUME Base, Quiet
    PROVE  \A e \in End : m[e].record = <<>> /\ Flight(e) = wire[e]
<1> SUFFICES ASSUME NEW e \in End PROVE m[e].record = <<>> /\ Flight(e) = wire[e]
  OBVIOUS
<1>1. m[e].record = <<>>
  BY SoundEnd DEF Quiet, Sound, Records
<1>2. wire[e] \in Seq(Made)
  BY DEF Base, TypeOK
<1> QED
  BY <1>1, <1>2 DEF Flight

(* Between flushes, e becomes x.                                           *)
LEMMA QuietStep ==
    ASSUME Base, Quiet, NEW e \in End, NEW d, Changed(m[e], d),
           NEW x \in Connections, m' = [m EXCEPT ![e] = x],
           x.pc \in {"idle", "send"},
           x.record = <<>>, x.sent = d.sent, x.owed = d.owed,
           x.pending_stream_data = d.pending_stream_data,
           x.pending_datagrams = d.pending_datagrams,
           x.tx = d.tx, x.rx = d.rx, x.buffer = d.buffer,
           wire' \in [End -> Seq(Made)]
    PROVE  /\ Left(e, d) /\ m' \in [End -> Connections]
           /\ \A z \in End : Sound(m'[z])
<1> DEFINE p == Peer(e)
<1>0. p \in End /\ p # e /\ \A z \in End : z = e \/ z = p
  BY Ends
<1>1. m \in [End -> Connections]
  BY DEF Base, TypeOK
<1>2. m'[e] = x /\ m'[p] = m[p] /\ m' \in [End -> Connections]
  BY <1>0, <1>1
<1>3. m[p].record = <<>> /\ Flight(e) = wire[e] /\ Flight(p) = wire[p]
  BY <1>0, QuietFlight
<1>4. wire'[e] \o <<>> = wire'[e] /\ wire'[p] \o <<>> = wire'[p]
  <2>1. wire'[e] \in Seq(Made) /\ wire'[p] \in Seq(Made)
    BY <1>0
  <2> QED
    BY <2>1
<1>5. Flight(e)' = wire'[e] /\ Flight(p)' = wire'[p]
  BY <1>2, <1>3, <1>4 DEF Flight
<1>6. Left(e, d)
  BY <1>2, <1>3, <1>5 DEF Left
<1>7. Credited(x)
  <2>1. Credited(m[e]) /\ x.sent = m[e].sent
    BY SoundEnd DEF Sound, Changed
  <2> QED
    BY <2>1, CreditedSame
<1>8. Records(x)
  BY DEF Records, Changed
<1>9. Sound(x)
  BY <1>7, <1>8 DEF Sound
<1> QED
  BY <1>0, <1>2, <1>6, <1>9 DEF Base

LEMMA CallFields ==
    ASSUME NEW d \in Connections, NEW x, x = Goto(d, "send")
    PROVE  /\ x \in Connections /\ x.pc = "send" /\ x.record = d.record
           /\ x.sent = d.sent /\ x.owed = d.owed
           /\ x.pending_stream_data = d.pending_stream_data
           /\ x.pending_datagrams = d.pending_datagrams
           /\ x.tx = d.tx /\ x.rx = d.rx /\ x.buffer = d.buffer
BY GotoFields DEF Idle, Beneath, StreamsKept

LEMMA CallStep ==
    ASSUME Base, NEW e \in End, NEW d, Changed(m[e], d), Call(e, d),
           said' \in [End -> [Streams -> [n : Nat, fin : BOOLEAN]]]
    PROVE  /\ Base' /\ Left(e, d) /\ Quiet /\ UNCHANGED <<wire, offset, told>>
           /\ calls'[e] = calls[e] + 1 /\ calls'[Peer(e)] = calls[Peer(e)]
<1> DEFINE x == Goto(d, "send")
<1>1. Quiet /\ UNCHANGED <<wire, offset, told>> /\ m' = [m EXCEPT ![e] = x]
      /\ calls' = [calls EXCEPT ![e] = @ + 1]
  BY DEF Call, Goto
<1>2. TypeOK
  BY DEF Base
<1>3. d \in Connections /\ d.record = <<>>
  BY <1>1, QuietFlight DEF Changed
<1> HIDE DEF x
<1>4. /\ x \in Connections /\ x.pc = "send" /\ x.record = d.record
      /\ x.sent = d.sent /\ x.owed = d.owed
      /\ x.pending_stream_data = d.pending_stream_data
      /\ x.pending_datagrams = d.pending_datagrams
      /\ x.tx = d.tx /\ x.rx = d.rx /\ x.buffer = d.buffer
  BY <1>3, CallFields DEF x
<1>5. wire' \in [End -> Seq(Made)]
  BY <1>1, <1>2 DEF TypeOK
<1>6. Left(e, d) /\ m' \in [End -> Connections] /\ \A z \in End : Sound(m'[z])
  BY <1>1, <1>3, <1>4, <1>5, QuietStep
<1>7. /\ calls'[e] = calls[e] + 1 /\ calls'[Peer(e)] = calls[Peer(e)]
      /\ calls' \in [End -> Nat]
  BY <1>1, <1>2, Ends DEF TypeOK
<1>8. TypeOK'
  BY <1>1, <1>2, <1>5, <1>6, <1>7 DEF TypeOK
<1> QED
  BY <1>1, <1>6, <1>7, <1>8 DEF Base

OwedControls(c) == \A i \in 1 .. Len(c.owed) : c.owed[i] \in Controls

LEMMA OwedEnd == ASSUME Base, NEW e \in End PROVE OwedControls(m[e])
BY SoundEnd DEF Sound, Records, OwedControls

LEMMA OwedMore ==
    ASSUME NEW c \in Connections, OwedControls(c), NEW f \in Made, f \in Controls
    PROVE  /\ Append(c.owed, f) \in Seq(Made)
           /\ \A i \in 1 .. Len(Append(c.owed, f)) : Append(c.owed, f)[i] \in Controls
<1> DEFINE q == c.owed
<1>1. q \in Seq(Made) /\ \A i \in 1 .. Len(q) : q[i] \in Controls
  BY DEF Connections, OwedControls
<1> HIDE DEF q
<1>2. Append(q, f) \in Seq(Made) /\ \A i \in 1 .. Len(Append(q, f)) : Append(q, f)[i] \in Controls
  BY <1>1
<1> QED
  BY <1>2 DEF q

(* d is c with its streams as t and r have them, and o due.                *)
StreamsSet(c, t, r, o) == [c EXCEPT !.tx = t, !.rx = r, !.owed = o]
Tx == {"none", "open", "fin", "reset"}
Rx == {"none", "open", "stopped", "ended"}

QueuesKept(c, d) ==
    /\ d.pending_stream_data = c.pending_stream_data
    /\ d.pending_datagrams = c.pending_datagrams
    /\ d.sent = c.sent /\ d.buffer = c.buffer

LEMMA StreamsFields ==
    ASSUME NEW c \in Connections, NEW t \in [Streams -> Tx], NEW r \in [Streams -> Rx],
           NEW o \in Seq(Made), NEW d, d = StreamsSet(c, t, r, o)
    PROVE  /\ d \in Connections /\ d.record = c.record /\ d.state = c.state
           /\ d.tx = t /\ d.rx = r /\ d.owed = o /\ QueuesKept(c, d)
           /\ d.pc = c.pc
BY DEF Connections, StreamsSet, QueuesKept, Tx, Rx

LEMMA Sides ==
    ASSUME NEW c \in Connections
    PROVE  c.tx \in [Streams -> Tx] /\ c.rx \in [Streams -> Rx] /\ c.owed \in Seq(Made)
BY DEF Connections, Tx, Rx

(* What shutting sides of s changes.                                       *)
Shut(c, s, d) ==
    /\ \A r \in Streams : d.tx[r] = c.tx[r] \/ (c.tx[r] = "open" /\ d.tx[r] = "reset")
    /\ \A r \in Streams : d.rx[r] = c.rx[r] \/ (c.rx[r] = "open" /\ d.rx[r] = "stopped")
    /\ \A i \in 1 .. Len(d.owed) :
         \/ d.owed[i].s = s
         \/ \E j \in 1 .. Len(c.owed) : d.owed[i].s = c.owed[j].s

LEMMA ShutSame == ASSUME NEW c, NEW s PROVE Shut(c, s, c)
BY DEF Shut

LEMMA ShutBoth ==
    ASSUME NEW c, NEW s, NEW b, NEW d, Shut(c, s, b), Shut(b, s, d) PROVE Shut(c, s, d)
<1>1. \A r \in Streams : d.tx[r] = c.tx[r] \/ (c.tx[r] = "open" /\ d.tx[r] = "reset")
  BY DEF Shut
<1>2. \A r \in Streams : d.rx[r] = c.rx[r] \/ (c.rx[r] = "open" /\ d.rx[r] = "stopped")
  BY DEF Shut
<1>3. \A i \in 1 .. Len(d.owed) :
         \/ d.owed[i].s = s
         \/ \E j \in 1 .. Len(c.owed) : d.owed[i].s = c.owed[j].s
  BY DEF Shut
<1> QED
  BY <1>1, <1>2, <1>3 DEF Shut

LEMMA ShutOwed ==
    ASSUME NEW q \in Seq(Made), NEW f \in Made
    PROVE  \A i \in 1 .. Len(Append(q, f)) :
              \/ Append(q, f)[i].s = f.s
              \/ \E j \in 1 .. Len(q) : Append(q, f)[i].s = q[j].s
OBVIOUS

LEMMA ShutWriteFields ==
    ASSUME NEW c \in Connections, OwedControls(c), NEW s \in Streams
    PROVE  /\ Changed(c, ShutWrite(c, s)) /\ QueuesKept(c, ShutWrite(c, s))
           /\ Shut(c, s, ShutWrite(c, s))
<1> DEFINE d == ShutWrite(c, s)
           t == [c.tx EXCEPT ![s] = "reset"]
           f == Control("RESET", s)
           o == Append(c.owed, f)
<1>1. CASE c.tx[s] # "open"
  <2>1. d = c
    BY <1>1 DEF ShutWrite
  <2> QED
    BY <2>1, ShutSame DEF Changed, QueuesKept, OwedControls
<1>2. CASE c.tx[s] = "open"
  <2>1. t \in [Streams -> Tx]
    BY Sides DEF Tx
  <2>2. f \in Made /\ f \in Controls
    BY ControlMade
  <2> HIDE DEF f
  <2>3. o \in Seq(Made) /\ \A i \in 1 .. Len(o) : o[i] \in Controls
    BY <2>2, OwedMore
  <2>4. d = StreamsSet(c, t, c.rx, o)
    BY <1>2 DEF ShutWrite, StreamsSet, Connections, f
  <2> HIDE DEF d, t, o
  <2>5. /\ d \in Connections /\ d.record = c.record /\ d.state = c.state
        /\ d.tx = t /\ d.rx = c.rx /\ d.owed = o /\ QueuesKept(c, d)
    BY <2>1, <2>3, <2>4, StreamsFields, Sides
  <2>6. Changed(c, d)
    BY <2>3, <2>5 DEF Changed, QueuesKept
  <2>7. Shut(c, s, d)
    <3>1. \A u \in Streams : t[u] = c.tx[u] \/ (c.tx[u] = "open" /\ t[u] = "reset")
      BY <1>2, Sides DEF t
    <3>2. \A i \in 1 .. Len(o) :
             o[i].s = s \/ \E j \in 1 .. Len(c.owed) : o[i].s = c.owed[j].s
      <4>1. f.s = s /\ c.owed \in Seq(Made)
        BY Sides DEF f, Control, Frame
      <4> QED
        BY <2>2, <4>1, ShutOwed DEF o
    <3> QED
      BY <2>5, <3>1, <3>2 DEF Shut
  <2> QED
    BY <2>5, <2>6, <2>7 DEF d
<1> QED
  BY <1>1, <1>2

LEMMA ShutReadFields ==
    ASSUME NEW c \in Connections, OwedControls(c), NEW s \in Streams
    PROVE  /\ Changed(c, ShutRead(c, s)) /\ QueuesKept(c, ShutRead(c, s))
           /\ Shut(c, s, ShutRead(c, s))
<1> DEFINE d == ShutRead(c, s)
           r == [c.rx EXCEPT ![s] = "stopped"]
           f == Control("STOP", s)
           o == Append(c.owed, f)
<1>1. CASE c.rx[s] # "open"
  <2>1. d = c
    BY <1>1 DEF ShutRead
  <2> QED
    BY <2>1, ShutSame DEF Changed, QueuesKept, OwedControls
<1>2. CASE c.rx[s] = "open"
  <2>1. r \in [Streams -> Rx]
    BY Sides DEF Rx
  <2>2. f \in Made /\ f \in Controls
    BY ControlMade
  <2> HIDE DEF f
  <2>3. o \in Seq(Made) /\ \A i \in 1 .. Len(o) : o[i] \in Controls
    BY <2>2, OwedMore
  <2>4. d = StreamsSet(c, c.tx, r, o)
    BY <1>2 DEF ShutRead, StreamsSet, Connections, f
  <2> HIDE DEF d, r, o
  <2>5. /\ d \in Connections /\ d.record = c.record /\ d.state = c.state
        /\ d.tx = c.tx /\ d.rx = r /\ d.owed = o /\ QueuesKept(c, d)
    BY <2>1, <2>3, <2>4, StreamsFields, Sides
  <2>6. Changed(c, d)
    BY <2>3, <2>5 DEF Changed, QueuesKept
  <2>7. Shut(c, s, d)
    <3>1. \A u \in Streams : r[u] = c.rx[u] \/ (c.rx[u] = "open" /\ r[u] = "stopped")
      BY <1>2, Sides DEF r
    <3>2. \A i \in 1 .. Len(o) :
             o[i].s = s \/ \E j \in 1 .. Len(c.owed) : o[i].s = c.owed[j].s
      <4>1. f.s = s /\ c.owed \in Seq(Made)
        BY Sides DEF f, Control, Frame
      <4> QED
        BY <2>2, <4>1, ShutOwed DEF o
    <3> QED
      BY <2>5, <3>1, <3>2 DEF Shut
  <2> QED
    BY <2>5, <2>6, <2>7 DEF d
<1> QED
  BY <1>1, <1>2

-----------------------------------------------------------------------------
(* What a call does.                                                       *)

Uttered == [n : Nat, fin : BOOLEAN]

Opens(e, d) ==
    /\ e = "client" /\ QueuesKept(m[e], d) /\ d.owed = m[e].owed /\ said' = said
    /\ \E s \in Streams :
         /\ m[e].tx[s] = "none" /\ d.tx[s] = "open" /\ d.rx[s] \in {"open", "ended"}
         /\ \A r \in Streams : r # s => d.tx[r] = m[e].tx[r] /\ d.rx[r] = m[e].rx[r]
WriteOf(e, s, n, fin) == [s |-> s, at |-> said[e][s].n, n |-> n, fin |-> fin]
Sends(e, d) ==
    /\ d.pending_datagrams = m[e].pending_datagrams
    /\ d.tx = m[e].tx /\ d.rx = m[e].rx /\ d.sent = m[e].sent
    /\ d.buffer = m[e].buffer /\ d.owed = m[e].owed
    /\ \E s \in Streams, n \in Nat, fin \in BOOLEAN :
         /\ m[e].tx[s] # "none" /\ ~said[e][s].fin
         /\ said'[e][s].n = said[e][s].n + n /\ said'[e][s].fin = fin
         /\ \A r \in Streams : r # s => said'[e][r] = said[e][r]
         /\ said'[Peer(e)] = said[Peer(e)]
         /\ d.pending_stream_data = Append(m[e].pending_stream_data, WriteOf(e, s, n, fin))
Queues(e, d) ==
    /\ StreamsKept(m[e], d) /\ Beneath(m[e], d) /\ said' = said
    /\ \/ d.pending_datagrams = m[e].pending_datagrams
       \/ \E n \in DatagramSizes :
            d.pending_datagrams = Append(m[e].pending_datagrams, [at |-> calls[e], n |-> n])
Shuts(e, d) ==
    /\ QueuesKept(m[e], d)
    /\ \E s \in Streams :
         /\ m[e].tx[s] # "none" \/ m[e].rx[s] # "none"
         /\ Shut(m[e], s, d)
         /\ \A r \in Streams :
              /\ said'[e][r].n = said[e][r].n
              /\ said[e][r].fin => said'[e][r].fin
              /\ said'[e][r].fin => said[e][r].fin \/ m[e].tx[r] # "none"
         /\ said'[Peer(e)] = said[Peer(e)]

Called(e, d) ==
    /\ Left(e, d) /\ Quiet /\ UNCHANGED <<wire, offset, told>>
    /\ calls'[e] = calls[e] + 1 /\ calls'[Peer(e)] = calls[Peer(e)]
CallShape(e, d) == Opens(e, d) \/ Sends(e, d) \/ Queues(e, d) \/ Shuts(e, d)

LEMMA OpenShape ==
    ASSUME Base, NEW e \in End, NEW s \in Streams, OpenStream(e, s)
    PROVE  Base' /\ \E d \in Connections : Called(e, d) /\ CallShape(e, d)
<1> DEFINE c == m[e]
           t == [c.tx EXCEPT ![s] = "open"]
           r == [c.rx EXCEPT ![s] = IF s \in Bidi THEN "open" ELSE "ended"]
           d == StreamsSet(c, t, r, c.owed)
<1>1. c \in Connections /\ OwedControls(c)
  BY SoundEnd, OwedEnd
<1>2. c.tx \in [Streams -> Tx] /\ c.rx \in [Streams -> Rx] /\ c.owed \in Seq(Made)
  BY <1>1, Sides
<1>3. t \in [Streams -> Tx] /\ r \in [Streams -> Rx]
  BY <1>2 DEF Tx, Rx
<1>4. /\ e = "client" /\ c.tx[s] = "none" /\ said' = said
  BY DEF OpenStream
<1>5. Call(e, d)
  <2>1. d = [c EXCEPT !.tx[s] = "open", !.rx[s] = IF s \in Bidi THEN "open" ELSE "ended"]
    BY <1>1 DEF StreamsSet, Connections
  <2> QED
    BY <2>1 DEF OpenStream
<1> HIDE DEF d
<1>6. /\ d \in Connections /\ d.record = c.record /\ d.state = c.state
      /\ d.tx = t /\ d.rx = r /\ d.owed = c.owed /\ QueuesKept(c, d)
  BY <1>1, <1>2, <1>3, StreamsFields DEF d
<1>7. Changed(c, d)
  BY <1>1, <1>6 DEF Changed, QueuesKept, OwedControls
<1>8. said' \in [End -> [Streams -> [n : Nat, fin : BOOLEAN]]]
  BY <1>4 DEF Base, TypeOK
<1>9. Base' /\ Called(e, d)
  BY <1>5, <1>7, <1>8, CallStep DEF Called
<1>10. /\ t[s] = "open" /\ r[s] \in {"open", "ended"}
       /\ \A u \in Streams : u # s => t[u] = c.tx[u] /\ r[u] = c.rx[u]
  BY <1>2
<1>11. Opens(e, d)
  BY <1>4, <1>6, <1>10 DEF Opens
<1> QED
  BY <1>6, <1>9, <1>11 DEF CallShape

LEMMA SaidSent ==
    ASSUME NEW f \in [End -> [Streams -> Uttered]], NEW e \in End, NEW s \in Streams,
           NEW y \in Uttered, NEW g, g = [f EXCEPT ![e][s] = y]
    PROVE  /\ g \in [End -> [Streams -> Uttered]] /\ g[e][s] = y
           /\ \A r \in Streams : r # s => g[e][r] = f[e][r]
           /\ \A p \in End : p # e => g[p] = f[p]
OBVIOUS

LEMMA StreamDataShape ==
    ASSUME Base, NEW e \in End, NEW s \in Streams, NEW n \in WriteSizes, NEW fin \in BOOLEAN,
           SendStreamData(e, s, n, fin)
    PROVE  Base' /\ \E d \in Connections : Called(e, d) /\ CallShape(e, d)
<1> DEFINE c == m[e]
           w == WriteOf(e, s, n, fin)
           q == Append(c.pending_stream_data, w)
           d == QueueSet(c, q)
           y == [n |-> said[e][s].n + n, fin |-> fin]
<1>1. c \in Connections /\ OwedControls(c) /\ c.pending_stream_data \in Seq(Writes)
  BY SoundEnd, OwedEnd DEF Connections
<1>2. said \in [End -> [Streams -> Uttered]]
  BY DEF Base, TypeOK, Uttered
<1>3. said[e][s] \in Uttered /\ said[e][s].n \in Nat /\ n \in Nat
  BY <1>2, BoundAssumption DEF Uttered
<1>4. w \in Writes /\ y \in Uttered
  BY <1>3 DEF Writes, WriteOf, Uttered
<1> HIDE DEF w
<1>5. q \in Seq(Writes)
  BY <1>1, <1>4
<1>6. /\ c.tx[s] # "none" /\ ~said[e][s].fin /\ said' = [said EXCEPT ![e][s] = y]
  BY DEF SendStreamData, Writable
<1>7. Call(e, d)
  BY DEF SendStreamData, QueueSet, w, WriteOf
<1>y. y.n = said[e][s].n + n /\ y.fin = fin
  OBVIOUS
<1> HIDE DEF d, q, y
<1>8. /\ d \in Connections /\ Beside(c, d) /\ d.pending_stream_data = q
      /\ d.record = c.record /\ d.sent = c.sent /\ d.tx = c.tx
  BY <1>1, <1>5, QueueFields DEF d
<1>9. Changed(c, d)
  BY <1>1, <1>8 DEF Changed, Beside, OwedControls
<1>10. /\ said' \in [End -> [Streams -> Uttered]] /\ said'[e][s] = y
       /\ \A r \in Streams : r # s => said'[e][r] = said[e][r]
       /\ said'[Peer(e)] = said[Peer(e)]
  BY <1>2, <1>4, <1>6, SaidSent, Ends
<1>11. Base' /\ Called(e, d)
  BY <1>7, <1>9, <1>10, CallStep DEF Called, Uttered
<1>12. Sends(e, d)
  <2>1. /\ d.pending_datagrams = c.pending_datagrams
        /\ d.tx = c.tx /\ d.rx = c.rx /\ d.sent = c.sent
        /\ d.buffer = c.buffer /\ d.owed = c.owed
    BY <1>8 DEF Beside
  <2>2. said'[e][s].n = said[e][s].n + n /\ said'[e][s].fin = fin
    BY <1>10, <1>y
  <2>3. d.pending_stream_data = Append(c.pending_stream_data, WriteOf(e, s, n, fin))
    BY <1>8 DEF q, w
  <2> QED
    BY <1>3, <1>6, <1>10, <2>1, <2>2, <2>3 DEF Sends
<1> QED
  BY <1>8, <1>11, <1>12 DEF CallShape

LEMMA DatagramCallShape ==
    ASSUME Base, NEW e \in End, NEW n \in DatagramSizes, SendDatagram(e, n)
    PROVE  Base' /\ \E d \in Connections : Called(e, d) /\ CallShape(e, d)
<1> DEFINE c == m[e]
           y == [at |-> calls[e], n |-> n]
           q == Append(c.pending_datagrams, y)
           x == DatagramsSet(c, q)
<1>1. c \in Connections /\ OwedControls(c) /\ c.pending_datagrams \in Seq(Datagrams)
  BY SoundEnd, OwedEnd DEF Connections
<1>2. calls[e] \in Nat /\ n \in Nat
  BY BoundAssumption DEF Base, TypeOK
<1>3. y \in Datagrams
  BY <1>2 DEF Datagrams
<1>4. said' = said /\ said' \in [End -> [Streams -> [n : Nat, fin : BOOLEAN]]]
  BY DEF SendDatagram, Base, TypeOK
<1>5. Call(e, c) \/ Call(e, x)
  BY DEF SendDatagram, DatagramsSet
<1> HIDE DEF y
<1>6. q \in Seq(Datagrams)
  BY <1>1, <1>3
<1>7. CASE Call(e, c)
  <2>1. Changed(c, c) /\ Queues(e, c)
    BY <1>1, <1>4 DEF Changed, Queues, OwedControls, StreamsKept, Beneath
  <2>2. Base' /\ Called(e, c)
    BY <1>4, <1>7, <2>1, CallStep DEF Called
  <2> QED
    BY <1>1, <2>1, <2>2 DEF CallShape
<1>8. CASE Call(e, x)
  <2> HIDE DEF x, q
  <2>1. /\ x \in Connections /\ Beneath(c, x) /\ StreamsKept(c, x)
        /\ x.pending_datagrams = q
        /\ x.record = c.record /\ x.sent = c.sent
        /\ x.state = c.state /\ x.pc = c.pc /\ x.owed = c.owed
    BY <1>1, <1>6, DatagramsFields DEF x
  <2>2. Changed(c, x) /\ Queues(e, x)
    BY <1>1, <1>4, <2>1 DEF Changed, Queues, OwedControls, q, y
  <2>3. Base' /\ Called(e, x)
    BY <1>4, <1>8, <2>2, CallStep DEF Called
  <2> QED
    BY <2>1, <2>2, <2>3 DEF CallShape
<1> QED
  BY <1>5, <1>7, <1>8

(* The application of e has ended s.                                       *)
EndedAs(f, e, s) == [f EXCEPT ![e][s].fin = TRUE]

LEMMA SaidEnded ==
    ASSUME NEW f \in [End -> [Streams -> Uttered]], NEW e \in End, NEW s \in Streams,
           NEW g, g = EndedAs(f, e, s)
    PROVE  /\ g \in [End -> [Streams -> Uttered]] /\ g[e][s].n = f[e][s].n /\ g[e][s].fin
           /\ \A r \in Streams : r # s => g[e][r] = f[e][r]
           /\ \A p \in End : p # e => g[p] = f[p]
<1> DEFINE b == TRUE
           y == [f[e][s] EXCEPT !.fin = b]
<1>1. f[e][s] \in Uttered /\ f[e] \in [Streams -> Uttered]
  OBVIOUS
<1>2. b \in BOOLEAN /\ b
  OBVIOUS
<1>3. g = [f EXCEPT ![e] = [f[e] EXCEPT ![s] = y]]
  BY DEF EndedAs
<1> HIDE DEF b
<1>4. y \in Uttered /\ y.n = f[e][s].n /\ y.fin = b
  BY <1>1, <1>2 DEF Uttered
<1> HIDE DEF y
<1> QED
  BY <1>1, <1>2, <1>3, <1>4, ZenonT(60)

LEMMA ResetShape ==
    ASSUME Base, NEW e \in End, NEW s \in Streams, NEW d,
           Changed(m[e], d), QueuesKept(m[e], d), Shut(m[e], s, d), Call(e, d),
           m[e].tx[s] # "none", said' = [said EXCEPT ![e][s].fin = TRUE]
    PROVE  Base' /\ \E x \in Connections : Called(e, x) /\ CallShape(e, x)
<1>1. said \in [End -> [Streams -> Uttered]]
  BY DEF Base, TypeOK, Uttered
<1>2. /\ said' \in [End -> [Streams -> Uttered]]
      /\ said'[e][s].n = said[e][s].n /\ said'[e][s].fin
      /\ \A r \in Streams : r # s => said'[e][r] = said[e][r]
      /\ said'[Peer(e)] = said[Peer(e)]
  <2>1. said' = EndedAs(said, e, s)
    BY DEF EndedAs
  <2> DEFINE f == said
             g == said'
  <2>2. f \in [End -> [Streams -> Uttered]] /\ g = EndedAs(f, e, s)
    BY <1>1, <2>1
  <2> HIDE DEF f, g
  <2>3. /\ g \in [End -> [Streams -> Uttered]] /\ g[e][s].n = f[e][s].n /\ g[e][s].fin
        /\ \A r \in Streams : r # s => g[e][r] = f[e][r]
        /\ \A p \in End : p # e => g[p] = f[p]
    BY <2>2, SaidEnded
  <2>4. Peer(e) \in End /\ Peer(e) # e
    BY Ends
  <2> QED
    BY <2>3, <2>4 DEF f, g
<1>3. Base' /\ Called(e, d) /\ d \in Connections
  BY <1>2, CallStep DEF Called, Uttered, Changed
<1>4. \A r \in Streams :
        /\ said'[e][r].n = said[e][r].n
        /\ said[e][r].fin => said'[e][r].fin
        /\ said'[e][r].fin => said[e][r].fin \/ m[e].tx[r] # "none"
  BY <1>2
<1>5. Shuts(e, d)
  BY <1>2, <1>4 DEF Shuts
<1> QED
  BY <1>3, <1>5 DEF CallShape

LEMMA KeepShape ==
    ASSUME Base, NEW e \in End, NEW d, Changed(m[e], d), Call(e, d), said' = said,
           Shuts(e, d) \/ Queues(e, d)
    PROVE  Base' /\ \E x \in Connections : Called(e, x) /\ CallShape(e, x)
<1>1. said' \in [End -> [Streams -> [n : Nat, fin : BOOLEAN]]]
  BY DEF Base, TypeOK
<1>2. Base' /\ Called(e, d) /\ d \in Connections
  BY <1>1, CallStep DEF Called, Changed
<1> QED
  BY <1>2 DEF CallShape

ClosesSet(c, b) == [c EXCEPT !.close_requested = b]
LEMMA ClosesFields ==
    ASSUME NEW c \in Connections, NEW b \in BOOLEAN, NEW x, x = ClosesSet(c, b)
    PROVE  /\ x \in Connections /\ x.pc = c.pc /\ x.record = c.record /\ x.owed = c.owed
           /\ x.state = c.state /\ x.sent = c.sent /\ Idle(c, x)
BY DEF Connections, ClosesSet, Idle, Beneath, StreamsKept

LEMMA CallsShape ==
    ASSUME Base, NEW e \in End, Calls(e)
    PROVE  Base' /\ \E d \in Connections : Called(e, d) /\ CallShape(e, d)
<1> DEFINE c == m[e]
<1>0. c \in Connections /\ OwedControls(c)
  BY SoundEnd, OwedEnd
<1>1. ASSUME NEW s \in Streams, OpenStream(e, s)
      PROVE  Base' /\ \E d \in Connections : Called(e, d) /\ CallShape(e, d)
  BY <1>1, OpenShape
<1>2. ASSUME NEW s \in Streams, ResetStream(e, s)
      PROVE  Base' /\ \E d \in Connections : Called(e, d) /\ CallShape(e, d)
  <2> DEFINE d == ShutWrite(c, s)
  <2>1. Call(e, d) /\ c.tx[s] # "none" /\ said' = [said EXCEPT ![e][s].fin = TRUE]
    BY <1>2 DEF ResetStream, Writable
  <2>2. Changed(c, d) /\ QueuesKept(c, d) /\ Shut(c, s, d)
    BY <1>0, ShutWriteFields
  <2> QED
    BY <2>1, <2>2, ResetShape
<1>3. ASSUME NEW s \in Streams, StopSending(e, s)
      PROVE  Base' /\ \E d \in Connections : Called(e, d) /\ CallShape(e, d)
  <2> DEFINE d == ShutRead(c, s)
  <2>1. Call(e, d) /\ c.rx[s] # "none" /\ said' = said
    BY <1>3 DEF StopSending
  <2>2. Changed(c, d) /\ QueuesKept(c, d) /\ Shut(c, s, d)
    BY <1>0, ShutReadFields
  <2>3. Shuts(e, d)
    BY <2>1, <2>2 DEF Shuts
  <2> QED
    BY <2>1, <2>2, <2>3, KeepShape
<1>4. ASSUME NEW s \in Streams, CloseStream(e, s)
      PROVE  Base' /\ \E d \in Connections : Called(e, d) /\ CallShape(e, d)
  <2> DEFINE b == ShutWrite(c, s)
             d == ShutRead(b, s)
  <2>1. Call(e, d) /\ c.tx[s] # "none" /\ said' = [said EXCEPT ![e][s].fin = TRUE]
    BY <1>4 DEF CloseStream
  <2>2. Changed(c, b) /\ QueuesKept(c, b) /\ Shut(c, s, b)
    BY <1>0, ShutWriteFields
  <2>3. b \in Connections /\ OwedControls(b)
    BY <2>2 DEF Changed, OwedControls
  <2>4. Changed(b, d) /\ QueuesKept(b, d) /\ Shut(b, s, d)
    BY <2>3, ShutReadFields
  <2> HIDE DEF b, d
  <2>5. Changed(c, d) /\ QueuesKept(c, d) /\ Shut(c, s, d)
    BY <2>2, <2>4, ShutBoth DEF Changed, QueuesKept
  <2> QED
    BY <2>1, <2>5, ResetShape
<1>5. ASSUME NEW s \in Streams, NEW n \in WriteSizes, NEW fin \in BOOLEAN,
             SendStreamData(e, s, n, fin)
      PROVE  Base' /\ \E d \in Connections : Called(e, d) /\ CallShape(e, d)
  BY <1>5, StreamDataShape
<1>6. ASSUME NEW n \in DatagramSizes, SendDatagram(e, n)
      PROVE  Base' /\ \E d \in Connections : Called(e, d) /\ CallShape(e, d)
  BY <1>6, DatagramCallShape
<1>7. ASSUME Close(e)
      PROVE  Base' /\ \E d \in Connections : Called(e, d) /\ CallShape(e, d)
  <2> DEFINE d == ClosesSet(c, TRUE)
  <2>1. Call(e, d) /\ said' = said
    BY <1>7 DEF Close, ClosesSet
  <2> HIDE DEF d
  <2>2. /\ d \in Connections /\ d.pc = c.pc /\ d.record = c.record /\ d.owed = c.owed
        /\ d.state = c.state /\ d.sent = c.sent /\ Idle(c, d)
    BY <1>0, ClosesFields DEF d
  <2>3. Changed(c, d) /\ Queues(e, d)
    BY <1>0, <2>1, <2>2 DEF Changed, Queues, OwedControls, Idle
  <2> QED
    BY <2>1, <2>3, KeepShape
<1> QED
  BY <1>1, <1>2, <1>3, <1>4, <1>5, <1>6, <1>7 DEF Calls

-----------------------------------------------------------------------------
(* The turns of the pump that are not part of a flush.                     *)

Rested(e) == Left(e, m[e]) /\ Quiet /\ UNCHANGED <<wire, offset, said, told, calls>>

TurnSet(c, p, l, b) == [c EXCEPT !.pc = p, !.loop = l, !.closed = b]
LEMMA TurnFields ==
    ASSUME NEW c \in Connections, NEW p \in {"idle", "send"}, NEW l \in {"flush", "read"},
           NEW b, b \in BOOLEAN, NEW x, x = TurnSet(c, p, l, b)
    PROVE  /\ x \in Connections /\ x.pc = p /\ x.record = c.record /\ x.owed = c.owed
           /\ x.state = c.state /\ x.sent = c.sent /\ Idle(c, x)
BY DEF Connections, TurnSet, Idle, Beneath, StreamsKept

Becomes(e, x) ==
    Quiet /\ m' = [m EXCEPT ![e] = x] /\ UNCHANGED <<wire, offset, said, told, calls>>

LEMMA RestStep ==
    ASSUME Base, NEW e \in End, NEW x \in Connections, x.pc \in {"idle", "send"},
           x.record = m[e].record, x.owed = m[e].owed, x.sent = m[e].sent, Idle(m[e], x),
           Becomes(e, x)
    PROVE  Base' /\ Rested(e)
<1> DEFINE c == m[e]
<1>1. Quiet /\ m' = [m EXCEPT ![e] = x] /\ UNCHANGED <<wire, offset, said, told, calls>>
  BY DEF Becomes
<1>2. c \in Connections /\ OwedControls(c) /\ c.record = <<>>
  BY <1>1, SoundEnd, OwedEnd, QuietFlight
<1>3. Changed(c, c)
  BY <1>2 DEF Changed, OwedControls
<1>4. wire' \in [End -> Seq(Made)]
  BY <1>1 DEF Base, TypeOK
<1>5. /\ x.pending_stream_data = c.pending_stream_data
      /\ x.pending_datagrams = c.pending_datagrams
      /\ x.tx = c.tx /\ x.rx = c.rx /\ x.buffer = c.buffer
      /\ x.record = <<>> /\ x.pc \in {"idle", "send"}
      /\ x.owed = c.owed /\ x.sent = c.sent
  BY <1>2 DEF Idle, StreamsKept, Beneath
<1> HIDE DEF c
<1>6. Changed(m[e], c)
  BY <1>3 DEF c
<1>7. Left(e, c) /\ m' \in [End -> Connections] /\ \A z \in End : Sound(m'[z])
  BY <1>1, <1>4, <1>5, <1>6, QuietStep
<1>8. TypeOK'
  BY <1>1, <1>7 DEF TypeOK, Base
<1> QED
  BY <1>1, <1>7, <1>8 DEF Base, Rested, c

LEMMA PumpStep ==
    ASSUME Base, NEW e \in End, Pump(e) PROVE Base' /\ Rested(e)
<1> DEFINE b == m[e].closed
           x == TurnSet(m[e], "send", "read", b)
<1>1. m[e] \in Connections /\ b \in BOOLEAN /\ m \in [End -> Connections]
  BY SoundEnd DEF Connections, Base, TypeOK
<1>2. m' = [m EXCEPT ![e] = x]
  BY <1>1 DEF Pump, TurnSet, Connections
<1>3. Becomes(e, x)
  BY <1>2 DEF Pump, Becomes
<1> HIDE DEF x, b
<1>4. /\ x \in Connections /\ x.pc = "send" /\ x.record = m[e].record
      /\ x.owed = m[e].owed /\ x.state = m[e].state /\ x.sent = m[e].sent /\ Idle(m[e], x)
  BY <1>1, TurnFields DEF x
<1> QED
  BY <1>3, <1>4, RestStep

LEMMA NothingStep ==
    ASSUME Base, NEW e \in End, NothingRead(e) PROVE Base' /\ Rested(e)
<1>1. m[e] \in Connections /\ m \in [End -> Connections] /\ m[e].pc = "idle"
  BY SoundEnd DEF Base, TypeOK, NothingRead, Quiet
<1>2. CASE m[Peer(e)].closed
  <2> DEFINE b == TRUE
             l == m[e].loop
             x == TurnSet(m[e], "idle", l, b)
  <2>1. b \in BOOLEAN /\ l \in {"flush", "read"}
    BY <1>1 DEF Connections
  <2>2. m' = [m EXCEPT ![e] = [m[e] EXCEPT !.closed = TRUE]]
    BY <1>2 DEF NothingRead
  <2>3. [m[e] EXCEPT !.closed = TRUE] = x
    BY <1>1 DEF TurnSet, Connections
  <2>4. Becomes(e, x)
    BY <2>2, <2>3 DEF NothingRead, Becomes
  <2> HIDE DEF x, b, l
  <2>5. /\ x \in Connections /\ x.pc = "idle" /\ x.record = m[e].record
        /\ x.owed = m[e].owed /\ x.state = m[e].state /\ x.sent = m[e].sent /\ Idle(m[e], x)
    BY <1>1, <2>1 DEF x, TurnSet, Connections, Idle, Beneath, StreamsKept
  <2> QED
    BY <2>4, <2>5, RestStep
<1>3. CASE ~m[Peer(e)].closed
  <2> DEFINE b == m[e].closed
             l == "flush"
             x == TurnSet(m[e], "idle", l, b)
  <2>1. b \in BOOLEAN /\ l \in {"flush", "read"}
    BY <1>1 DEF Connections
  <2>2. m' = [m EXCEPT ![e] = [m[e] EXCEPT !.loop = "flush"]]
    BY <1>3 DEF NothingRead
  <2>3. [m[e] EXCEPT !.loop = "flush"] = x
    BY <1>1 DEF TurnSet, Connections
  <2>4. Becomes(e, x)
    BY <2>2, <2>3 DEF NothingRead, Becomes
  <2> HIDE DEF x, b, l
  <2>5. /\ x \in Connections /\ x.pc = "idle" /\ x.record = m[e].record
        /\ x.owed = m[e].owed /\ x.state = m[e].state /\ x.sent = m[e].sent /\ Idle(m[e], x)
    BY <1>1, <2>1 DEF x, TurnSet, Connections, Idle, Beneath, StreamsKept
  <2> QED
    BY <2>4, <2>5, RestStep
<1> QED
  BY <1>2, <1>3

-----------------------------------------------------------------------------
(* Reading.                                                                *)

Read1(e) == Head(wire[Peer(e)])
Learned(e) == [Known(e, m[e], Read1(e).s) EXCEPT !.loop = "flush"]
Whole1(e, k) == offset[e] + k = Read1(e).n

LEMMA ReceiveIs ==
    ASSUME NEW e \in End, Receive(e)
    PROVE  /\ Quiet /\ wire[Peer(e)] # <<>> /\ UNCHANGED <<said, calls>>
           /\ \E k \in Min({1, Read1(e).n}) .. Read1(e).n - offset[e] :
                /\ wire' = IF Whole1(e, k) THEN [wire EXCEPT ![Peer(e)] = Tail(@)] ELSE wire
                /\ offset' = [offset EXCEPT ![e] = IF Whole1(e, k) THEN 0 ELSE @ + k]
                /\ Read1(e).k = "STREAM" => recv_stream_data(e, Learned(e), Read1(e), k)
                /\ Read1(e).k = "DATAGRAM" => on_datagram_received(e, Learned(e), Read1(e), k)
                /\ Read1(e).k \notin {"STREAM", "DATAGRAM"} => on_control(e, Learned(e), Read1(e))
<1>1. Quiet /\ wire[Peer(e)] # <<>> /\ UNCHANGED <<said, calls>>
  BY DEF Receive
<1>2. \E k \in Min({1, Read1(e).n}) .. Read1(e).n - offset[e] :
        /\ wire' = IF Whole1(e, k) THEN [wire EXCEPT ![Peer(e)] = Tail(@)] ELSE wire
        /\ offset' = [offset EXCEPT ![e] = IF Whole1(e, k) THEN 0 ELSE @ + k]
        /\ CASE Read1(e).k = "STREAM" -> recv_stream_data(e, Learned(e), Read1(e), k)
             [] Read1(e).k = "DATAGRAM" -> on_datagram_received(e, Learned(e), Read1(e), k)
             [] Read1(e).k \notin {"STREAM", "DATAGRAM"} -> on_control(e, Learned(e), Read1(e))
  BY Zenon DEF Receive, Read1, Learned, Whole1
<1>3. PICK k \in Min({1, Read1(e).n}) .. Read1(e).n - offset[e] :
        /\ wire' = IF Whole1(e, k) THEN [wire EXCEPT ![Peer(e)] = Tail(@)] ELSE wire
        /\ offset' = [offset EXCEPT ![e] = IF Whole1(e, k) THEN 0 ELSE @ + k]
        /\ CASE Read1(e).k = "STREAM" -> recv_stream_data(e, Learned(e), Read1(e), k)
             [] Read1(e).k = "DATAGRAM" -> on_datagram_received(e, Learned(e), Read1(e), k)
             [] Read1(e).k \notin {"STREAM", "DATAGRAM"} -> on_control(e, Learned(e), Read1(e))
  BY <1>2
<1>4. /\ Read1(e).k = "STREAM" => recv_stream_data(e, Learned(e), Read1(e), k)
      /\ Read1(e).k = "DATAGRAM" => on_datagram_received(e, Learned(e), Read1(e), k)
      /\ Read1(e).k \notin {"STREAM", "DATAGRAM"} => on_control(e, Learned(e), Read1(e))
  BY <1>3
<1> QED
  BY <1>1, <1>3, <1>4

LEMMA ReadTyped ==
    ASSUME Base, NEW e \in End, wire[Peer(e)] # <<>>
    PROVE  /\ Read1(e) \in Made /\ Read1(e) = wire[Peer(e)][1] /\ Read1(e).n \in Nat
           /\ Read1(e).at \in Nat /\ Read1(e).fin \in BOOLEAN
           /\ Read1(e).s \in Streams \cup {None}
           /\ Read1(e).k \in Kind /\ WellMade(Read1(e))
           /\ Tail(wire[Peer(e)]) \in Seq(Made) /\ offset[e] \in Nat
<1>1. wire[Peer(e)] \in Seq(Made) /\ offset[e] \in Nat
  BY Ends DEF Base, TypeOK
<1> DEFINE q == wire[Peer(e)]
<1> HIDE DEF q
<1>2. Head(q) \in Made /\ Head(q) = q[1] /\ Tail(q) \in Seq(Made)
  BY <1>1 DEF q
<1> QED
  BY <1>1, <1>2 DEF Read1, q, Made, Frames

LEMMA ReadSome ==
    ASSUME NEW n \in Nat, NEW o \in Nat, NEW k \in Min({1, n}) .. n - o
    PROVE  k \in Nat /\ o + k <= n /\ (n > 0 => k > 0)
<1>1. Min({1, n}) = IF 1 <= n THEN 1 ELSE n
  BY MinTwo
<1> QED
  BY <1>1

(* What becomes known with a frame of s.                                   *)
Learns(e, s, d) ==
    \/ d.tx = m[e].tx /\ d.rx = m[e].rx
       /\ (e = "client" \/ s = None \/ m[e].rx[s] # "none")
    \/ /\ e = "server" /\ s \in Streams /\ m[e].rx[s] = "none"
       /\ d.rx = [m[e].rx EXCEPT ![s] = "open"]
       /\ \E t \in {"open", "reset"} : d.tx = [m[e].tx EXCEPT ![s] = t]

LoopSet(c, t, r, l) == [c EXCEPT !.tx = t, !.rx = r, !.loop = l]
LEMMA LoopFields ==
    ASSUME NEW c \in Connections, NEW t \in [Streams -> Tx], NEW r \in [Streams -> Rx],
           NEW l \in {"flush", "read"}, NEW d, d = LoopSet(c, t, r, l)
    PROVE  /\ d \in Connections /\ d.record = c.record /\ d.state = c.state
           /\ d.tx = t /\ d.rx = r /\ d.owed = c.owed /\ QueuesKept(c, d)
           /\ d.pc = c.pc
BY DEF Connections, LoopSet, QueuesKept, Tx, Rx

LEMMA LearnedFields ==
    ASSUME Base, NEW e \in End, wire[Peer(e)] # <<>>
    PROVE  /\ Learned(e) \in Connections /\ Learned(e).pc = m[e].pc
           /\ Learned(e).state = m[e].state /\ Learned(e).record = m[e].record
           /\ QueuesKept(m[e], Learned(e)) /\ Learned(e).owed = m[e].owed
           /\ Learns(e, Read1(e).s, Learned(e))
<1> DEFINE c == m[e]
           s == Read1(e).s
           x == Learned(e)
<1>1. c \in Connections
  BY SoundEnd
<1>2. c.tx \in [Streams -> Tx] /\ c.rx \in [Streams -> Rx]
  BY <1>1, Sides
<1>3. s \in Streams \cup {None}
  BY ReadTyped
<1> HIDE DEF s
<1>4. CASE e = "client" \/ s = None \/ c.rx[s] # "none"
  <2>1. Known(e, c, s) = c
    BY <1>4 DEF Known
  <2>2. x = LoopSet(c, c.tx, c.rx, "flush")
    BY <1>1, <2>1 DEF Learned, LoopSet, Connections, s
  <2> HIDE DEF x
  <2>3. /\ x \in Connections /\ x.record = c.record /\ x.state = c.state
        /\ x.tx = c.tx /\ x.rx = c.rx /\ x.owed = c.owed /\ QueuesKept(c, x)
        /\ x.pc = c.pc
    BY <1>1, <1>2, <2>2, LoopFields
  <2>4. Learns(e, s, x)
    BY <1>4, <2>3 DEF Learns
  <2> QED
    BY <2>3, <2>4 DEF x, s
<1>5. CASE ~(e = "client" \/ s = None \/ c.rx[s] # "none")
  <2> DEFINE u == IF s \in Bidi THEN "open" ELSE "reset"
             t == [c.tx EXCEPT ![s] = u]
             r == [c.rx EXCEPT ![s] = "open"]
  <2>0. e = "server" /\ s \in Streams /\ c.rx[s] = "none" /\ u \in {"open", "reset"}
    BY <1>3, <1>5 DEF End
  <2> HIDE DEF u
  <2>1. t \in [Streams -> Tx] /\ r \in [Streams -> Rx]
    BY <1>2, <2>0 DEF Tx, Rx
  <2>2. x = LoopSet(c, t, r, "flush")
    BY <1>1, <1>5 DEF Learned, Known, LoopSet, Connections, s, u
  <2> HIDE DEF x, t, r
  <2>3. /\ x \in Connections /\ x.record = c.record /\ x.state = c.state
        /\ x.tx = t /\ x.rx = r /\ x.owed = c.owed /\ QueuesKept(c, x)
        /\ x.pc = c.pc
    BY <1>1, <2>1, <2>2, LoopFields
  <2>4. Learns(e, s, x)
    BY <2>0, <2>3 DEF Learns, t, r
  <2> QED
    BY <2>3, <2>4 DEF x, s
<1> QED
  BY <1>4, <1>5

Received(e, k) ==
    /\ Quiet /\ wire[Peer(e)] # <<>>
    /\ k \in Nat /\ offset[e] + k <= Read1(e).n /\ (Read1(e).n > 0 => k > 0)
    /\ wire'[e] = wire[e]
    /\ wire'[Peer(e)] = IF Whole1(e, k) THEN Tail(wire[Peer(e)]) ELSE wire[Peer(e)]
    /\ offset'[Peer(e)] = offset[Peer(e)]
    /\ offset'[e] = IF Whole1(e, k) THEN 0 ELSE offset[e] + k
    /\ UNCHANGED <<said, calls>>
    /\ told'[Peer(e)] = told[Peer(e)]

(* A part of a frame of a stream; of a datagram; a frame of control.       *)
ReadsStream(e, k, d) ==
    LET f == Read1(e)
        c == Learned(e)
        fin == f.fin /\ Whole1(e, k)
    IN  /\ f.k = "STREAM" /\ QueuesKept(m[e], d) /\ d.owed = m[e].owed /\ d.tx = c.tx
        /\ d.rx[f.s] = (IF fin THEN "ended" ELSE c.rx[f.s])
        /\ \A r \in Streams : r # f.s => d.rx[r] = c.rx[r]
        /\ told'[e].dgrams = told[e].dgrams
        /\ \A r \in Streams : r # f.s =>
             /\ told'[e].bytes[r] = told[e].bytes[r] /\ told'[e].gap[r] = told[e].gap[r]
             /\ told'[e].fin[r] = told[e].fin[r]
        /\ c.rx[f.s] # "open" => told'[e] = told[e]
        /\ c.rx[f.s] = "open" =>
             /\ told'[e].bytes[f.s] = told[e].bytes[f.s] + k
             /\ told'[e].gap[f.s] =
                  (told[e].gap[f.s] \/ f.at + offset[e] # told[e].bytes[f.s])
             /\ told'[e].fin[f.s] = fin

SizeRead(e, k) == (IF offset[e] = 0 THEN 0 ELSE m[e].buffer) + k
DatagramRead(e, k) == [at |-> Read1(e).at, n |-> SizeRead(e, k)]
ReadsDatagram(e, k, d) ==
    LET f == Read1(e)
        c == Learned(e)
    IN  /\ f.k = "DATAGRAM" /\ d.owed = m[e].owed /\ d.tx = c.tx /\ d.rx = c.rx
        /\ d.pending_stream_data = m[e].pending_stream_data
        /\ d.pending_datagrams = m[e].pending_datagrams /\ d.sent = m[e].sent
        /\ d.buffer = IF Whole1(e, k) THEN 0 ELSE SizeRead(e, k)
        /\ told'[e].bytes = told[e].bytes /\ told'[e].fin = told[e].fin
        /\ told'[e].gap = told[e].gap
        /\ told'[e].dgrams = IF Whole1(e, k) /\ SizeRead(e, k) = f.n
                             THEN Append(told[e].dgrams, DatagramRead(e, k))
                             ELSE told[e].dgrams

ReadsControl(e, d) ==
    LET f == Read1(e)
        c == Learned(e)
    IN  /\ f.k \notin {"STREAM", "DATAGRAM"} /\ QueuesKept(m[e], d) /\ told' = told
        /\ \/ d.tx = c.tx /\ d.rx = c.rx /\ d.owed = m[e].owed
           \/ /\ f.s \in Streams /\ d.tx = c.tx /\ d.rx[f.s] = "ended" /\ d.owed = m[e].owed
              /\ \A r \in Streams : r # f.s => d.rx[r] = c.rx[r]
           \/ f.s \in Streams /\ Shut(c, f.s, d)

ReadShape(e, k, d) ==
    ReadsStream(e, k, d) \/ ReadsDatagram(e, k, d) \/ ReadsControl(e, d)

(* What reading has in common, whatever the frame.                         *)
Moves(e, k) ==
    /\ wire' = IF Whole1(e, k) THEN [wire EXCEPT ![Peer(e)] = Tail(@)] ELSE wire
    /\ offset' = [offset EXCEPT ![e] = IF Whole1(e, k) THEN 0 ELSE @ + k]
    /\ UNCHANGED <<said, calls>>

LEMMA ReadStep ==
    ASSUME Base, Quiet, NEW e \in End, wire[Peer(e)] # <<>>, NEW k \in Nat,
           offset[e] + k <= Read1(e).n, Read1(e).n > 0 => k > 0, Moves(e, k),
           NEW x \in Connections, m' = [m EXCEPT ![e] = x],
           x.pc = m[e].pc, x.record = m[e].record, x.sent = m[e].sent,
           \A i \in 1 .. Len(x.owed) : x.owed[i] \in Controls,
           NEW t \in Told, told' = [told EXCEPT ![e] = t]
    PROVE  Base' /\ Left(e, x) /\ Received(e, k) /\ told'[e] = t
<1> DEFINE p == Peer(e)
<1>0. p \in End /\ p # e
  BY Ends
<1>1. wire \in [End -> Seq(Made)] /\ offset \in [End -> Nat] /\ told \in [End -> Told]
  BY DEF Base, TypeOK
<1>2. /\ wire' = IF Whole1(e, k) THEN [wire EXCEPT ![p] = Tail(wire[p])] ELSE wire
      /\ offset' = [offset EXCEPT ![e] = IF Whole1(e, k) THEN 0 ELSE offset[e] + k]
      /\ UNCHANGED <<said, calls>>
  BY DEF Moves
<1>3. Tail(wire[p]) \in Seq(Made) /\ offset[e] \in Nat
  BY ReadTyped
<1>4. wire' \in [End -> Seq(Made)] /\ wire'[e] = wire[e]
      /\ wire'[p] = IF Whole1(e, k) THEN Tail(wire[p]) ELSE wire[p]
  BY <1>0, <1>1, <1>2, <1>3
<1>5. offset' \in [End -> Nat] /\ offset'[p] = offset[p]
      /\ offset'[e] = IF Whole1(e, k) THEN 0 ELSE offset[e] + k
  BY <1>0, <1>1, <1>2, <1>3
<1>6. told' \in [End -> Told] /\ told'[p] = told[p] /\ told'[e] = t
  BY <1>0, <1>1
<1>7. Changed(m[e], x)
  BY DEF Changed
<1>8. x.pc \in {"idle", "send"} /\ x.record = <<>>
  BY QuietFlight DEF Quiet
<1>9. Left(e, x) /\ m' \in [End -> Connections] /\ \A z \in End : Sound(m'[z])
  BY <1>4, <1>7, <1>8, QuietStep
<1>10. TypeOK'
  BY <1>2, <1>4, <1>5, <1>6, <1>9 DEF Base, TypeOK
<1>11. Received(e, k)
  BY <1>2, <1>4, <1>5, <1>6 DEF Received
<1> QED
  BY <1>6, <1>9, <1>10, <1>11 DEF Base

(* The three kinds of frame.                                               *)
RxSet(c, r) == [c EXCEPT !.rx = r]
LEMMA RxFields ==
    ASSUME NEW c \in Connections, NEW r \in [Streams -> Rx], NEW x, x = RxSet(c, r)
    PROVE  /\ x \in Connections /\ x.pc = c.pc /\ x.record = c.record /\ x.sent = c.sent
           /\ x.owed = c.owed /\ x.tx = c.tx /\ x.rx = r /\ QueuesKept(c, x)
BY DEF Connections, RxSet, QueuesKept, Rx

ToldSet(t, s, b, g, f) == [t EXCEPT !.bytes[s] = b, !.gap[s] = g, !.fin[s] = f]
ToldHas(t, s, b, g, f, u) ==
    /\ u \in Told /\ u.dgrams = t.dgrams
    /\ u.bytes[s] = b /\ u.gap[s] = g /\ u.fin[s] = f
    /\ \A r \in Streams : r # s =>
         u.bytes[r] = t.bytes[r] /\ u.gap[r] = t.gap[r] /\ u.fin[r] = t.fin[r]
LEMMA ToldFields ==
    ASSUME NEW t \in Told, NEW s \in Streams, NEW b \in Nat, NEW g, g \in BOOLEAN,
           NEW f, f \in BOOLEAN, NEW u, u = ToldSet(t, s, b, g, f)
    PROVE  ToldHas(t, s, b, g, f, u)
<1>1. u \in Told
  BY DEF Told, ToldSet
<1>2. u.dgrams = t.dgrams
  BY DEF Told, ToldSet
<1>3. u.bytes = [t.bytes EXCEPT ![s] = b] /\ u.gap = [t.gap EXCEPT ![s] = g]
      /\ u.fin = [t.fin EXCEPT ![s] = f]
  BY DEF Told, ToldSet
<1>4. t.bytes \in [Streams -> Nat] /\ t.gap \in [Streams -> BOOLEAN]
      /\ t.fin \in [Streams -> BOOLEAN]
  BY DEF Told
<1>5. u.bytes[s] = b /\ \A r \in Streams : r # s => u.bytes[r] = t.bytes[r]
  BY <1>3, <1>4
<1>6. u.gap[s] = g /\ \A r \in Streams : r # s => u.gap[r] = t.gap[r]
  BY <1>3, <1>4
<1>7. u.fin[s] = f /\ \A r \in Streams : r # s => u.fin[r] = t.fin[r]
  BY <1>3, <1>4
<1> QED
  BY <1>1, <1>2, <1>5, <1>6, <1>7 DEF ToldHas

LEMMA ReadStreamStep ==
    ASSUME Base, Quiet, NEW e \in End, wire[Peer(e)] # <<>>, NEW k \in Nat,
           offset[e] + k <= Read1(e).n, Read1(e).n > 0 => k > 0, Moves(e, k),
           Read1(e).k = "STREAM", recv_stream_data(e, Learned(e), Read1(e), k)
    PROVE  Base' /\ \E d : Left(e, d) /\ Received(e, k) /\ ReadShape(e, k, d)
<1> DEFINE f == Read1(e)
           s == f.s
           c == Learned(e)
           fin == f.fin /\ offset[e] + k = f.n
           r == [c.rx EXCEPT ![s] = IF fin THEN "ended" ELSE @]
           x == RxSet(c, r)
           t == told[e]
           b == t.bytes[s] + k
           g == t.gap[s] \/ f.at + offset[e] # t.bytes[s]
           u == IF c.rx[s] # "open" THEN t ELSE ToldSet(t, s, b, g, fin)
<1>1. f.fin \in BOOLEAN /\ s \in Streams /\ fin \in BOOLEAN
  BY ReadTyped DEF WellMade
<1>2. /\ c \in Connections /\ c.pc = m[e].pc /\ c.record = m[e].record
      /\ QueuesKept(m[e], c) /\ c.owed = m[e].owed
  BY LearnedFields
<1>3. c.rx \in [Streams -> Rx]
  BY <1>2, Sides
<1>4. told \in [End -> Told] /\ t \in Told
  BY DEF Base, TypeOK
<1>5. t.bytes[s] \in Nat /\ t.gap[s] \in BOOLEAN
  BY <1>1, <1>4 DEF Told
<1>6. b \in Nat /\ g \in BOOLEAN
  BY <1>5
<1>7. m' = [m EXCEPT ![e] = x]
  <2>1. x = [c EXCEPT !.rx[s] = IF fin THEN "ended" ELSE @]
    BY <1>2 DEF RxSet, Connections
  <2> QED
    BY <2>1 DEF recv_stream_data
<1>8. told' = [told EXCEPT ![e] = u]
  <2>1. CASE c.rx[s] # "open"
    <3>1. told' = told
      BY <2>1 DEF recv_stream_data
    <3>2. u = told[e]
      BY <2>1
    <3> QED
      BY <1>4, <3>1, <3>2
  <2>2. CASE c.rx[s] = "open"
    <3>1. u = [t EXCEPT !.bytes[s] = @ + k,
                        !.gap[s] = @ \/ f.at + offset[e] # t.bytes[s],
                        !.fin[s] = fin]
      BY <2>2, <1>4 DEF ToldSet, Told
    <3> QED
      BY <2>2, <3>1 DEF recv_stream_data
  <2> QED
    BY <2>1, <2>2
<1>9. r \in [Streams -> Rx] /\ r[s] = (IF fin THEN "ended" ELSE c.rx[s])
      /\ \A z \in Streams : z # s => r[z] = c.rx[z]
  BY <1>1, <1>3 DEF Rx
<1>w. fin = (f.fin /\ Whole1(e, k))
  BY DEF Whole1
<1> HIDE DEF x, r, fin, g, b, c
<1>10. /\ x \in Connections /\ x.pc = c.pc /\ x.record = c.record /\ x.sent = c.sent
       /\ x.owed = c.owed /\ x.tx = c.tx /\ x.rx = r /\ QueuesKept(c, x)
  BY <1>2, <1>9, RxFields DEF x
<1>11. /\ u \in Told /\ u.dgrams = t.dgrams
       /\ \A z \in Streams : z # s =>
            u.bytes[z] = t.bytes[z] /\ u.gap[z] = t.gap[z] /\ u.fin[z] = t.fin[z]
       /\ c.rx[s] # "open" => u = t
       /\ c.rx[s] = "open" => u.bytes[s] = b /\ u.gap[s] = g /\ u.fin[s] = fin
  <2>1. CASE c.rx[s] # "open"
    BY <1>4, <2>1
  <2>2. CASE c.rx[s] = "open"
    <3>1. u = ToldSet(t, s, b, g, fin)
      BY <2>2
    <3> HIDE DEF u, t, s
    <3>2. /\ u \in Told /\ u.dgrams = t.dgrams
          /\ u.bytes[s] = b /\ u.gap[s] = g /\ u.fin[s] = fin
          /\ \A z \in Streams : z # s =>
               u.bytes[z] = t.bytes[z] /\ u.gap[z] = t.gap[z] /\ u.fin[z] = t.fin[z]
      <4>1. ToldHas(t, s, b, g, fin, u)
        BY <1>1, <1>4, <1>6, <3>1, ToldFields
      <4> QED
        BY <4>1 DEF ToldHas
    <3> QED
      BY <2>2, <3>2
  <2> QED
    BY <2>1, <2>2
<1> HIDE DEF u
<1>12. \A i \in 1 .. Len(x.owed) : x.owed[i] \in Controls
  BY <1>2, <1>10, OwedEnd DEF OwedControls
<1>13. x.pc = m[e].pc /\ x.record = m[e].record /\ x.sent = m[e].sent
  BY <1>2, <1>10 DEF QueuesKept
<1>14. Base' /\ Left(e, x) /\ Received(e, k) /\ told'[e] = u
  BY <1>7, <1>8, <1>10, <1>11, <1>12, <1>13, ReadStep
<1>15. ReadsStream(e, k, x)
  <2>1. QueuesKept(m[e], x) /\ x.owed = m[e].owed
    BY <1>2, <1>10 DEF QueuesKept
  <2>2. /\ x.rx[s] = (IF f.fin /\ Whole1(e, k) THEN "ended" ELSE c.rx[s])
        /\ \A z \in Streams : z # s => x.rx[z] = c.rx[z]
    BY <1>9, <1>10, <1>w
  <2>3. c.rx[s] # "open" => told'[e] = told[e]
    BY <1>11, <1>14
  <2>4. c.rx[s] = "open" => /\ told'[e].bytes[s] = t.bytes[s] + k
                            /\ told'[e].gap[s] = (t.gap[s] \/ f.at + offset[e] # t.bytes[s])
                            /\ told'[e].fin[s] = (f.fin /\ Whole1(e, k))
    BY <1>11, <1>14, <1>w DEF b, g
  <2>5. /\ told'[e].dgrams = told[e].dgrams
        /\ \A z \in Streams : z # s =>
             /\ told'[e].bytes[z] = t.bytes[z] /\ told'[e].gap[z] = t.gap[z]
             /\ told'[e].fin[z] = t.fin[z]
    BY <1>11, <1>14
  <2>6. x.tx = c.tx
    BY <1>10
  <2> QED
    BY <2>1, <2>2, <2>3, <2>4, <2>5, <2>6 DEF ReadsStream, c
<1> QED
  BY <1>14, <1>15 DEF ReadShape

BufferSet(c, n) == [c EXCEPT !.buffer = n]
LEMMA BufferFields ==
    ASSUME NEW c \in Connections, NEW n \in Nat, NEW x, x = BufferSet(c, n)
    PROVE  /\ x \in Connections /\ x.pc = c.pc /\ x.record = c.record /\ x.sent = c.sent
           /\ x.owed = c.owed /\ x.tx = c.tx /\ x.rx = c.rx /\ x.buffer = n
           /\ x.pending_stream_data = c.pending_stream_data
           /\ x.pending_datagrams = c.pending_datagrams
BY DEF Connections, BufferSet

HandOver(t, q) == [t EXCEPT !.dgrams = q]
LEMMA HandOverFields ==
    ASSUME NEW t \in Told, NEW q \in Seq(Datagrams), NEW u, u = HandOver(t, q)
    PROVE  /\ u \in Told /\ u.dgrams = q
           /\ u.bytes = t.bytes /\ u.gap = t.gap /\ u.fin = t.fin
BY DEF Told, HandOver

LEMMA ReadDatagramStep ==
    ASSUME Base, Quiet, NEW e \in End, wire[Peer(e)] # <<>>, NEW k \in Nat,
           offset[e] + k <= Read1(e).n, Read1(e).n > 0 => k > 0, Moves(e, k),
           Read1(e).k = "DATAGRAM", on_datagram_received(e, Learned(e), Read1(e), k)
    PROVE  Base' /\ \E d : Left(e, d) /\ Received(e, k) /\ ReadShape(e, k, d)
<1> DEFINE f == Read1(e)
           c == Learned(e)
           fin == Whole1(e, k)
           size == SizeRead(e, k)
           n == IF fin THEN 0 ELSE size
           x == BufferSet(c, n)
           t == told[e]
           y == DatagramRead(e, k)
           q == IF fin /\ size = f.n THEN Append(t.dgrams, y) ELSE t.dgrams
           u == HandOver(t, q)
<1>1. f.at \in Nat /\ f.n \in Nat
  BY ReadTyped
<1>2. /\ c \in Connections /\ c.pc = m[e].pc /\ c.record = m[e].record
      /\ QueuesKept(m[e], c) /\ c.owed = m[e].owed
  BY LearnedFields
<1>3. c.buffer = m[e].buffer /\ c.buffer \in Nat
  BY <1>2 DEF QueuesKept, Connections
<1>4. told \in [End -> Told] /\ t \in Told /\ t.dgrams \in Seq(Datagrams)
  BY DEF Base, TypeOK, Told
<1>5. size \in Nat /\ n \in Nat
  BY <1>3 DEF SizeRead
<1>6. y \in Datagrams
  BY <1>1, <1>5 DEF Datagrams, DatagramRead
<1>7. m' = [m EXCEPT ![e] = x]
  BY <1>3 DEF on_datagram_received, BufferSet, SizeRead, Whole1
<1> HIDE DEF size, y
<1>8. q \in Seq(Datagrams)
  BY <1>4, <1>6
<1>9. told' = [told EXCEPT ![e] = u]
  <2>1. size = (IF offset[e] = 0 THEN 0 ELSE c.buffer) + k
    BY <1>3 DEF size, SizeRead
  <2>2. told' = IF fin /\ size = f.n
                THEN [told EXCEPT ![e].dgrams = Append(@, [at |-> f.at, n |-> size])]
                ELSE told
    BY <2>1 DEF on_datagram_received, Whole1
  <2>3. CASE fin /\ size = f.n
    <3>1. told' = [told EXCEPT ![e].dgrams = Append(@, y)]
      BY <2>2, <2>3 DEF y, DatagramRead, size
    <3>2. u = [told[e] EXCEPT !.dgrams = Append(@, y)]
      BY <2>3 DEF HandOver
    <3> QED
      BY <3>1, <3>2
  <2>4. CASE ~(fin /\ size = f.n)
    <3>1. u = t
      BY <1>4, <2>4 DEF HandOver, Told
    <3>2. told' = told
      BY <2>2, <2>4
    <3> HIDE DEF u
    <3> QED
      BY <1>4, <3>1, <3>2
  <2> QED
    BY <2>3, <2>4
<1> HIDE DEF x, n, c, u, q
<1>10. /\ x \in Connections /\ x.pc = c.pc /\ x.record = c.record /\ x.sent = c.sent
       /\ x.owed = c.owed /\ x.tx = c.tx /\ x.rx = c.rx /\ x.buffer = n
       /\ x.pending_stream_data = c.pending_stream_data
       /\ x.pending_datagrams = c.pending_datagrams
  BY <1>2, <1>5, BufferFields DEF x
<1>11. /\ u \in Told /\ u.dgrams = q
       /\ u.bytes = t.bytes /\ u.gap = t.gap /\ u.fin = t.fin
  BY <1>4, <1>8, HandOverFields DEF u
<1>12. \A i \in 1 .. Len(x.owed) : x.owed[i] \in Controls
  BY <1>2, <1>10, OwedEnd DEF OwedControls
<1>13. x.pc = m[e].pc /\ x.record = m[e].record /\ x.sent = m[e].sent
  BY <1>2, <1>10 DEF QueuesKept
<1>14. Base' /\ Left(e, x) /\ Received(e, k) /\ told'[e] = u
  BY <1>7, <1>9, <1>10, <1>11, <1>12, <1>13, ReadStep
<1>15. ReadsDatagram(e, k, x)
  <2>1. /\ x.owed = m[e].owed /\ x.tx = c.tx /\ x.rx = c.rx
        /\ x.pending_stream_data = m[e].pending_stream_data
        /\ x.pending_datagrams = m[e].pending_datagrams /\ x.sent = m[e].sent
    BY <1>2, <1>10 DEF QueuesKept
  <2>2. x.buffer = IF Whole1(e, k) THEN 0 ELSE SizeRead(e, k)
    BY <1>10 DEF n, size
  <2>3. /\ told'[e].bytes = told[e].bytes /\ told'[e].fin = told[e].fin
        /\ told'[e].gap = told[e].gap /\ told'[e].dgrams = q
    BY <1>11, <1>14
  <2>4. q = IF Whole1(e, k) /\ SizeRead(e, k) = f.n
            THEN Append(told[e].dgrams, DatagramRead(e, k))
            ELSE told[e].dgrams
    BY DEF q, size, y
  <2> QED
    BY <2>1, <2>2, <2>3, <2>4 DEF ReadsDatagram, c
<1> QED
  BY <1>14, <1>15 DEF ReadShape

StateSet(c, b, p) == [c EXCEPT !.params_received = b, !.state = p]
LEMMA StateFields ==
    ASSUME NEW c \in Connections, NEW b, b \in BOOLEAN,
           NEW p \in {"open", "closing", "draining"}, NEW x, x = StateSet(c, b, p)
    PROVE  /\ x \in Connections /\ x.pc = c.pc /\ x.record = c.record /\ x.sent = c.sent
           /\ x.owed = c.owed /\ x.tx = c.tx /\ x.rx = c.rx /\ QueuesKept(c, x)
BY DEF Connections, StateSet, QueuesKept

LEMMA ReadControlStep ==
    ASSUME Base, Quiet, NEW e \in End, wire[Peer(e)] # <<>>, NEW k \in Nat,
           offset[e] + k <= Read1(e).n, Read1(e).n > 0 => k > 0, Moves(e, k),
           Read1(e).k \notin {"STREAM", "DATAGRAM"}, on_control(e, Learned(e), Read1(e))
    PROVE  Base' /\ \E d : Left(e, d) /\ Received(e, k) /\ ReadShape(e, k, d)
<1> DEFINE f == Read1(e)
           s == f.s
           c == Learned(e)
           Fits(x) == /\ \/ x.tx = c.tx /\ x.rx = c.rx /\ x.owed = m[e].owed
                         \/ /\ s \in Streams /\ x.tx = c.tx /\ x.rx[s] = "ended"
                            /\ x.owed = m[e].owed
                            /\ \A r \in Streams : r # s => x.rx[r] = c.rx[r]
                         \/ s \in Streams /\ Shut(c, s, x)
<1>1. f.k \in Kind /\ f.k \in {"PARAMS", "RESET", "STOP", "CLOSE"}
      /\ (f.k \in {"RESET", "STOP"} => s \in Streams)
  BY ReadTyped DEF Kind, WellMade
<1>2. /\ c \in Connections /\ c.pc = m[e].pc /\ c.record = m[e].record
      /\ QueuesKept(m[e], c) /\ c.owed = m[e].owed
  BY LearnedFields
<1>3. c.rx \in [Streams -> Rx] /\ c.params_received \in BOOLEAN
      /\ c.state \in {"open", "closing", "draining"}
  BY <1>2, Sides DEF Connections
<1>4. OwedControls(c)
  BY <1>2, OwedEnd DEF OwedControls
<1>5. told \in [End -> Told] /\ told' = told /\ told' = [told EXCEPT ![e] = told[e]]
      /\ told[e] \in Told
  BY DEF Base, TypeOK, on_control
<1>6. SUFFICES ASSUME NEW x \in Connections, m' = [m EXCEPT ![e] = x],
                      x.pc = c.pc, x.record = c.record,
                      QueuesKept(c, x), OwedControls(x), Fits(x)
               PROVE  Base' /\ \E d : Left(e, d) /\ Received(e, k) /\ ReadShape(e, k, d)
  <2>1. CASE f.k = "PARAMS"
    <3> DEFINE b == TRUE
               x == StateSet(c, b, c.state)
    <3>1. m' = [m EXCEPT ![e] = x]
      <4>1. m' = [m EXCEPT ![e] = recv_transport_params(c)]
        BY <2>1 DEF on_control
      <4>2. recv_transport_params(c) = x
        BY <1>2 DEF recv_transport_params, StateSet, Connections
      <4> QED
        BY <4>1, <4>2
    <3>2. b \in BOOLEAN
      OBVIOUS
    <3> HIDE DEF x, b
    <3>3. /\ x \in Connections /\ x.pc = c.pc /\ x.record = c.record /\ x.sent = c.sent
          /\ x.owed = c.owed /\ x.tx = c.tx /\ x.rx = c.rx /\ QueuesKept(c, x)
      BY <1>2, <1>3, <3>2 DEF x, StateSet, Connections, QueuesKept
    <3>4. OwedControls(x) /\ Fits(x)
      BY <1>2, <1>4, <3>3 DEF OwedControls
    <3> QED
      BY <1>6, <3>1, <3>3, <3>4
  <2>2. CASE f.k = "CLOSE"
    <3> DEFINE b == c.params_received
               x == StateSet(c, b, "draining")
    <3>1. m' = [m EXCEPT ![e] = x]
      <4>1. m' = [m EXCEPT ![e] = [c EXCEPT !.state = "draining"]]
        BY <2>2 DEF on_control
      <4>2. [c EXCEPT !.state = "draining"] = x
        BY <1>2 DEF StateSet, Connections
      <4> QED
        BY <4>1, <4>2
    <3>2. b \in BOOLEAN
      BY <1>3
    <3> HIDE DEF x, b
    <3>3. /\ x \in Connections /\ x.pc = c.pc /\ x.record = c.record /\ x.sent = c.sent
          /\ x.owed = c.owed /\ x.tx = c.tx /\ x.rx = c.rx /\ QueuesKept(c, x)
      BY <1>2, <3>2, StateFields DEF x
    <3>4. OwedControls(x) /\ Fits(x)
      BY <1>2, <1>4, <3>3 DEF OwedControls
    <3> QED
      BY <1>6, <3>1, <3>3, <3>4
  <2>3. CASE f.k = "RESET"
    <3> DEFINE r == [c.rx EXCEPT ![s] = "ended"]
               x == RxSet(c, r)
    <3>0. s \in Streams
      BY <1>1, <2>3
    <3>1. m' = [m EXCEPT ![e] = x]
      <4>1. m' = [m EXCEPT ![e] = [c EXCEPT !.rx[s] = "ended"]]
        BY <2>3 DEF on_control
      <4>2. [c EXCEPT !.rx[s] = "ended"] = x
        BY <1>2 DEF RxSet, Connections
      <4> QED
        BY <4>1, <4>2
    <3>2. r \in [Streams -> Rx] /\ r[s] = "ended"
          /\ \A z \in Streams : z # s => r[z] = c.rx[z]
      BY <1>3, <3>0 DEF Rx
    <3> HIDE DEF x, r
    <3>3. /\ x \in Connections /\ x.pc = c.pc /\ x.record = c.record /\ x.sent = c.sent
          /\ x.owed = c.owed /\ x.tx = c.tx /\ x.rx = r /\ QueuesKept(c, x)
      BY <1>2, <3>2, RxFields DEF x
    <3>4. OwedControls(x)
      BY <1>4, <3>3 DEF OwedControls
    <3>5. Fits(x)
      BY <1>2, <3>0, <3>2, <3>3
    <3> QED
      BY <1>6, <3>1, <3>3, <3>4, <3>5
  <2>4. CASE f.k = "STOP"
    <3> DEFINE x == ShutWrite(c, s)
    <3>0. s \in Streams
      BY <1>1, <2>4
    <3>1. m' = [m EXCEPT ![e] = x]
      <4>1. m' = [m EXCEPT ![e] = IF c.tx[s] = "open"
                                  THEN [c EXCEPT !.tx[s] = "reset",
                                                 !.owed = Append(@, Control("RESET", s))]
                                  ELSE c]
        BY <2>4 DEF on_control
      <4>2. x = IF c.tx[s] = "open"
                THEN [c EXCEPT !.tx[s] = "reset", !.owed = Append(@, Control("RESET", s))]
                ELSE c
        BY DEF ShutWrite
      <4> QED
        BY <4>1, <4>2
    <3> HIDE DEF x
    <3>2. Changed(c, x) /\ QueuesKept(c, x) /\ Shut(c, s, x)
      BY <1>2, <1>4, <3>0, ShutWriteFields DEF x
    <3>3. x \in Connections /\ x.record = c.record /\ OwedControls(x)
      BY <3>2 DEF Changed, OwedControls
    <3>4. x.pc = c.pc
      BY <1>2 DEF x, ShutWrite, Connections
    <3>5. Fits(x)
      BY <3>0, <3>2
    <3> QED
      BY <1>6, <3>1, <3>2, <3>3, <3>4, <3>5
  <2> QED
    BY <1>1, <2>1, <2>2, <2>3, <2>4
<1>7. x.pc = m[e].pc /\ x.record = m[e].record /\ x.sent = m[e].sent
      /\ QueuesKept(m[e], x)
  BY <1>2, <1>6 DEF QueuesKept
<1>8. \A i \in 1 .. Len(x.owed) : x.owed[i] \in Controls
  BY <1>6 DEF OwedControls
<1>9. Base' /\ Left(e, x) /\ Received(e, k)
  BY <1>5, <1>6, <1>7, <1>8, ReadStep
<1>10. ReadsControl(e, x)
  BY <1>5, <1>6, <1>7 DEF ReadsControl
<1> QED
  BY <1>9, <1>10 DEF ReadShape

LEMMA ReceiveShape ==
    ASSUME Base, NEW e \in End, Receive(e)
    PROVE  Base' /\ \E k, d : Left(e, d) /\ Received(e, k) /\ ReadShape(e, k, d)
<1>1. Quiet /\ wire[Peer(e)] # <<>> /\ UNCHANGED <<said, calls>>
  BY ReceiveIs
<1>2. PICK k \in Min({1, Read1(e).n}) .. Read1(e).n - offset[e] :
        /\ wire' = IF Whole1(e, k) THEN [wire EXCEPT ![Peer(e)] = Tail(@)] ELSE wire
        /\ offset' = [offset EXCEPT ![e] = IF Whole1(e, k) THEN 0 ELSE @ + k]
        /\ Read1(e).k = "STREAM" => recv_stream_data(e, Learned(e), Read1(e), k)
        /\ Read1(e).k = "DATAGRAM" => on_datagram_received(e, Learned(e), Read1(e), k)
        /\ Read1(e).k \notin {"STREAM", "DATAGRAM"} => on_control(e, Learned(e), Read1(e))
  BY ReceiveIs
<1>3. Moves(e, k)
  BY <1>1, <1>2 DEF Moves
<1>4. Read1(e).n \in Nat /\ offset[e] \in Nat
  BY <1>1, ReadTyped
<1>5. k \in Nat /\ offset[e] + k <= Read1(e).n /\ (Read1(e).n > 0 => k > 0)
  BY <1>4, ReadSome
<1>6. CASE Read1(e).k = "STREAM"
  BY <1>1, <1>2, <1>3, <1>5, <1>6, ReadStreamStep
<1>7. CASE Read1(e).k = "DATAGRAM"
  BY <1>1, <1>2, <1>3, <1>5, <1>7, ReadDatagramStep
<1>8. CASE Read1(e).k \notin {"STREAM", "DATAGRAM"}
  BY <1>1, <1>2, <1>3, <1>5, <1>8, ReadControlStep
<1> QED
  BY <1>6, <1>7, <1>8

-----------------------------------------------------------------------------
(* Types, records and credit.                                              *)

LEMMA BaseInit == ASSUME Init PROVE Base
<1> DEFINE f == Control("PARAMS", None)
<1>1. f \in Made /\ f \in Controls
  BY ControlMade
<1> HIDE DEF f
<1>2. <<f>> \in Seq(Made) /\ Len(<<f>>) = 1 /\ <<f>>[1] = f
  BY <1>1
<1>3. <<>> \in Seq(Made) /\ <<>> \in Seq(Writes) /\ <<>> \in Seq(Datagrams)
  OBVIOUS
<1> DEFINE c == Connection
<1>4. c \in Connections
  BY <1>2, <1>3 DEF Connection, Connections, f
<1>5. /\ c.pc = "idle" /\ c.record = <<>> /\ c.owed = <<f>>
      /\ c.sent = [s \in Streams |-> 0]
  BY DEF Connection, f
<1> HIDE DEF c
<1>6. Records(c)
  BY <1>1, <1>2, <1>5 DEF Records
<1>7. Credited(c)
  <2>1. SumFunctionOnSet(c.sent, Streams) = 0
    BY <1>5, StreamAssumption, SumZero
  <2>2. SentSum(c) = 0
    BY <1>4, <2>1, SentSumIs
  <2> QED
    BY <1>5, <2>2, LimitAssumption DEF Credited
<1>8. Sound(c)
  BY <1>4, <1>6, <1>7 DEF Sound
<1>9. m = [e \in End |-> c]
  BY DEF Init, c
<1>10. told \in [End -> Told]
  <2>1. ASSUME NEW e \in End PROVE told[e] \in Told
    <3>1. told[e] = [bytes |-> [s \in Streams |-> 0], fin |-> [s \in Streams |-> FALSE],
                     gap |-> [s \in Streams |-> FALSE], dgrams |-> <<>>]
      BY DEF Init
    <3> QED
      BY <1>3, <3>1 DEF Told
  <2> QED
    BY <2>1 DEF Init
<1>11. TypeOK
  <2>1. m \in [End -> Connections]
    BY <1>4, <1>9
  <2>2. wire \in [End -> Seq(Made)] /\ offset \in [End -> Nat] /\ calls \in [End -> Nat]
    BY <1>3 DEF Init
  <2>3. said \in [End -> [Streams -> [n : Nat, fin : BOOLEAN]]]
    BY DEF Init
  <2> QED
    BY <1>10, <2>1, <2>2, <2>3 DEF TypeOK
<1> QED
  BY <1>8, <1>9, <1>11 DEF Base

LEMMA BaseNext == ASSUME Base, Next PROVE Base'
<1>1. PICK e \in End : Turn(e) \/ Calls(e)
  BY DEF Next
<1>2. CASE Flush(e)
  BY <1>2, FlushShape
<1>3. CASE Pump(e)
  BY <1>3, PumpStep
<1>4. CASE Read(e)
  BY <1>4, ReceiveShape, NothingStep DEF Read
<1>5. CASE Calls(e)
  BY <1>5, CallsShape
<1> QED
  BY <1>1, <1>2, <1>3, <1>4, <1>5 DEF Turn

LEMMA BaseStutter == ASSUME Base, UNCHANGED vars PROVE Base'
<1>1. TypeOK'
  BY DEF Base, TypeOK, vars
<1>2. m' = m
  BY DEF vars
<1> QED
  BY <1>1, <1>2 DEF Base

(* The state has its type, no record is left over between flushes, send()  *)
(* finds room whenever it writes, and neither limit of the credit is ever  *)
(* overrun, whatever the applications write (Base).                        *)
THEOREM Typed == Spec => []Base
<1>1. Init => Base
  BY BaseInit
<1>2. Base /\ [Next]_vars => Base'
  BY BaseNext, BaseStutter
<1> QED
  BY <1>1, <1>2, PTL DEF Spec

-----------------------------------------------------------------------------
(* Datagrams.                                                              *)

LEMMA DgInit == ASSUME Init, Base PROVE DgInv
<1> SUFFICES ASSUME NEW e \in End
             PROVE  Reading(e) /\ PutTogether(e) /\ DatagramsOrdered(e)
  BY DEF DgInv
<1>0. Peer(e) \in End
  BY Ends
<1>1. offset[e] = 0 /\ wire[e] = <<>> /\ told[Peer(e)].dgrams = <<>>
      /\ m[e].record = <<>> /\ m[e].pending_datagrams = <<>>
  BY <1>0 DEF Init, Connection
<1>2. Flight(e) = <<>>
  BY <1>1 DEF Flight
<1>3. \A i \in 1 .. Len(<<>>) : FALSE
  OBVIOUS
<1>4. DatagramsOrdered(e)
  BY <1>1, <1>2, <1>3 DEF DatagramsOrdered, Ordered, Rising, Before, Fit
<1> QED
  BY <1>1, <1>4 DEF Reading, PutTogether

LEMMA FlightAppend ==
    ASSUME Base, NEW e \in End, NEW f \in Made, NEW r, r = Append(m[e].record, f)
    PROVE  wire[e] \o r = Append(Flight(e), f)
<1> DEFINE a == wire[e]
           b == m[e].record
<1>1. a \in Seq(Made) /\ b \in Seq(Made)
  BY SoundEnd DEF Base, TypeOK, Connections
<1> HIDE DEF a, b
<1>2. a \o Append(b, f) = Append(a \o b, f)
  BY <1>1, ConcatAppend
<1> QED
  BY <1>2 DEF a, b, Flight

LEMMA EndFacts ==
    ASSUME Base, NEW e \in End
    PROVE  /\ told[Peer(e)].dgrams \in Seq(Datagrams) /\ Flight(e) \in Seq(Made)
           /\ m[e].pending_datagrams \in Seq(Datagrams) /\ calls[e] \in Nat
           /\ wire[e] \in Seq(Made) /\ m[e].record \in Seq(Made) /\ offset[e] \in Nat
<1>1. Peer(e) \in End /\ m[e] \in Connections
  BY Ends, SoundEnd
<1>2. wire[e] \in Seq(Made) /\ calls[e] \in Nat /\ told[Peer(e)] \in Told /\ offset[e] \in Nat
  BY <1>1 DEF Base, TypeOK
<1>3. m[e].record \in Seq(Made) /\ m[e].pending_datagrams \in Seq(Datagrams)
  BY <1>1 DEF Connections
<1>4. Flight(e) \in Seq(Made)
  BY <1>2, <1>3 DEF Flight
<1> QED
  BY <1>2, <1>3, <1>4 DEF Told

LEMMA ControlsNoData ==
    ASSUME NEW f \in Controls
    PROVE  f \notin DatagramFrames /\ \A s \in Streams : f \notin FramesOf(s)
BY DEF Controls, DatagramFrames, FramesOf

LEMMA ShapeBuffer ==
    ASSUME Base, NEW e \in End, NEW w, Shape(e, w) PROVE w.buffer = m[e].buffer
<1>1. CASE Fills(m[e], w)
  BY <1>1, SoundEnd, WrittenFields DEF Fills, Beside
<1>2. CASE ~Fills(m[e], w)
  BY <1>2 DEF Shape, Idle, Discards, Pops, Hands, Beneath
<1> QED
  BY <1>1, <1>2

LEMMA FlushReading ==
    ASSUME Base, NEW e \in End, NEW w, NEW o, After(e, w, o), Shape(e, w),
           \A z \in End : Reading(z) /\ PutTogether(z)
    PROVE  \A z \in End : Reading(z)' /\ PutTogether(z)'
<1> DEFINE p == Peer(e)
<1>0. p \in End /\ Peer(p) = e /\ \A z \in End : z = e \/ z = p
  BY Ends
<1>1. offset' = offset /\ m'[p] = m[p] /\ wire'[p] = wire[p]
      /\ m'[e].buffer = m[e].buffer
      /\ (wire[e] # <<>> => wire'[e] # <<>> /\ Head(wire'[e]) = Head(wire[e]))
  BY ShapeBuffer DEF After
<1>2. Reading(e)' /\ PutTogether(e)'
  BY <1>1 DEF Reading, PutTogether
<1>3. Reading(p)' /\ PutTogether(p)'
  BY <1>0, <1>1 DEF Reading, PutTogether
<1> QED
  BY <1>0, <1>2, <1>3

LEMMA FlushOrdered ==
    ASSUME Base, NEW e \in End, NEW w \in Connections, NEW o, After(e, w, o), Shape(e, w),
           DatagramsOrdered(e)
    PROVE  DatagramsOrdered(e)'
<1> DEFINE p == Peer(e)
           d == told[p].dgrams
           g == Flight(e)
           q == m[e].pending_datagrams
           n == calls[e]
           v == wire[e] \o w.record
           r == w.pending_datagrams
<1>0. p \in End
  BY Ends
<1>1. d \in Seq(Datagrams) /\ g \in Seq(Made) /\ q \in Seq(Datagrams) /\ n \in Nat
      /\ wire[e] \in Seq(Made) /\ m[e].record \in Seq(Made)
  BY EndFacts
<1>2. Ordered(d, g, q, n, p)
  BY DEF DatagramsOrdered
<1>3. /\ Flight(e)' = v \o o /\ m'[e].pending_datagrams = r
      /\ told' = told /\ calls' = calls /\ o \in Seq(Made)
      /\ \A i \in 1 .. Len(o) : o[i] \in Controls
  BY DEF After
<1>4. v \in Seq(Made)
  BY <1>1 DEF Connections
<1>5. Ordered(d, v, r, n, p)
  <2>1. CASE Idle(m[e], w) \/ Discards(m[e], w)
    <3>1. v = g /\ r = q
      BY <2>1 DEF Idle, Discards, Flight
    <3> QED
      BY <1>2, <3>1
  <2>2. CASE Pops(m[e], w)
    <3>1. v = g /\ r = Tail(q) /\ q # <<>>
      BY <2>2 DEF Pops, Flight
    <3> HIDE DEF d, g, q, n, v, r
    <3> QED
      BY <1>0, <1>1, <1>2, <3>1, OrderedPop
  <2>3. CASE Hands(m[e], w, p)
    <3> DEFINE f == DatagramOf(m[e])
    <3>1. q # <<>> /\ r = Tail(q) /\ w.record = Append(m[e].record, f)
          /\ datagram_frame_length(Head(q).n) <= MaxDatagram[p]
      BY <2>3 DEF Hands
    <3>2. f \in Made /\ f \in DatagramFrames /\ f.at = Head(q).at /\ f.n = Head(q).n
      BY <3>1, SoundEnd, DatagramHead
    <3> HIDE DEF f
    <3>3. v = Append(g, f)
      BY <3>1, <3>2, FlightAppend
    <3> HIDE DEF d, g, q, n, v, r
    <3> QED
      BY <1>0, <1>1, <1>2, <3>1, <3>2, <3>3, OrderedSend
  <2>4. CASE Fills(m[e], w)
    <3> DEFINE f == FrameOf(m[e])
    <3>1. Sound(m[e]) /\ Writing(m[e]) /\ w = Written(m[e])
      BY <2>4, SoundEnd DEF Fills
    <3>2. r = q /\ w.record = Append(m[e].record, f)
      BY <3>1, WrittenPlain
    <3>3. f \in Made /\ f.k = "STREAM"
      BY <3>1, FrameOfMade
    <3>4. f \notin DatagramFrames
      BY <3>3 DEF DatagramFrames
    <3> HIDE DEF f
    <3>5. v = Append(g, f)
      BY <3>2, <3>3, FlightAppend
    <3> HIDE DEF d, g, q, n, v, r
    <3> QED
      BY <1>1, <1>2, <3>2, <3>3, <3>4, <3>5, OrderedSkip
  <2> QED
    BY <2>1, <2>2, <2>3, <2>4 DEF Shape
<1>6. \A i \in 1 .. Len(o) : o[i] \notin DatagramFrames
  BY <1>3, ControlsNoData
<1> HIDE DEF d, n, v, r
<1>7. Ordered(d, v \o o, r, n, p)
  BY <1>3, <1>4, <1>5, <1>6, OrderedConcat
<1> QED
  BY <1>3, <1>7 DEF DatagramsOrdered, d, n

LEMMA LeftFlight ==
    ASSUME Base, Base', NEW e \in End, NEW d, Left(e, d)
    PROVE  /\ Flight(e) = wire[e] /\ Flight(Peer(e)) = wire[Peer(e)]
           /\ Flight(e)' = wire'[e] /\ Flight(Peer(e))' = wire'[Peer(e)]
           /\ m'[Peer(e)] = m[Peer(e)] /\ m'[e].pending_datagrams = d.pending_datagrams
           /\ m'[e].buffer = d.buffer
BY DEF Left

LEMMA CallDg ==
    ASSUME Base, Base', NEW e \in End, NEW d \in Connections, Called(e, d), CallShape(e, d),
           DgInv
    PROVE  DgInv'
<1> DEFINE p == Peer(e)
<1>0. p \in End /\ Peer(p) = e /\ \A z \in End : z = e \/ z = p
  BY Ends
<1>1. wire' = wire /\ offset' = offset /\ told' = told /\ Left(e, d)
      /\ calls'[e] = calls[e] + 1 /\ calls'[p] = calls[p]
  BY DEF Called
<1>2. d.buffer = m[e].buffer
  BY DEF CallShape, Opens, Sends, Queues, Shuts, QueuesKept, Beneath
<1>3. /\ Flight(e)' = Flight(e) /\ Flight(p)' = Flight(p) /\ m'[p] = m[p]
      /\ m'[e].buffer = m[e].buffer /\ m'[e].pending_datagrams = d.pending_datagrams
  BY <1>1, <1>2, LeftFlight
<1>4. \A z \in End : Reading(z)'
  BY <1>1 DEF DgInv, Reading
<1>5. \A z \in End : PutTogether(z)'
  <2>1. \A z \in End : m'[z].buffer = m[z].buffer
    BY <1>0, <1>3
  <2> QED
    BY <1>1, <2>1 DEF DgInv, PutTogether
<1>6. DatagramsOrdered(p)'
  <2>1. DatagramsOrdered(p)
    BY <1>0 DEF DgInv
  <2> QED
    BY <1>1, <1>3, <2>1 DEF DatagramsOrdered
<1>7. DatagramsOrdered(e)'
  <2> DEFINE t == told[p].dgrams
             g == Flight(e)
             q == m[e].pending_datagrams
             n == calls[e]
  <2>1. t \in Seq(Datagrams) /\ g \in Seq(Made) /\ q \in Seq(Datagrams) /\ n \in Nat
    BY EndFacts
  <2>2. Ordered(t, g, q, n, p)
    BY DEF DgInv, DatagramsOrdered
  <2>3. CASE d.pending_datagrams = q
    <3>1. Ordered(t, g, q, n + 1, p)
      <4> HIDE DEF t, g, q, n
      <4> QED
        BY <1>0, <2>1, <2>2, OrderedCall
    <3> QED
      BY <1>1, <1>3, <2>3, <3>1 DEF DatagramsOrdered
  <2>4. CASE d.pending_datagrams # q
    <3>1. PICK s \in DatagramSizes : d.pending_datagrams = Append(q, [at |-> n, n |-> s])
      BY <2>4 DEF CallShape, Opens, Sends, Queues, Shuts, QueuesKept
    <3> DEFINE y == [at |-> n, n |-> s]
    <3>2. y \in Datagrams /\ y.at = n /\ y.n \in DatagramSizes
      BY <2>1, BoundAssumption DEF Datagrams
    <3> HIDE DEF y
    <3>3. Ordered(t, g, Append(q, y), n + 1, p)
      <4> HIDE DEF t, g, q, n
      <4> QED
        BY <1>0, <2>1, <2>2, <3>2, OrderedQueue
    <3>4. d.pending_datagrams = Append(q, y)
      BY <3>1 DEF y
    <3> QED
      BY <1>1, <1>3, <3>3, <3>4 DEF DatagramsOrdered
  <2> QED
    BY <2>3, <2>4
<1> QED
  BY <1>0, <1>4, <1>5, <1>6, <1>7 DEF DgInv

LEMMA RestDg ==
    ASSUME Base, Base', NEW e \in End, Rested(e), DgInv
    PROVE  DgInv'
<1>0. Peer(e) \in End /\ \A z \in End : z = e \/ z = Peer(e)
  BY Ends
<1>1. wire' = wire /\ offset' = offset /\ told' = told /\ calls' = calls /\ Left(e, m[e])
  BY DEF Rested
<1>2. /\ Flight(e)' = Flight(e) /\ Flight(Peer(e))' = Flight(Peer(e))
      /\ m'[Peer(e)] = m[Peer(e)]
      /\ m'[e].buffer = m[e].buffer /\ m'[e].pending_datagrams = m[e].pending_datagrams
  BY <1>1, LeftFlight
<1>3. \A z \in End : /\ Flight(z)' = Flight(z) /\ m'[z].buffer = m[z].buffer
                     /\ m'[z].pending_datagrams = m[z].pending_datagrams
  BY <1>0, <1>2
<1> SUFFICES ASSUME NEW z \in End
             PROVE  Reading(z)' /\ PutTogether(z)' /\ DatagramsOrdered(z)'
  BY DEF DgInv
<1>4. Reading(z) /\ PutTogether(z) /\ DatagramsOrdered(z)
  BY DEF DgInv
<1>5. Reading(z)' /\ PutTogether(z)'
  BY <1>1, <1>3, <1>4 DEF Reading, PutTogether
<1>6. DatagramsOrdered(z)'
  BY <1>1, <1>3, <1>4 DEF DatagramsOrdered
<1> QED
  BY <1>5, <1>6

LEMMA ReadDg ==
    ASSUME Base, Base', NEW e \in End, NEW k, NEW d, Left(e, d), Received(e, k),
           ReadShape(e, k, d), DgInv
    PROVE  DgInv'
<1> DEFINE p == Peer(e)
           f == Read1(e)
<1>0. p \in End /\ Peer(p) = e /\ \A z \in End : z = e \/ z = p
  BY Ends
<1>1. /\ wire[p] # <<>> /\ k \in Nat /\ offset[e] + k <= f.n
      /\ wire'[e] = wire[e] /\ wire'[p] = (IF Whole1(e, k) THEN Tail(wire[p]) ELSE wire[p])
      /\ offset'[p] = offset[p]
      /\ offset'[e] = (IF Whole1(e, k) THEN 0 ELSE offset[e] + k)
      /\ calls' = calls /\ told'[p] = told[p]
  BY DEF Received
<1>2. /\ f.n \in Nat /\ offset[e] \in Nat /\ f = Head(wire[p]) /\ f = wire[p][1]
      /\ f \in Made /\ f.at \in Nat
  BY <1>1, ReadTyped DEF Read1
<1>3. /\ Flight(e)' = wire'[e] /\ Flight(p)' = wire'[p] /\ Flight(e) = wire[e]
      /\ Flight(p) = wire[p]
      /\ m'[p] = m[p] /\ m'[e].buffer = d.buffer
      /\ m'[e].pending_datagrams = d.pending_datagrams
  BY LeftFlight
<1>4. d.pending_datagrams = m[e].pending_datagrams
  BY DEF ReadShape, ReadsStream, ReadsDatagram, ReadsControl, QueuesKept
<1>5. Reading(p) /\ PutTogether(p) /\ DatagramsOrdered(p)
      /\ Reading(e) /\ PutTogether(e) /\ DatagramsOrdered(e)
  BY <1>0 DEF DgInv
<1>6. Reading(p)' /\ PutTogether(p)'
  BY <1>0, <1>1, <1>3, <1>5 DEF Reading, PutTogether
<1>7. DatagramsOrdered(e)'
  BY <1>1, <1>3, <1>4, <1>5 DEF DatagramsOrdered
<1>8. Reading(e)'
  <2>1. ~Whole1(e, k) => offset[e] + k < f.n
    BY <1>1, <1>2 DEF Whole1
  <2> QED
    BY <1>1, <1>2, <2>1 DEF Reading
<1>9. f \in DatagramFrames <=> f.k = "DATAGRAM"
  BY <1>2 DEF Made, DatagramFrames
<1>10. f.k = "DATAGRAM" => SizeRead(e, k) = offset[e] + k
  <2>1. f.k = "DATAGRAM" /\ offset[e] > 0 => m[e].buffer = offset[e]
    BY <1>2, <1>5, <1>9 DEF PutTogether
  <2> QED
    BY <1>1, <1>2, <2>1 DEF SizeRead
<1>11. PutTogether(e)'
  <2> SUFFICES ASSUME offset'[e] > 0, Head(wire'[p]) \in DatagramFrames
               PROVE  m'[e].buffer = offset'[e]
    BY DEF PutTogether
  <2>1. ~Whole1(e, k) /\ wire'[p] = wire[p] /\ offset'[e] = offset[e] + k
    BY <1>1
  <2>2. f.k = "DATAGRAM"
    BY <1>2, <1>9, <2>1
  <2>3. d.buffer = SizeRead(e, k)
    BY <2>1, <2>2 DEF ReadShape, ReadsStream, ReadsDatagram, ReadsControl
  <2> QED
    BY <1>3, <1>10, <2>1, <2>2, <2>3
<1>12. DatagramsOrdered(p)'
  <2> DEFINE t == told[e].dgrams
             g == wire[p]
             q == m[p].pending_datagrams
             n == calls[p]
  <2>1. t \in Seq(Datagrams) /\ g \in Seq(Made) /\ q \in Seq(Datagrams) /\ n \in Nat
    BY <1>0, EndFacts
  <2>2. Ordered(t, g, q, n, e)
    BY <1>0, <1>3, <1>5 DEF DatagramsOrdered
  <2>3. SUFFICES Ordered(told'[e].dgrams, wire'[p], q, n, e)
    BY <1>0, <1>1, <1>3 DEF DatagramsOrdered
  <2>4. CASE ~Whole1(e, k)
    <3>1. told'[e].dgrams = t
      BY <2>4 DEF ReadShape, ReadsStream, ReadsDatagram, ReadsControl
    <3> QED
      BY <1>1, <2>2, <2>4, <3>1
  <2>5. CASE Whole1(e, k) /\ f.k # "DATAGRAM"
    <3>1. told'[e].dgrams = t /\ wire'[p] = Tail(g)
      BY <1>1, <2>5 DEF ReadShape, ReadsStream, ReadsDatagram, ReadsControl
    <3>2. Ordered(t, Tail(g), q, n, e)
      <4>0. g # <<>>
        BY <1>1
      <4> HIDE DEF t, g, q, n
      <4> QED
        BY <2>1, <2>2, <4>0, OrderedRead
    <3> QED
      BY <3>1, <3>2
  <2>6. CASE Whole1(e, k) /\ f.k = "DATAGRAM"
    <3> DEFINE y == DatagramRead(e, k)
    <3>1. SizeRead(e, k) = f.n
      BY <1>10, <2>6 DEF Whole1
    <3>2. told'[e].dgrams = Append(t, y) /\ wire'[p] = Tail(g)
      BY <1>1, <2>6, <3>1 DEF ReadShape, ReadsStream, ReadsDatagram, ReadsControl
    <3>3. y \in Datagrams /\ y.at = g[1].at /\ y.n = g[1].n /\ g[1] \in DatagramFrames
      BY <1>2, <1>9, <2>6, <3>1 DEF DatagramRead, Datagrams
    <3>4. Ordered(Append(t, y), Tail(g), q, n, e)
      <4>0. g # <<>>
        BY <1>1
      <4> HIDE DEF t, g, q, n, y
      <4> QED
        BY <2>1, <2>2, <3>3, <4>0, OrderedTold
    <3> QED
      BY <3>2, <3>4
  <2> QED
    BY <2>4, <2>5, <2>6
<1> QED
  BY <1>0, <1>6, <1>7, <1>8, <1>11, <1>12 DEF DgInv

LEMMA FlushDg ==
    ASSUME Base, NEW e \in End, NEW w \in Connections, NEW o, After(e, w, o), Shape(e, w),
           DgInv
    PROVE  DgInv'
<1>0. Peer(e) \in End /\ Peer(Peer(e)) = e /\ \A z \in End : z = e \/ z = Peer(e)
  BY Ends
<1>1. \A z \in End : Reading(z)' /\ PutTogether(z)'
  BY FlushReading DEF DgInv
<1>2. DatagramsOrdered(e)'
  BY FlushOrdered DEF DgInv
<1>3. DatagramsOrdered(Peer(e))'
  <2>1. DatagramsOrdered(Peer(e))
    BY <1>0 DEF DgInv
  <2> QED
    BY <2>1 DEF After, DatagramsOrdered
<1> QED
  BY <1>0, <1>1, <1>2, <1>3 DEF DgInv

LEMMA DgNext == ASSUME Base, Base', Next, DgInv PROVE DgInv'
<1>1. PICK e \in End : Turn(e) \/ Calls(e)
  BY DEF Next
<1>2. CASE Flush(e)
  <2>0. PICK w \in Connections : \E o : After(e, w, o) /\ Shape(e, w)
    BY <1>2, FlushShape
  <2>1. PICK o : After(e, w, o) /\ Shape(e, w)
    BY <2>0
  <2> QED
    BY <2>1, FlushDg
<1>3. CASE Pump(e) \/ NothingRead(e)
  BY <1>3, PumpStep, NothingStep, RestDg
<1>4. CASE Receive(e)
  <2>1. PICK k, d : Left(e, d) /\ Received(e, k) /\ ReadShape(e, k, d)
    BY <1>4, ReceiveShape
  <2> QED
    BY <2>1, ReadDg
<1>5. CASE Calls(e)
  <2>1. PICK d \in Connections : Called(e, d) /\ CallShape(e, d)
    BY <1>5, CallsShape
  <2> QED
    BY <2>1, CallDg
<1> QED
  BY <1>1, <1>2, <1>3, <1>4, <1>5 DEF Turn, Read

LEMMA DgStutter == ASSUME DgInv, UNCHANGED vars PROVE DgInv'
<1>1. m' = m /\ wire' = wire /\ offset' = offset /\ told' = told /\ calls' = calls
  BY DEF vars
<1> QED
  BY <1>1 DEF DgInv, Reading, PutTogether, DatagramsOrdered, Flight

LEMMA DgImplies == ASSUME Base, DgInv PROVE DatagramsWhole
<1> SUFFICES ASSUME NEW e \in End, NEW i \in 1 .. Len(told[e].dgrams)
             PROVE  /\ told[e].dgrams[i].n \in DatagramSizes
                    /\ datagram_frame_length(told[e].dgrams[i].n) <= MaxDatagram[e]
                    /\ \A j \in 1 .. i - 1 : told[e].dgrams[j].at < told[e].dgrams[i].at
  BY DEF DatagramsWhole
<1> DEFINE p == Peer(e)
           t == told[e].dgrams
<1>1. p \in End /\ Peer(p) = e
  BY Ends
<1>2. DatagramsOrdered(p)
  BY <1>1 DEF DgInv
<1>3. t \in Seq(Datagrams)
  BY <1>1, EndFacts
<1>4. Rising(t, Datagrams) /\ Fit(t, Datagrams, e)
  BY <1>1, <1>2 DEF DatagramsOrdered, Ordered
<1> HIDE DEF t
<1>5. \A j \in 1 .. Len(t) : t[j] \in Datagrams
  BY <1>3
<1>6. i \in 1 .. Len(t) /\ Len(t) \in Nat
  BY <1>3 DEF t
<1>7. t[i].n \in DatagramSizes /\ datagram_frame_length(t[i].n) <= MaxDatagram[e]
  BY <1>4, <1>5, <1>6 DEF Fit
<1>8. \A j \in 1 .. i - 1 : t[j].at < t[i].at
  BY <1>4, <1>5, <1>6 DEF Rising
<1> QED
  BY <1>7, <1>8 DEF t

(* Datagrams are handed over whole, in the order sent, once, and within    *)
(* the limit their receiver advertised (DatagramsWhole), whatever falls    *)
(* into one record or read, and whatever the calls between.                *)
THEOREM DatagramsAreWhole == Spec => []DatagramsWhole
<1>1. Init => Base /\ DgInv
  BY BaseInit, DgInit
<1>2. Base /\ DgInv /\ [Next]_vars => Base' /\ DgInv'
  BY BaseNext, BaseStutter, DgNext, DgStutter
<1>3. Base /\ DgInv => DatagramsWhole
  BY DgImplies
<1> QED
  BY <1>1, <1>2, <1>3, PTL DEF Spec

-----------------------------------------------------------------------------
(* What sequences name, and where FIN is.                                  *)

LEMMA NamesAppend ==
    ASSUME NEW X, NEW q \in Seq(X), NEW x \in X, NEW s, Names(Append(q, x), s)
    PROVE  Names(q, s) \/ x.s = s
<1> DEFINE r == Append(q, x)
<1>1. PICK i \in 1 .. Len(r) : r[i].s = s
  BY DEF Names
<1>2. i \in 1 .. Len(q) \/ i = Len(q) + 1
  OBVIOUS
<1>3. r[Len(q) + 1] = x /\ \A j \in 1 .. Len(q) : r[j] = q[j]
  OBVIOUS
<1> QED
  BY <1>1, <1>2, <1>3 DEF Names

LEMMA NamesConcat ==
    ASSUME NEW X, NEW q \in Seq(X), NEW o \in Seq(X), NEW s, Names(q \o o, s)
    PROVE  Names(q, s) \/ Names(o, s)
<1> DEFINE r == q \o o
<1>1. PICK i \in 1 .. Len(r) : r[i].s = s
  BY DEF Names
<1>2. CASE i \in 1 .. Len(q)
  <2>1. r[i] = q[i]
    BY <1>2
  <2> QED
    BY <1>1, <1>2, <2>1 DEF Names
<1>3. CASE i \notin 1 .. Len(q)
  <2>1. i - Len(q) \in 1 .. Len(o) /\ r[i] = o[i - Len(q)]
    BY <1>3
  <2> QED
    BY <1>1, <2>1 DEF Names
<1> QED
  BY <1>2, <1>3

LEMMA NamesTail ==
    ASSUME NEW X, NEW q \in Seq(X), q # <<>>, NEW s, Names(Tail(q), s)
    PROVE  Names(q, s)
<1> DEFINE r == Tail(q)
<1>1. PICK i \in 1 .. Len(r) : r[i].s = s
  BY DEF Names
<1>2. i + 1 \in 1 .. Len(q) /\ r[i] = q[i + 1]
  OBVIOUS
<1> QED
  BY <1>1, <1>2 DEF Names

LEMMA NamesFirst ==
    ASSUME NEW X, NEW q \in Seq(X), q # <<>>
    PROVE  Names(q, Head(q).s) /\ Names(q, q[1].s)
<1>1. 1 \in 1 .. Len(q) /\ Head(q) = q[1]
  OBVIOUS
<1> QED
  BY <1>1 DEF Names

LEMMA NamesRest ==
    ASSUME NEW q \in Seq(Writes), q # <<>>, NEW k \in Nat, k <= Head(q).n, NEW s,
           Names(Rest(q, k), s)
    PROVE  Names(q, s)
<1> DEFINE h == Head(q)
           y == [h EXCEPT !.at = @ + k, !.n = @ - k]
           r == [q EXCEPT ![1] = y]
<1>1. h \in Writes /\ h = q[1] /\ 1 \in 1 .. Len(q)
  OBVIOUS
<1>2. CASE k = 0 \/ k = Head(q).n
  BY <1>2, NamesTail DEF Rest
<1>3. CASE k # 0 /\ k # Head(q).n
  <2>1. Rest(q, k) = r
    BY <1>3 DEF Rest
  <2>2. y.s = h.s
    BY <1>1 DEF Writes
  <2> HIDE DEF y
  <2>3. Len(r) = Len(q) /\ \A i \in 1 .. Len(q) : r[i] = IF i = 1 THEN y ELSE q[i]
    OBVIOUS
  <2>4. PICK i \in 1 .. Len(r) : r[i].s = s
    BY <2>1 DEF Names
  <2> QED
    BY <1>1, <2>2, <2>3, <2>4 DEF Names
<1> QED
  BY <1>2, <1>3

LEMMA ClosesAppend ==
    ASSUME NEW X, NEW q \in Seq(X), NEW x \in X, NEW K, NEW y, Closes(q, K, y),
           x \in K /\ x.fin => y.fin /\ x.at + x.n = y.n
    PROVE  Closes(Append(q, x), K, y)
<1> DEFINE r == Append(q, x)
<1>1. /\ r[Len(q) + 1] = x /\ \A j \in 1 .. Len(q) : r[j] = q[j]
      /\ \A i \in 1 .. Len(r) : i \in 1 .. Len(q) \/ i = Len(q) + 1
  OBVIOUS
<1> HIDE DEF r
<1>2. Closes(r, K, y)
  BY <1>1 DEF Closes
<1> QED
  BY <1>2 DEF r

LEMMA ClosesConcat ==
    ASSUME NEW X, NEW q \in Seq(X), NEW o \in Seq(X), NEW K, NEW y, Closes(q, K, y),
           \A i \in 1 .. Len(o) : o[i] \notin K
    PROVE  Closes(q \o o, K, y)
<1> DEFINE r == q \o o
<1>1. /\ \A j \in 1 .. Len(q) : r[j] = q[j]
      /\ \A i \in 1 .. Len(r) : i \notin 1 .. Len(q) =>
           i - Len(q) \in 1 .. Len(o) /\ r[i] = o[i - Len(q)]
  OBVIOUS
<1> HIDE DEF r
<1>2. \A i \in 1 .. Len(r) : i \notin 1 .. Len(q) => r[i] \notin K
  BY <1>1
<1>3. Closes(r, K, y)
  BY <1>1, <1>2 DEF Closes
<1> QED
  BY <1>3 DEF r

LEMMA ClosesTail ==
    ASSUME NEW X, NEW q \in Seq(X), q # <<>>, NEW K, NEW y, Closes(q, K, y)
    PROVE  Closes(Tail(q), K, y)
<1> DEFINE r == Tail(q)
<1>1. \A i \in 1 .. Len(r) : i + 1 \in 1 .. Len(q) /\ r[i] = q[i + 1]
  OBVIOUS
<1> HIDE DEF r
<1>2. Closes(r, K, y)
  BY <1>1 DEF Closes
<1> QED
  BY <1>2 DEF r

LEMMA ClosesRest ==
    ASSUME NEW q \in Seq(Writes), q # <<>>, NEW k \in Nat, k <= Head(q).n, NEW s,
           NEW y, Closes(q, WritesOf(s), y)
    PROVE  Closes(Rest(q, k), WritesOf(s), y)
<1> DEFINE h == Head(q)
           z == [h EXCEPT !.at = @ + k, !.n = @ - k]
           r == [q EXCEPT ![1] = z]
<1>1. h \in Writes /\ h = q[1] /\ 1 \in 1 .. Len(q)
  OBVIOUS
<1>2. CASE k = 0 \/ k = Head(q).n
  BY <1>2, ClosesTail DEF Rest
<1>3. CASE k # 0 /\ k # Head(q).n
  <2>1. Rest(q, k) = r
    BY <1>3 DEF Rest
  <2>2. z.s = h.s /\ z.fin = h.fin /\ z.at = h.at + k /\ z.n = h.n - k /\ h.at \in Nat
        /\ h.n \in Nat
    BY <1>1 DEF Writes
  <2> HIDE DEF z
  <2>3. Len(r) = Len(q) /\ \A i \in 1 .. Len(q) : r[i] = IF i = 1 THEN z ELSE q[i]
    OBVIOUS
  <2>4. z.at + z.n = h.at + h.n
    BY <2>2
  <2>5. z \in WritesOf(s) => h \in WritesOf(s)
    BY <1>1, <2>2 DEF WritesOf
  <2> HIDE DEF h, r
  <2>6. Closes(r, WritesOf(s), y)
    BY <1>1, <2>2, <2>3, <2>4, <2>5, ZenonT(60) DEF Closes
  <2> QED
    BY <2>1, <2>6
<1> QED
  BY <1>2, <1>3

(* A first write of another stream is left alone by chains.                *)
LEMMA ChainRest ==
    ASSUME NEW q \in Seq(Writes), q # <<>>, NEW k \in Nat, k <= Head(q).n,
           NEW s \in Streams, NEW a \in Int, NEW b \in Int, Chain(q, WritesOf(s), a, b),
           NEW c \in Int, c = IF Head(q).s = s THEN a + k ELSE a
    PROVE  Chain(Rest(q, k), WritesOf(s), c, b)
<1> DEFINE h == Head(q)
           z == [h EXCEPT !.at = @ + k, !.n = @ - k]
           r == [q EXCEPT ![1] = z]
           K == WritesOf(s)
<1>0. Measured(K)
  BY DEF Measured, WritesOf, Writes
<1>1. h \in Writes /\ h = q[1] /\ 1 \in 1 .. Len(q) /\ h.n \in Nat /\ h.at \in Nat
  <2>1. h \in Writes /\ h = q[1] /\ 1 \in 1 .. Len(q)
    OBVIOUS
  <2> HIDE DEF h
  <2> QED
    BY <2>1 DEF Writes
<1>2. q[1] \in K <=> h.s = s
  BY <1>1 DEF WritesOf
<1>3. CASE k = 0
  <2>1. c = a /\ Rest(q, k) = q
    BY <1>3 DEF Rest
  <2> QED
    BY <2>1
<1>4. CASE k # 0 /\ k = Head(q).n
  <2>1. Rest(q, k) = Tail(q)
    BY <1>4 DEF Rest
  <2>2. c = IF q[1] \in K THEN a + q[1].n ELSE a
    BY <1>1, <1>2, <1>4
  <2> HIDE DEF K
  <2>3. Chain(Tail(q), K, c, b)
    BY <1>0, <2>2, ChainTail DEF K
  <2> QED
    BY <2>1, <2>3 DEF K
<1>5. CASE k # 0 /\ k # Head(q).n
  <2>1. Rest(q, k) = r
    BY <1>5 DEF Rest
  <2>2. z.s = h.s /\ z.fin = h.fin /\ z.at = h.at + k /\ z.n = h.n - k /\ z \in Writes
    <3>1. k <= h.n
      OBVIOUS
    <3> HIDE DEF h
    <3>2. h.n - k \in Nat /\ h.at + k \in Nat
      BY <1>1, <3>1
    <3> QED
      BY <1>1, <3>2 DEF Writes
  <2>3. z \in K <=> h.s = s
    BY <2>2 DEF WritesOf
  <2> HIDE DEF z, K
  <2>4. CASE h.s = s
    <3>1. c = a + k
      BY <2>4
    <3>2. q[1] \in K /\ z \in K /\ z.at = q[1].at + k /\ z.n = q[1].n - k /\ k <= q[1].n
      BY <1>1, <1>2, <2>2, <2>3, <2>4
    <3>3. Chain(q, K, a, b)
      BY DEF K
    <3>4. Chain(r, K, a + k, b)
      BY <1>0, <2>2, <3>2, <3>3, ChainShrink
    <3> QED
      BY <2>1, <3>1, <3>4 DEF K
  <2>5. CASE h.s # s
    <3>1. c = a
      BY <2>5
    <3>2. q[1] \notin K /\ z \notin K /\ Chain(q, K, a, b)
      BY <1>2, <2>3, <2>5 DEF K
    <3>3. Chain(r, K, a, b)
      BY <2>2, <3>2, ChainReplace
    <3> QED
      BY <2>1, <3>1, <3>3 DEF K
  <2> QED
    BY <2>4, <2>5
<1> QED
  BY <1>3, <1>4, <1>5

-----------------------------------------------------------------------------
(* Streams are opened before anything names them.                          *)

Quieter(e, w) ==
    /\ \A s \in Streams : w.tx[s] = m[e].tx[s] \/ (m[e].tx[s] = "open" /\ w.tx[s] = "fin")
    /\ w.rx = m[e].rx /\ w.owed = m[e].owed
    /\ \A s \in Streams : Names(w.pending_stream_data, s) => Names(m[e].pending_stream_data, s)
    /\ \A s \in Streams : m[e].tx[s] # "open" => w.sent[s] = m[e].sent[s]
    /\ \A s \in Streams : Names(wire[e] \o w.record, s) =>
         Names(Flight(e), s) \/ Names(m[e].pending_stream_data, s)

LEMMA KeepsQuiet ==
    ASSUME NEW e, NEW w, StreamsKept(m[e], w), Beneath(m[e], w), w.record = m[e].record
    PROVE  Quieter(e, w)
BY DEF StreamsKept, Beneath, Quieter, Flight

LEMMA FlushQuieter ==
    ASSUME Base, NEW e \in End, NEW w \in Connections, Shape(e, w)
    PROVE  Quieter(e, w)
<1> DEFINE c == m[e]
<1>0. c \in Connections /\ Sound(c) /\ Flight(e) \in Seq(Made)
      /\ c.pending_stream_data \in Seq(Writes)
  BY SoundEnd, EndFacts DEF Connections
<1>1. CASE Idle(c, w) \/ Pops(c, w)
  BY <1>1, KeepsQuiet DEF Idle, Pops
<1>2. CASE Discards(c, w)
  <2>1. /\ w.tx = c.tx /\ w.rx = c.rx /\ w.sent = c.sent /\ w.owed = c.owed
        /\ wire[e] \o w.record = Flight(e)
        /\ c.pending_stream_data # <<>> /\ w.pending_stream_data = Tail(c.pending_stream_data)
    BY <1>2 DEF Discards, Beneath, Flight
  <2>2. \A s \in Streams : Names(w.pending_stream_data, s) => Names(c.pending_stream_data, s)
    <3> DEFINE q == c.pending_stream_data
    <3>1. q \in Seq(Writes) /\ q # <<>> /\ w.pending_stream_data = Tail(q)
      BY <1>0, <2>1
    <3> HIDE DEF q
    <3> QED
      BY <3>1, NamesTail DEF q
  <2> QED
    BY <2>1, <2>2 DEF Quieter
<1>3. CASE Hands(c, w, Peer(e))
  <2> DEFINE f == DatagramOf(c)
             g == Flight(e)
  <2>1. StreamsKept(c, w) /\ w.owed = c.owed /\ c.pending_datagrams # <<>>
        /\ w.record = Append(c.record, f)
    BY <1>3 DEF Hands, Beneath
  <2>2. f \in Made /\ f.s = None
    BY <1>0, <2>1, DatagramHead
  <2> HIDE DEF f
  <2>3. wire[e] \o w.record = Append(g, f)
    BY <2>1, <2>2, FlightAppend
  <2>4. \A s \in Streams : Names(Append(g, f), s) => Names(g, s)
    <3>1. g \in Seq(Made)
      BY <1>0
    <3> HIDE DEF g
    <3> QED
      BY <2>2, <3>1, NamesAppend, NoneIsNoStream
  <2> QED
    BY <2>1, <2>3, <2>4 DEF Quieter, StreamsKept
<1>4. CASE Fills(c, w)
  <2> DEFINE f == FrameOf(c)
             g == Flight(e)
             h == HeadOf(c)
             k == Taken(c)
             q == c.pending_stream_data
  <2>1. Writing(c) /\ w = Written(c)
    BY <1>4 DEF Fills
  <2>2. /\ Beside(c, w) /\ w.pending_stream_data = Rest(q, k)
        /\ w.record = Append(c.record, f)
        /\ w.sent = [c.sent EXCEPT ![h.s] = @ + k]
        /\ w.tx = [c.tx EXCEPT ![h.s] = IF f.fin THEN "fin" ELSE @]
    BY <1>0, <2>1, WrittenFields
  <2>3. f \in Made /\ f.s = h.s /\ f.fin \in BOOLEAN
    BY <1>0, <2>1, FrameOfMade
  <2>4. q # <<>> /\ c.tx[h.s] = "open"
    BY <2>1 DEF Writing, HeadOf
  <2>5. h \in Writes /\ h.s \in Streams /\ h = Head(q)
    BY <1>0, <2>4, HeadTyped DEF HeadOf
  <2>6. k \in Nat /\ k <= h.n
    BY <1>0, <2>1, TakenFacts
  <2> HIDE DEF f, h, k
  <2>7. wire[e] \o w.record = Append(g, f)
    BY <2>2, <2>3, FlightAppend
  <2>8. c.sent \in [Streams -> Nat] /\ c.tx \in [Streams -> Tx]
    BY <1>0, Sides DEF Connections
  <2>9. \A s \in Streams : w.tx[s] = c.tx[s] \/ (c.tx[s] = "open" /\ w.tx[s] = "fin")
    BY <2>2, <2>4, <2>5, <2>8
  <2>10. \A s \in Streams : c.tx[s] # "open" => w.sent[s] = c.sent[s]
    BY <2>2, <2>4, <2>5, <2>8
  <2>11. \A s \in Streams : Names(w.pending_stream_data, s) => Names(q, s)
    <3>1. q \in Seq(Writes)
      BY <1>0
    <3> HIDE DEF q
    <3> QED
      BY <2>2, <2>4, <2>5, <2>6, <3>1, NamesRest
  <2>12. Names(q, h.s)
    <3>1. q \in Seq(Writes)
      BY <1>0
    <3> HIDE DEF q
    <3> QED
      BY <2>4, <2>5, <3>1, NamesFirst
  <2>13. \A s \in Streams : Names(Append(g, f), s) => Names(g, s) \/ Names(q, s)
    <3>1. g \in Seq(Made)
      BY <1>0
    <3> HIDE DEF g, q
    <3> QED
      BY <2>3, <2>12, <3>1, NamesAppend
  <2> QED
    BY <2>2, <2>7, <2>9, <2>10, <2>11, <2>13 DEF Quieter, Beside
<1> QED
  BY <1>1, <1>2, <1>3, <1>4 DEF Shape

(* What was opened stays so, as long as no side becomes unknown.           *)
LEMMA OpenedStays ==
    ASSUME \A z \in End : \A s \in Streams : m[z].tx[s] # "none" => m'[z].tx[s] # "none"
    PROVE  \A s \in Streams : Opened(s) => Opened(s)'
BY DEF Opened, End

LEMMA FlushOpened ==
    ASSUME Base, NEW e \in End, NEW w \in Connections, NEW o, After(e, w, o), Shape(e, w),
           \A z \in End : OpenedFirst(z)
    PROVE  \A z \in End : OpenedFirst(z)'
<1> DEFINE p == Peer(e)
           v == wire[e] \o w.record
<1>0. p \in End /\ Peer(p) = e /\ \A z \in End : z = e \/ z = p
  BY Ends
<1>1. Quieter(e, w)
  BY FlushQuieter
<1>2. /\ m'[p] = m[p] /\ Flight(p)' = Flight(p) /\ said' = said
      /\ Flight(e)' = v \o o /\ o \in Seq(Made)
      /\ m'[e].pending_stream_data = w.pending_stream_data
      /\ m'[e].tx = w.tx /\ m'[e].rx = w.rx /\ m'[e].sent = w.sent
      /\ m'[e].owed \in {w.owed, <<>>}
      /\ \A i \in 1 .. Len(o) :
           o[i].s \in Streams => \E j \in 1 .. Len(w.owed) : w.owed[j].s = o[i].s
  BY DEF After
<1>3. \A s \in Streams : Opened(s) => Opened(s)'
  <2>1. \A s \in Streams : m[e].tx[s] # "none" => m'[e].tx[s] # "none"
    BY <1>1, <1>2 DEF Quieter
  <2> QED
    BY <1>0, <1>2, <2>1, OpenedStays
<1>4. OpenedFirst(p)'
  <2>1. OpenedFirst(p)
    BY <1>0
  <2> QED
    BY <1>2, <1>3, <2>1 DEF OpenedFirst
<1>5. OpenedFirst(e)'
  <2>0. OpenedFirst(e)
    OBVIOUS
  <2>1. \A s \in Streams : m'[e].tx[s] # "none" <=> m[e].tx[s] # "none"
    BY <1>1, <1>2 DEF Quieter
  <2>2. \A s \in Streams : m'[e].tx[s] # "none" <=> m'[e].rx[s] # "none"
    BY <1>1, <1>2, <2>0, <2>1 DEF Quieter, OpenedFirst
  <2>3. \A s \in Streams : m'[e].tx[s] # "none" => Opened(s)'
    BY <1>3, <2>0, <2>1 DEF OpenedFirst
  <2>4. \A s \in Streams : Names(m[e].pending_stream_data, s) => Opened(s)
    BY <2>0 DEF OpenedFirst
  <2>5. \A s \in Streams : Names(v, s) => Opened(s)'
    BY <1>1, <1>3, <2>0, <2>4 DEF OpenedFirst, Quieter
  <2>6. \A s \in Streams : Names(o, s) => Opened(s)'
    <3> SUFFICES ASSUME NEW s \in Streams, Names(o, s) PROVE Opened(s)'
      OBVIOUS
    <3>1. Names(w.owed, s)
      BY <1>2 DEF Names
    <3>2. Names(m[e].owed, s)
      BY <1>1, <3>1 DEF Quieter
    <3> QED
      BY <1>3, <2>0, <3>2 DEF OpenedFirst
  <2>7. \A s \in Streams : Names(v \o o, s) => Opened(s)'
    <3>1. v \in Seq(Made)
      BY EndFacts DEF Connections
    <3> HIDE DEF v
    <3> QED
      BY <1>2, <2>5, <2>6, <3>1, NamesConcat
  <2>8. \A s \in Streams : Names(m'[e].owed, s) => Opened(s)'
    <3>1. \A s \in Streams : Names(w.owed, s) => Opened(s)'
      BY <1>1, <1>3, <2>0 DEF Quieter, OpenedFirst
    <3>2. \A s \in Streams : ~Names(<<>>, s)
      BY DEF Names
    <3> QED
      BY <1>2, <3>1, <3>2
  <2>9. \A s \in Streams : Names(m'[e].pending_stream_data, s) => m'[e].tx[s] # "none"
    BY <1>1, <1>2, <2>0, <2>1 DEF OpenedFirst, Quieter
  <2>10. \A s \in Streams : m'[e].tx[s] = "none" =>
            m'[e].sent[s] = 0 /\ said'[e][s].n = 0 /\ ~said'[e][s].fin
    BY <1>1, <1>2, <2>0, <2>1 DEF OpenedFirst, Quieter
  <2> QED
    BY <1>2, <2>2, <2>3, <2>7, <2>8, <2>9, <2>10 DEF OpenedFirst
<1> QED
  BY <1>0, <1>4, <1>5

(* A step of e between flushes: its peer only sees its own frames go.      *)
LEMMA OpenedStep ==
    ASSUME Base, Base', NEW e \in End, NEW d, Left(e, d), \A z \in End : OpenedFirst(z),
           said'[Peer(e)] = said[Peer(e)],
           \A s \in Streams : m[e].tx[s] # "none" => d.tx[s] # "none",
           \A s \in Streams : d.tx[s] # "none" <=> d.rx[s] # "none",
           \A s \in Streams : d.tx[s] # "none" => m[e].tx[s] # "none" \/ Opened(s)',
           \A s \in Streams : Names(wire'[e], s) => Names(wire[e], s),
           \A s \in Streams : Names(wire'[Peer(e)], s) => Names(wire[Peer(e)], s),
           \A s \in Streams : Names(d.owed, s) => Names(m[e].owed, s) \/ Opened(s),
           \A s \in Streams : Names(d.pending_stream_data, s) =>
                                Names(m[e].pending_stream_data, s) \/ m[e].tx[s] # "none",
           d.sent = m[e].sent,
           \A s \in Streams : m[e].tx[s] = "none" => said'[e][s] = said[e][s]
    PROVE  \A z \in End : OpenedFirst(z)'
<1> DEFINE p == Peer(e)
<1>0. p \in End /\ Peer(p) = e /\ \A z \in End : z = e \/ z = p
  BY Ends
<1>1. /\ m'[p] = m[p] /\ m'[e].pending_stream_data = d.pending_stream_data
      /\ m'[e].tx = d.tx /\ m'[e].rx = d.rx /\ m'[e].sent = d.sent /\ m'[e].owed = d.owed
      /\ Flight(e)' = wire'[e] /\ Flight(p)' = wire'[p]
      /\ Flight(e) = wire[e] /\ Flight(p) = wire[p]
  BY DEF Left
<1>2. \A s \in Streams : Opened(s) => Opened(s)'
  BY <1>0, <1>1, OpenedStays
<1>3. OpenedFirst(p)'
  <2>1. OpenedFirst(p)
    BY <1>0
  <2> QED
    BY <1>1, <1>2, <2>1 DEF OpenedFirst
<1>4. OpenedFirst(e)'
  <2>0. OpenedFirst(e)
    OBVIOUS
  <2>1. \A s \in Streams : m'[e].tx[s] # "none" <=> m'[e].rx[s] # "none"
    BY <1>1
  <2>2. \A s \in Streams : m'[e].tx[s] # "none" => Opened(s)'
    BY <1>1, <1>2, <2>0 DEF OpenedFirst
  <2>3. \A s \in Streams : Names(Flight(e)', s) \/ Names(m'[e].owed, s) => Opened(s)'
    BY <1>1, <1>2, <2>0 DEF OpenedFirst
  <2>4. \A s \in Streams : Names(m'[e].pending_stream_data, s) => m'[e].tx[s] # "none"
    BY <1>1, <2>0 DEF OpenedFirst
  <2>5. \A s \in Streams : m'[e].tx[s] = "none" =>
            m'[e].sent[s] = 0 /\ said'[e][s].n = 0 /\ ~said'[e][s].fin
    BY <1>1, <2>0 DEF OpenedFirst
  <2> QED
    BY <2>1, <2>2, <2>3, <2>4, <2>5 DEF OpenedFirst
<1> QED
  BY <1>0, <1>3, <1>4

LEMMA CallOpened ==
    ASSUME Base, Base', NEW e \in End, NEW d \in Connections, Called(e, d), CallShape(e, d),
           \A z \in End : OpenedFirst(z)
    PROVE  \A z \in End : OpenedFirst(z)'
<1> DEFINE p == Peer(e)
           c == m[e]
<1>0. p \in End /\ c \in Connections /\ c.pending_stream_data \in Seq(Writes)
  BY Ends, SoundEnd DEF Connections
<1>1. wire' = wire /\ Left(e, d) /\ m'[e].tx = d.tx
  BY DEF Called, Left
<1>2. OpenedFirst(e)
  OBVIOUS
<1>3. said \in [End -> [Streams -> Uttered]] /\ said' \in [End -> [Streams -> Uttered]]
  BY DEF Base, TypeOK, Uttered
<1>4. CASE Opens(e, d)
  <2>1. PICK s \in Streams :
         /\ c.tx[s] = "none" /\ d.tx[s] = "open" /\ d.rx[s] \in {"open", "ended"}
         /\ \A r \in Streams : r # s => d.tx[r] = c.tx[r] /\ d.rx[r] = c.rx[r]
    BY <1>4 DEF Opens
  <2>2. e = "client" /\ QueuesKept(c, d) /\ d.owed = c.owed /\ said' = said
    BY <1>4 DEF Opens
  <2>3. \A r \in Streams : d.tx[r] # "none" <=> d.rx[r] # "none"
    BY <1>2, <2>1 DEF OpenedFirst
  <2>4. \A r \in Streams : d.tx[r] # "none" => Opened(r)'
    BY <1>1, <2>2 DEF Opened
  <2>5. \A r \in Streams : c.tx[r] # "none" => d.tx[r] # "none"
    BY <2>1
  <2>6. d.sent = c.sent /\ d.pending_stream_data = c.pending_stream_data
    BY <2>2 DEF QueuesKept
  <2> QED
    BY <1>1, <2>2, <2>3, <2>4, <2>5, <2>6, OpenedStep
<1>5. CASE Sends(e, d)
  <2>1. /\ d.tx = c.tx /\ d.rx = c.rx /\ d.sent = c.sent /\ d.owed = c.owed
    BY <1>5 DEF Sends
  <2>2. PICK s \in Streams, n \in Nat, fin \in BOOLEAN :
         /\ c.tx[s] # "none"
         /\ \A r \in Streams : r # s => said'[e][r] = said[e][r]
         /\ said'[p] = said[p]
         /\ d.pending_stream_data = Append(c.pending_stream_data, WriteOf(e, s, n, fin))
    BY <1>5 DEF Sends
  <2> DEFINE y == WriteOf(e, s, n, fin)
             q == c.pending_stream_data
  <2>3. y.s = s /\ y \in Writes
    BY <1>3 DEF WriteOf, Writes, Uttered
  <2>4. \A r \in Streams : Names(Append(q, y), r) => Names(q, r) \/ c.tx[r] # "none"
    <3>1. q \in Seq(Writes)
      BY <1>0
    <3> HIDE DEF q, y
    <3> QED
      BY <2>2, <2>3, <3>1, NamesAppend
  <2>5. \A r \in Streams : d.tx[r] # "none" <=> d.rx[r] # "none"
    BY <1>2, <2>1 DEF OpenedFirst
  <2>6. \A r \in Streams : c.tx[r] = "none" => said'[e][r] = said[e][r]
    BY <2>2
  <2>7. \A r \in Streams : Names(d.pending_stream_data, r) => Names(q, r) \/ c.tx[r] # "none"
    BY <2>2, <2>4
  <2>8. said'[p] = said[p]
    BY <2>2
  <2> QED
    BY <1>1, <2>1, <2>5, <2>6, <2>7, <2>8, OpenedStep
<1>6. CASE Queues(e, d)
  <2>1. /\ d.tx = c.tx /\ d.rx = c.rx /\ d.sent = c.sent /\ d.owed = c.owed
        /\ d.pending_stream_data = c.pending_stream_data /\ said' = said
    BY <1>6 DEF Queues, StreamsKept, Beneath
  <2>2. \A r \in Streams : d.tx[r] # "none" <=> d.rx[r] # "none"
    BY <1>2, <2>1 DEF OpenedFirst
  <2> QED
    BY <1>1, <2>1, <2>2, OpenedStep
<1>7. CASE Shuts(e, d)
  <2>1. PICK s \in Streams :
         /\ c.tx[s] # "none" \/ c.rx[s] # "none"
         /\ Shut(c, s, d)
         /\ \A r \in Streams :
              /\ said'[e][r].n = said[e][r].n
              /\ said[e][r].fin => said'[e][r].fin
              /\ said'[e][r].fin => said[e][r].fin \/ c.tx[r] # "none"
         /\ said'[p] = said[p]
    BY <1>7 DEF Shuts
  <2>2. d.sent = c.sent /\ d.pending_stream_data = c.pending_stream_data
    BY <1>7 DEF Shuts, QueuesKept
  <2>3. Opened(s)
    BY <1>2, <2>1 DEF OpenedFirst
  <2>4. \A r \in Streams : Names(d.owed, r) => Names(c.owed, r) \/ Opened(r)
    <3> SUFFICES ASSUME NEW r \in Streams, Names(d.owed, r)
                 PROVE  Names(c.owed, r) \/ Opened(r)
      OBVIOUS
    <3>1. PICK i \in 1 .. Len(d.owed) : d.owed[i].s = r
      BY DEF Names
    <3>2. d.owed[i].s = s \/ \E j \in 1 .. Len(c.owed) : d.owed[i].s = c.owed[j].s
      BY <2>1 DEF Shut
    <3> QED
      BY <2>3, <3>1, <3>2 DEF Names
  <2>5. /\ \A r \in Streams : d.tx[r] # "none" <=> d.rx[r] # "none"
        /\ \A r \in Streams : d.tx[r] # "none" <=> c.tx[r] # "none"
    BY <1>2, <2>1 DEF OpenedFirst, Shut
  <2>6. \A r \in Streams : c.tx[r] = "none" => said'[e][r] = said[e][r]
    <3> SUFFICES ASSUME NEW r \in Streams, c.tx[r] = "none" PROVE said'[e][r] = said[e][r]
      OBVIOUS
    <3>1. said'[e][r] \in Uttered /\ said[e][r] \in Uttered
      BY <1>3
    <3>2. said'[e][r].n = said[e][r].n /\ said'[e][r].fin = said[e][r].fin
      <4>1. said'[e][r].fin \in BOOLEAN /\ said[e][r].fin \in BOOLEAN
        BY <3>1 DEF Uttered
      <4> QED
        BY <2>1, <4>1
    <3> HIDE DEF c
    <3> DEFINE x == said[e][r]
               z == said'[e][r]
    <3>3. x \in Uttered /\ z \in Uttered /\ x.n = z.n /\ x.fin = z.fin
      BY <3>1, <3>2
    <3> HIDE DEF x, z
    <3>4. x = z
      BY <3>3 DEF Uttered
    <3> QED
      BY <3>4 DEF x, z
  <2> QED
    BY <1>1, <2>1, <2>2, <2>4, <2>5, <2>6, OpenedStep
<1> QED
  BY <1>4, <1>5, <1>6, <1>7 DEF CallShape

LEMMA RestOpened ==
    ASSUME Base, Base', NEW e \in End, Rested(e), \A z \in End : OpenedFirst(z)
    PROVE  \A z \in End : OpenedFirst(z)'
<1>1. wire' = wire /\ said' = said /\ Left(e, m[e])
  BY DEF Rested
<1>2. \A r \in Streams : m[e].tx[r] # "none" <=> m[e].rx[r] # "none"
  BY DEF OpenedFirst
<1> QED
  BY <1>1, <1>2, OpenedStep

(* What the frame that is read makes known.                                *)
LEMMA LearnedOpened ==
    ASSUME Base, NEW e \in End, wire[Peer(e)] # <<>>, \A z \in End : OpenedFirst(z),
           Flight(Peer(e)) = wire[Peer(e)]
    PROVE  /\ \A s \in Streams : m[e].tx[s] # "none" => Learned(e).tx[s] # "none"
           /\ \A s \in Streams : Learned(e).tx[s] # "none" <=> Learned(e).rx[s] # "none"
           /\ \A s \in Streams : Learned(e).tx[s] # "none" => m[e].tx[s] # "none" \/ Opened(s)
           /\ Read1(e).s \in Streams => Opened(Read1(e).s) /\ Learned(e).rx[Read1(e).s] # "none"
           /\ \A s \in Streams : s # Read1(e).s => /\ Learned(e).rx[s] = m[e].rx[s]
                                                   /\ Learned(e).tx[s] = m[e].tx[s]
           /\ \A s \in Streams : m[e].rx[s] # "none" => Learned(e).rx[s] = m[e].rx[s]
           /\ \A s \in Streams : m[e].rx[s] = "none" => Learned(e).rx[s] \in {"none", "open"}
           /\ \A s \in Streams : m[e].tx[s] # "none" => Learned(e).tx[s] = m[e].tx[s]
<1> DEFINE p == Peer(e)
           s == Read1(e).s
           d == Learned(e)
           c == m[e]
<1>0. p \in End /\ e \in End /\ wire[p] \in Seq(Made)
  BY Ends, EndFacts
<1>1. Learns(e, s, d)
  BY LearnedFields
<1>2. s \in Streams => Opened(s)
  <2>1. Names(wire[p], s)
    <3> DEFINE q == wire[p]
    <3>1. q \in Seq(Made) /\ q # <<>>
      BY <1>0
    <3> HIDE DEF q
    <3>2. Names(q, Head(q).s)
      BY <3>1, NamesFirst
    <3> QED
      BY <3>2 DEF q, Read1
  <2>2. OpenedFirst(p)
    BY <1>0
  <2> QED
    BY <2>1, <2>2 DEF OpenedFirst
<1>3. c.tx \in [Streams -> Tx] /\ c.rx \in [Streams -> Rx]
  BY SoundEnd, Sides
<1>4. \A r \in Streams : c.tx[r] # "none" <=> c.rx[r] # "none"
  BY DEF OpenedFirst
<1>5. None \notin Streams
  BY NoneIsNoStream
<1> HIDE DEF d, c, s
<1>6. CASE /\ d.tx = c.tx /\ d.rx = c.rx
           /\ (e = "client" \/ s = None \/ c.rx[s] # "none")
  <2>1. s \in Streams => c.rx[s] # "none"
    <3>1. e = "client" => (Opened(s) => c.tx[s] # "none")
      BY DEF Opened, c
    <3> QED
      BY <1>2, <1>4, <1>5, <1>6, <3>1
  <2> QED
    BY <1>2, <1>4, <1>6, <2>1 DEF d, c, s
<1>7. CASE /\ e = "server" /\ s \in Streams /\ c.rx[s] = "none"
           /\ d.rx = [c.rx EXCEPT ![s] = "open"]
           /\ \E t \in {"open", "reset"} : d.tx = [c.tx EXCEPT ![s] = t]
  <2>1. PICK t \in {"open", "reset"} : d.tx = [c.tx EXCEPT ![s] = t]
    BY <1>7
  <2>2. d.rx[s] = "open" /\ \A r \in Streams : r # s => d.rx[r] = c.rx[r]
    BY <1>3, <1>7
  <2>3. d.tx[s] # "none" /\ \A r \in Streams : r # s => d.tx[r] = c.tx[r]
    BY <1>3, <1>7, <2>1
  <2>4. c.tx[s] = "none"
    BY <1>4, <1>7
  <2> QED
    BY <1>2, <1>4, <1>7, <2>2, <2>3, <2>4 DEF d, c, s
<1> QED
  BY <1>1, <1>6, <1>7 DEF Learns, c

LEMMA ReadOpened ==
    ASSUME Base, Base', NEW e \in End, NEW k, NEW d, Left(e, d), Received(e, k),
           ReadShape(e, k, d), \A z \in End : OpenedFirst(z)
    PROVE  \A z \in End : OpenedFirst(z)'
<1> DEFINE p == Peer(e)
           c == m[e]
           b == Learned(e)
           f == Read1(e)
<1>0. p \in End /\ wire[p] \in Seq(Made) /\ m'[e].tx = d.tx /\ m'[p] = m[p]
  BY Ends, EndFacts DEF Left
<1>1. /\ wire[p] # <<>> /\ wire'[e] = wire[e] /\ said' = said
      /\ wire'[p] = IF Whole1(e, k) THEN Tail(wire[p]) ELSE wire[p]
  BY DEF Received
<1>2. Flight(p) = wire[p]
  BY DEF Left
<1>3. /\ \A s \in Streams : c.tx[s] # "none" => b.tx[s] # "none"
      /\ \A s \in Streams : b.tx[s] # "none" <=> b.rx[s] # "none"
      /\ \A s \in Streams : b.tx[s] # "none" => c.tx[s] # "none" \/ Opened(s)
      /\ f.s \in Streams => Opened(f.s) /\ b.rx[f.s] # "none"
  BY <1>1, <1>2, LearnedOpened
<1>4. b.owed = c.owed
  BY <1>1, LearnedFields
<1> HIDE DEF b, f
<1>5. d.sent = c.sent /\ d.pending_stream_data = c.pending_stream_data
  BY DEF ReadShape, ReadsStream, ReadsDatagram, ReadsControl, QueuesKept
<1>6. /\ \A s \in Streams : d.tx[s] # "none" <=> b.tx[s] # "none"
      /\ \A s \in Streams : d.rx[s] # "none" <=> b.rx[s] # "none"
      /\ \A s \in Streams : Names(d.owed, s) => Names(c.owed, s) \/ s = f.s
  <2>1. CASE ReadsStream(e, k, d)
    <3>1. d.tx = b.tx /\ d.owed = c.owed
      BY <2>1 DEF ReadsStream, b
    <3>2. f.s \in Streams
      BY <1>1, <2>1, ReadTyped DEF ReadsStream, WellMade, f
    <3>3. d.rx[f.s] \in {"ended", b.rx[f.s]} /\ \A r \in Streams : r # f.s => d.rx[r] = b.rx[r]
      BY <2>1 DEF ReadsStream, b, f
    <3> QED
      BY <1>3, <3>1, <3>2, <3>3
  <2>2. CASE ReadsDatagram(e, k, d)
    BY <2>2 DEF ReadsDatagram, b
  <2>3. CASE ReadsControl(e, d)
    <3>1. CASE d.tx = b.tx /\ d.rx = b.rx /\ d.owed = c.owed
      BY <3>1
    <3>2. CASE /\ f.s \in Streams /\ d.tx = b.tx /\ d.rx[f.s] = "ended" /\ d.owed = c.owed
               /\ \A r \in Streams : r # f.s => d.rx[r] = b.rx[r]
      BY <1>3, <3>2
    <3>3. CASE f.s \in Streams /\ Shut(b, f.s, d)
      <4>1. \A s \in Streams : Names(d.owed, s) => Names(c.owed, s) \/ s = f.s
        BY <1>4, <3>3 DEF Shut, Names
      <4> QED
        BY <3>3, <4>1 DEF Shut
    <3> QED
      BY <2>3, <3>1, <3>2, <3>3 DEF ReadsControl, b, f
  <2> QED
    BY <2>1, <2>2, <2>3 DEF ReadShape
<1>7. \A s \in Streams : Names(wire'[p], s) => Names(wire[p], s)
  <2> DEFINE q == wire[p]
  <2>1. q \in Seq(Made) /\ q # <<>> /\ wire'[p] \in {q, Tail(q)}
    BY <1>0, <1>1
  <2> HIDE DEF q
  <2> QED
    BY <2>1, NamesTail DEF q
<1>8. \A s \in Streams : Opened(s) => Opened(s)'
  <2>1. \A z \in End : \A s \in Streams : m[z].tx[s] # "none" => m'[z].tx[s] # "none"
    BY <1>0, <1>3, <1>6, Ends
  <2> QED
    BY <2>1, OpenedStays
<1>9. \A s \in Streams : Names(d.owed, s) => Names(c.owed, s) \/ Opened(s)
  BY <1>3, <1>6
<1>10. \A s \in Streams : d.tx[s] # "none" <=> d.rx[s] # "none"
  BY <1>3, <1>6
<1>11. \A s \in Streams : d.tx[s] # "none" => c.tx[s] # "none" \/ Opened(s)'
  BY <1>3, <1>6, <1>8
<1>12. \A s \in Streams : c.tx[s] # "none" => d.tx[s] # "none"
  BY <1>3, <1>6
<1> QED
  BY <1>1, <1>5, <1>7, <1>9, <1>10, <1>11, <1>12, OpenedStep

-----------------------------------------------------------------------------
(* FIN is the last of a stream.                                            *)

LEMMA StreamFacts ==
    ASSUME Base, NEW e \in End, NEW s \in Streams
    PROVE  /\ m[e].pending_stream_data \in Seq(Writes) /\ Flight(e) \in Seq(Made)
           /\ m[e].sent[s] \in Nat /\ said[e][s] \in Uttered
           /\ said[e][s].n \in Nat /\ said[e][s].fin \in BOOLEAN
           /\ told[e].bytes[s] \in Nat /\ told[e].fin[s] \in BOOLEAN
           /\ told[e].gap[s] \in BOOLEAN /\ offset[e] \in Nat
           /\ m[e].tx[s] \in Tx /\ m[e].rx[s] \in Rx
<1>1. m[e] \in Connections /\ Flight(e) \in Seq(Made) /\ offset[e] \in Nat
  BY SoundEnd, EndFacts
<1>2. m[e].tx \in [Streams -> Tx] /\ m[e].rx \in [Streams -> Rx]
  BY <1>1, Sides
<1>3. m[e].pending_stream_data \in Seq(Writes) /\ m[e].sent \in [Streams -> Nat]
  BY <1>1 DEF Connections
<1>4. said \in [End -> [Streams -> Uttered]] /\ told \in [End -> Told]
  BY DEF Base, TypeOK, Uttered
<1>5. said[e][s] \in Uttered /\ told[e] \in Told
  BY <1>4
<1>6. said[e][s].n \in Nat /\ said[e][s].fin \in BOOLEAN
  BY <1>5 DEF Uttered
<1>7. /\ told[e].bytes[s] \in Nat /\ told[e].fin[s] \in BOOLEAN /\ told[e].gap[s] \in BOOLEAN
  BY <1>5 DEF Told
<1> QED
  BY <1>1, <1>2, <1>3, <1>5, <1>6, <1>7

LEMMA FlushCloses ==
    ASSUME Base, NEW e \in End, NEW w \in Connections, Shape(e, w), NEW s \in Streams,
           FinLast(e, s)
    PROVE  /\ Closes(wire[e] \o w.record, FramesOf(s), said[e][s])
           /\ Closes(w.pending_stream_data, WritesOf(s), said[e][s])
<1> DEFINE c == m[e]
           q == c.pending_stream_data
           g == Flight(e)
           x == said[e][s]
           K == FramesOf(s)
           L == WritesOf(s)
<1>0. c \in Connections /\ Sound(c) /\ q \in Seq(Writes) /\ g \in Seq(Made)
  BY SoundEnd, StreamFacts
<1>a. Closes(g, K, x) /\ Closes(q, L, x)
  BY DEF FinLast
<1>1. CASE Idle(c, w) \/ Pops(c, w)
  <2>1. w.pending_stream_data = q /\ wire[e] \o w.record = g
    BY <1>1 DEF Idle, Pops, StreamsKept, Flight
  <2> QED
    BY <1>a, <2>1
<1>2. CASE Discards(c, w)
  <2>1. w.pending_stream_data = Tail(q) /\ wire[e] \o w.record = g /\ q # <<>>
    BY <1>2 DEF Discards, Flight
  <2> HIDE DEF q, L, x
  <2>2. Closes(Tail(q), L, x)
    BY <1>0, <1>a, <2>1, ClosesTail
  <2> QED
    BY <1>a, <2>1, <2>2 DEF q, L, x
<1>3. CASE Hands(c, w, Peer(e))
  <2> DEFINE f == DatagramOf(c)
  <2>1. w.pending_stream_data = q /\ c.pending_datagrams # <<>>
        /\ w.record = Append(c.record, f)
    BY <1>3 DEF Hands, StreamsKept
  <2>2. f \in Made /\ f \notin K
    BY <1>0, <2>1, DatagramHead DEF FramesOf
  <2> HIDE DEF f
  <2>3. wire[e] \o w.record = Append(g, f)
    BY <2>1, <2>2, FlightAppend
  <2>4. Closes(Append(g, f), K, x)
    <3> HIDE DEF g, K, x
    <3> QED
      BY <1>0, <1>a, <2>2, ClosesAppend
  <2> QED
    BY <1>a, <2>1, <2>3, <2>4
<1>4. CASE Fills(c, w)
  <2> DEFINE f == FrameOf(c)
             h == HeadOf(c)
             k == Taken(c)
  <2>1. Writing(c) /\ w = Written(c) /\ q # <<>>
    BY <1>4 DEF Fills, Writing
  <2>2. w.record = Append(c.record, f) /\ w.pending_stream_data = Rest(q, k)
    BY <1>0, <2>1, WrittenPlain
  <2>3. /\ f \in Made /\ f.s = h.s /\ f.at = h.at /\ f.n = k
        /\ f.fin = (h.fin /\ k = h.n)
    BY <1>0, <2>1, FrameOfMade
  <2>4. h \in Writes /\ h = q[1] /\ h = Head(q)
    BY <1>0, <2>1, HeadTyped DEF HeadOf
  <2>5. k \in Nat /\ k <= h.n
    BY <1>0, <2>1, TakenFacts
  <2> HIDE DEF f, h, k
  <2>6. wire[e] \o w.record = Append(g, f)
    BY <2>2, <2>3, FlightAppend
  <2>7. f \in K /\ f.fin => x.fin /\ f.at + f.n = x.n
    <3> SUFFICES ASSUME f \in K, f.fin PROVE x.fin /\ f.at + f.n = x.n
      OBVIOUS
    <3>1. h.fin /\ k = h.n /\ h.s = s
      BY <2>3 DEF FramesOf
    <3>2. h \in L
      BY <2>4, <3>1 DEF WritesOf
    <3>3. 1 \in 1 .. Len(q)
      BY <1>0, <2>1
    <3>4. x.fin /\ h.at + h.n = x.n
      BY <1>a, <2>4, <3>1, <3>2, <3>3 DEF Closes
    <3> QED
      BY <2>3, <3>1, <3>4
  <2>8. Closes(Append(g, f), K, x)
    <3> HIDE DEF g, K, x
    <3> QED
      BY <1>0, <1>a, <2>3, <2>7, ClosesAppend
  <2>9. Closes(Rest(q, k), L, x)
    <3> HIDE DEF q, x
    <3> QED
      BY <1>0, <1>a, <2>1, <2>4, <2>5, ClosesRest
  <2> QED
    BY <2>2, <2>6, <2>8, <2>9
<1> QED
  BY <1>1, <1>2, <1>3, <1>4 DEF Shape

LEMMA FlushFin ==
    ASSUME Base, NEW e \in End, NEW w \in Connections, NEW o, After(e, w, o), Shape(e, w),
           \A z \in End : \A s \in Streams : FinLast(z, s)
    PROVE  \A z \in End : \A s \in Streams : FinLast(z, s)'
<1> DEFINE p == Peer(e)
           v == wire[e] \o w.record
<1>0. p \in End /\ Peer(p) = e /\ \A z \in End : z = e \/ z = p
  BY Ends
<1>1. /\ m'[p] = m[p] /\ Flight(p)' = Flight(p) /\ said' = said /\ told' = told
      /\ Flight(e)' = v \o o /\ o \in Seq(Made)
      /\ m'[e].pending_stream_data = w.pending_stream_data
      /\ \A i \in 1 .. Len(o) : o[i] \in Controls
  BY DEF After
<1>2. \A s \in Streams : FinLast(p, s)'
  <2>1. \A s \in Streams : FinLast(p, s)
    BY <1>0
  <2> QED
    BY <1>1, <2>1 DEF FinLast
<1>3. ASSUME NEW s \in Streams PROVE FinLast(e, s)'
  <2> DEFINE x == said[e][s]
             K == FramesOf(s)
  <2>0. FinLast(e, s)
    OBVIOUS
  <2>1. Closes(v, K, x) /\ Closes(w.pending_stream_data, WritesOf(s), x)
    BY <2>0, FlushCloses
  <2>2. \A i \in 1 .. Len(o) : o[i] \notin K
    BY <1>1, ControlsNoData
  <2>3. Closes(v \o o, K, x)
    <3>1. v \in Seq(Made)
      BY EndFacts DEF Connections
    <3> HIDE DEF v, K, x
    <3> QED
      BY <1>1, <2>1, <2>2, <3>1, ClosesConcat
  <2> QED
    BY <1>1, <2>0, <2>1, <2>3 DEF FinLast
<1> QED
  BY <1>0, <1>2, <1>3

LEMMA CallFin ==
    ASSUME Base, Base', NEW e \in End, NEW d \in Connections, Called(e, d), CallShape(e, d),
           \A z \in End : \A s \in Streams : FinLast(z, s)
    PROVE  \A z \in End : \A s \in Streams : FinLast(z, s)'
<1> DEFINE p == Peer(e)
           c == m[e]
<1>0. p \in End /\ Peer(p) = e /\ \A z \in End : z = e \/ z = p
  BY Ends
<1>1. /\ m'[p] = m[p] /\ Flight(p)' = Flight(p) /\ Flight(e)' = Flight(e) /\ told' = told
      /\ m'[e].pending_stream_data = d.pending_stream_data
  BY DEF Called, Left
<1>2. said'[p] = said[p]
  BY DEF CallShape, Opens, Sends, Queues, Shuts
<1>3. \A s \in Streams : FinLast(p, s)'
  <2>1. \A s \in Streams : FinLast(p, s)
    BY <1>0
  <2> QED
    BY <1>1, <1>2, <2>1 DEF FinLast
<1>4. CASE Opens(e, d) \/ Queues(e, d) \/ Shuts(e, d)
  <2>1. d.pending_stream_data = c.pending_stream_data
    BY <1>4 DEF Opens, Queues, Shuts, QueuesKept, StreamsKept
  <2>2. \A s \in Streams : said'[e][s].n = said[e][s].n
                           /\ (said[e][s].fin => said'[e][s].fin)
    BY <1>4 DEF Opens, Queues, Shuts
  <2>3. \A s \in Streams : FinLast(e, s)'
    <3> SUFFICES ASSUME NEW s \in Streams PROVE FinLast(e, s)'
      OBVIOUS
    <3>1. FinLast(e, s)
      OBVIOUS
    <3> QED
      BY <1>1, <2>1, <2>2, <3>1 DEF FinLast, Closes
  <2> QED
    BY <1>0, <1>3, <2>3
<1>5. CASE Sends(e, d)
  <2>1. PICK t \in Streams, n \in Nat, fin \in BOOLEAN :
         /\ ~said[e][t].fin
         /\ said'[e][t].n = said[e][t].n + n /\ said'[e][t].fin = fin
         /\ \A r \in Streams : r # t => said'[e][r] = said[e][r]
         /\ d.pending_stream_data = Append(c.pending_stream_data, WriteOf(e, t, n, fin))
    BY <1>5 DEF Sends
  <2> DEFINE y == WriteOf(e, t, n, fin)
             q == c.pending_stream_data
  <2>2. y.s = t /\ y \in Writes /\ y.at = said[e][t].n /\ y.n = n /\ y.fin = fin
    BY StreamFacts DEF WriteOf, Writes
  <2> HIDE DEF y
  <2>3. ASSUME NEW s \in Streams PROVE FinLast(e, s)'
    <3> DEFINE x == said[e][s]
               z == said'[e][s]
               K == FramesOf(s)
               L == WritesOf(s)
               g == Flight(e)
    <3>0. FinLast(e, s)
      OBVIOUS
    <3>1. Closes(g, K, x) /\ Closes(q, L, x) /\ (told[p].fin[s] => x.fin)
      BY <3>0 DEF FinLast
    <3>2. q \in Seq(Writes)
      BY StreamFacts
    <3>3. s = t => ~x.fin
      BY <2>1
    <3>4. s # t => z = x
      BY <2>1
    <3>5. Closes(g, K, z) /\ Closes(q, L, z) /\ (told[p].fin[s] => z.fin)
      <4> HIDE DEF x, z, g, q, K, L
      <4>1. CASE s = t
        BY <3>1, <3>3, <4>1 DEF Closes
      <4>2. CASE s # t
        BY <3>1, <3>4, <4>2
      <4> QED
        BY <4>1, <4>2
    <3>6. y \in L /\ y.fin => z.fin /\ y.at + y.n = z.n
      BY <2>1, <2>2 DEF WritesOf
    <3>7. Closes(Append(q, y), L, z)
      <4> HIDE DEF q, z, L
      <4> QED
        BY <2>2, <3>2, <3>5, <3>6, ClosesAppend
    <3>8. d.pending_stream_data = Append(q, y)
      BY <2>1 DEF y
    <3> QED
      BY <1>1, <3>5, <3>7, <3>8 DEF FinLast
  <2> QED
    BY <1>0, <1>3, <2>3
<1> QED
  BY <1>4, <1>5 DEF CallShape

LEMMA RestFin ==
    ASSUME Base, Base', NEW e \in End, Rested(e),
           \A z \in End : \A s \in Streams : FinLast(z, s)
    PROVE  \A z \in End : \A s \in Streams : FinLast(z, s)'
<1>1. /\ Flight(e)' = Flight(e) /\ Flight(Peer(e))' = Flight(Peer(e))
      /\ m'[Peer(e)] = m[Peer(e)] /\ told' = told /\ said' = said
      /\ m'[e].pending_stream_data = m[e].pending_stream_data
  BY DEF Rested, Left
<1>2. \A z \in End : Flight(z)' = Flight(z)
                     /\ m'[z].pending_stream_data = m[z].pending_stream_data
  BY <1>1, Ends
<1> SUFFICES ASSUME NEW z \in End, NEW s \in Streams PROVE FinLast(z, s)'
  OBVIOUS
<1>3. FinLast(z, s)
  OBVIOUS
<1> QED
  BY <1>1, <1>2, <1>3 DEF FinLast

LEMMA ReadFin ==
    ASSUME Base, Base', NEW e \in End, NEW k, NEW d, Left(e, d), Received(e, k),
           ReadShape(e, k, d), \A z \in End : \A s \in Streams : FinLast(z, s)
    PROVE  \A z \in End : \A s \in Streams : FinLast(z, s)'
<1> DEFINE p == Peer(e)
           f == Read1(e)
           g == wire[p]
<1>0. p \in End /\ Peer(p) = e /\ \A z \in End : z = e \/ z = p
  BY Ends
<1>1. /\ g # <<>> /\ wire'[e] = wire[e] /\ said' = said /\ told'[p] = told[p]
      /\ wire'[p] = IF Whole1(e, k) THEN Tail(g) ELSE g
  BY DEF Received
<1>2. /\ m'[p] = m[p] /\ Flight(p) = g /\ Flight(p)' = wire'[p]
      /\ Flight(e)' = wire'[e] /\ Flight(e) = wire[e]
      /\ m'[e].pending_stream_data = d.pending_stream_data
  BY DEF Left
<1>3. d.pending_stream_data = m[e].pending_stream_data
  BY DEF ReadShape, ReadsStream, ReadsDatagram, ReadsControl, QueuesKept
<1>4. ASSUME NEW s \in Streams PROVE FinLast(e, s)'
  <2>1. FinLast(e, s)
    OBVIOUS
  <2> QED
    BY <1>1, <1>2, <1>3, <2>1 DEF FinLast
<1>5. ASSUME NEW s \in Streams PROVE FinLast(p, s)'
  <2> DEFINE x == said[p][s]
             K == FramesOf(s)
  <2>1. FinLast(p, s)
    BY <1>0
  <2>2. Closes(g, K, x) /\ (told[e].fin[s] => x.fin)
        /\ Closes(m[p].pending_stream_data, WritesOf(s), x)
    BY <1>0, <1>2, <2>1 DEF FinLast
  <2>3. g \in Seq(Made)
    BY <1>0, EndFacts
  <2>4. Closes(wire'[p], K, x)
    <3>1. wire'[p] \in {g, Tail(g)} /\ g # <<>>
      BY <1>1
    <3> HIDE DEF g, K, x
    <3>2. Closes(Tail(g), K, x)
      BY <2>2, <2>3, <3>1, ClosesTail
    <3> QED
      BY <2>2, <3>1, <3>2
  <2>5. told'[e].fin[s] => x.fin
    <3>1. CASE ReadsStream(e, k, d) /\ f.s = s /\ Learned(e).rx[s] = "open"
      <4>1. told'[e].fin[s] = (f.fin /\ Whole1(e, k)) /\ f.k = "STREAM"
        BY <3>1 DEF ReadsStream
      <4>2. f \in Made /\ f = g[1] /\ 1 \in 1 .. Len(g)
        BY <1>1, <2>3, ReadTyped
      <4>3. f \in K
        BY <3>1, <4>1, <4>2 DEF FramesOf, Made
      <4> QED
        BY <2>2, <4>1, <4>2, <4>3 DEF Closes
    <3>2. CASE ~(ReadsStream(e, k, d) /\ f.s = s /\ Learned(e).rx[s] = "open")
      <4>1. told'[e].fin[s] = told[e].fin[s]
        BY <3>2 DEF ReadShape, ReadsStream, ReadsDatagram, ReadsControl
      <4> QED
        BY <2>2, <4>1
    <3> QED
      BY <3>1, <3>2
  <2> QED
    BY <1>0, <1>1, <1>2, <2>2, <2>4, <2>5 DEF FinLast
<1> QED
  BY <1>0, <1>4, <1>5

-----------------------------------------------------------------------------
(* Within the credit nothing is lost.                                      *)

LEMMA SumAtMost ==
    ASSUME NEW S, IsFiniteSet(S), NEW f \in [S -> Nat], NEW g \in [S -> Nat],
           \A x \in S : f[x] <= g[x]
    PROVE  SumFunctionOnSet(f, S) <= SumFunctionOnSet(g, S)
<1>0. SumFunctionOnSet(f, S) \in Nat /\ SumFunctionOnSet(g, S) \in Nat
  BY SumNat
<1>1. CASE \E a \in S : f[a] < g[a]
  <2>1. SumFunctionOnSet(f, S) < SumFunctionOnSet(g, S)
    BY <1>1, SumLess
  <2> QED
    BY <1>0, <2>1
<1>2. CASE \A a \in S : ~(f[a] < g[a])
  <2>1. \A a \in S : f[a] = g[a]
    <3> SUFFICES ASSUME NEW a \in S PROVE f[a] = g[a]
      OBVIOUS
    <3>1. f[a] \in Nat /\ g[a] \in Nat /\ f[a] <= g[a] /\ ~(f[a] < g[a])
      BY <1>2
    <3> QED
      BY <3>1
  <2>2. f = g
    BY <2>1
  <2> QED
    BY <1>0, <2>2
<1> QED
  BY <1>1, <1>2

LEMMA WithinIs ==
    ASSUME NEW x \in [Streams -> Uttered]
    PROVE  /\ Lengths(x) \in [Streams -> Nat] /\ \A s \in Streams : Lengths(x)[s] = x[s].n
           /\ Within(x) <=> /\ \A s \in Streams : x[s].n <= MaxStreamData
                            /\ SumFunctionOnSet(Lengths(x), Streams) <= MaxData
<1>1. DOMAIN x = Streams /\ IsFiniteSet(DOMAIN x)
  BY StreamAssumption
<1>2. FoldFunction(LAMBDA w, a : w.n + a, 0, x) = SumFunctionOnSet(Lengths(x), DOMAIN x)
  BY Zenon, <1>1, SaidIsSum
<1>3. Within(x) <=> /\ \A s \in Streams : x[s].n <= MaxStreamData
                    /\ SumFunctionOnSet(Lengths(x), Streams) <= MaxData
  BY Zenon, <1>1, <1>2 DEF Within
<1>4. \A s \in Streams : x[s].n \in Nat
  BY DEF Uttered
<1>5. Lengths(x) \in [Streams -> Nat] /\ \A s \in Streams : Lengths(x)[s] = x[s].n
  BY <1>1, <1>4 DEF Lengths
<1> QED
  BY <1>3, <1>5

(* An application that is within the credit was so before.                 *)
LEMMA CreditBefore ==
    ASSUME NEW x \in [Streams -> Uttered], NEW y \in [Streams -> Uttered], Within(y),
           \A s \in Streams : x[s].n <= y[s].n
    PROVE  Within(x)
<1> DEFINE f == Lengths(x)
           g == Lengths(y)
<1>1. /\ f \in [Streams -> Nat] /\ g \in [Streams -> Nat]
      /\ \A s \in Streams : f[s] = x[s].n /\ g[s] = y[s].n
      /\ \A s \in Streams : g[s] <= MaxStreamData
      /\ SumFunctionOnSet(g, Streams) <= MaxData
  BY WithinIs
<1>2. \A s \in Streams : f[s] <= g[s]
  BY <1>1
<1> HIDE DEF f, g
<1>3. SumFunctionOnSet(f, Streams) <= SumFunctionOnSet(g, Streams)
  BY <1>1, <1>2, SumAtMost, StreamAssumption
<1>4. SumFunctionOnSet(f, Streams) \in Nat /\ SumFunctionOnSet(g, Streams) \in Nat
  BY <1>1, SumNat, StreamAssumption
<1>5. SumFunctionOnSet(f, Streams) <= MaxData
  BY <1>1, <1>3, <1>4, LimitAssumption
<1>6. \A s \in Streams : x[s].n <= MaxStreamData
  <2> SUFFICES ASSUME NEW s \in Streams PROVE x[s].n <= MaxStreamData
    OBVIOUS
  <2>1. f[s] \in Nat /\ g[s] \in Nat /\ f[s] <= g[s] /\ g[s] <= MaxStreamData
    BY <1>1, <1>2
  <2>2. f[s] <= MaxStreamData
    BY <2>1, LimitAssumption
  <2> QED
    BY <1>1, <2>2
<1> QED
  BY <1>5, <1>6, WithinIs DEF f

(* A write with bytes that are still to be sent finds credit.              *)
LEMMA CreditLeft ==
    ASSUME Base, NEW e \in End, Within(said[e]), NEW h \in Streams,
           \A s \in Streams : m[e].sent[s] <= said[e][s].n,
           m[e].sent[h] < said[e][h].n
    PROVE  Credit(m[e], h) > 0
<1> DEFINE c == m[e]
           f == c.sent
           x == said[e]
           g == Lengths(x)
<1>1. c \in Connections /\ x \in [Streams -> Uttered]
  BY SoundEnd DEF Base, TypeOK, Uttered
<1>2. f \in [Streams -> Nat]
  BY <1>1 DEF Connections
<1>a. \A s \in Streams : f[s] <= x[s].n
  OBVIOUS
<1>b. f[h] < x[h].n /\ Within(x)
  OBVIOUS
<1>c. SentSum(c) = SumFunctionOnSet(f, Streams)
  BY <1>1, SentSumIs
<1> HIDE DEF f, x
<1>3. /\ g \in [Streams -> Nat] /\ \A s \in Streams : g[s] = x[s].n
      /\ \A s \in Streams : x[s].n <= MaxStreamData
      /\ SumFunctionOnSet(g, Streams) <= MaxData
  BY <1>1, <1>b, WithinIs
<1>4. f[h] < g[h] /\ g[h] <= MaxStreamData /\ \A s \in Streams : f[s] <= g[s]
  BY <1>3, <1>a, <1>b
<1> HIDE DEF g
<1>7. SumFunctionOnSet(f, Streams) < SumFunctionOnSet(g, Streams)
  BY <1>2, <1>3, <1>4, SumLess, StreamAssumption
<1>8. SumFunctionOnSet(f, Streams) \in Nat /\ SumFunctionOnSet(g, Streams) \in Nat
  BY <1>2, <1>3, SumNat, StreamAssumption
<1>9. SentSum(c) < MaxData
  BY <1>3, <1>c, <1>7, <1>8, LimitAssumption
<1>10. c.sent[h] < MaxStreamData
  <2>1. f[h] \in Nat /\ g[h] \in Nat
    BY <1>2, <1>3
  <2>2. f[h] < MaxStreamData
    BY <1>4, <2>1, LimitAssumption
  <2> QED
    BY <2>2 DEF f
<1> QED
  BY <1>1, <1>9, <1>10, CreditFacts

Live == {"none", "open"}

(* What e has under way on s is as before, or a side of s has ended.       *)
LEMMA WholeKept ==
    ASSUME NEW e, NEW s, Whole(e, s),
           m'[e].pending_stream_data = m[e].pending_stream_data,
           m'[e].sent[s] = m[e].sent[s], said'[e][s].n = said[e][s].n,
           m'[e].tx[s] \in Live => m[e].tx[s] \in Live,
           m'[Peer(e)].rx[s] \in Live => m[Peer(e)].rx[s] \in Live,
           m[Peer(e)].rx[s] \in Live =>
             (Chain(Flight(e), FramesOf(s), Start(e, s), m[e].sent[s]) =>
                Chain(Flight(e)', FramesOf(s), Start(e, s)', m[e].sent[s])),
           told'[Peer(e)].bytes[s] = told[Peer(e)].bytes[s],
           told'[Peer(e)].gap[s] = told[Peer(e)].gap[s],
           told'[Peer(e)].fin[s] = told[Peer(e)].fin[s]
    PROVE  Whole(e, s)'
BY DEF Whole, Live

LEMMA StartSame ==
    ASSUME Base, NEW e \in End, NEW s \in Streams, Reading(Peer(e)),
           wire[e] # <<>> => wire'[e] # <<>> /\ Head(wire'[e]) = Head(wire[e]),
           offset'[Peer(e)] = offset[Peer(e)],
           told'[Peer(e)].bytes[s] = told[Peer(e)].bytes[s]
    PROVE  Start(e, s)' = Start(e, s)
<1>1. Peer(Peer(e)) = e
  BY Ends
<1>2. offset[Peer(e)] > 0 => Head(wire'[e]) = Head(wire[e])
  BY <1>1 DEF Reading
<1> QED
  BY <1>2 DEF Start

LEMMA StartInt ==
    ASSUME Base, NEW e \in End, NEW s \in Streams PROVE Start(e, s) \in Int
<1>1. told[Peer(e)].bytes[s] \in Nat /\ offset[Peer(e)] \in Nat
  BY Ends, StreamFacts
<1> QED
  BY <1>1 DEF Start

LEMMA FramesMeasured == ASSUME NEW s PROVE Measured(FramesOf(s)) /\ Measured(WritesOf(s))
BY DEF Measured, FramesOf, WritesOf, Frames, Writes

(* The chains of a stream through the steps of a flush.                    *)
LEMMA FlushChains ==
    ASSUME Base, NEW e \in End, NEW w \in Connections, Shape(e, w), NEW s \in Streams,
           OpenedFirst(e), Within(said[e]), \A r \in Streams : Whole(e, r)
    PROVE  /\ w.tx[s] \in Live =>
                Chain(w.pending_stream_data, WritesOf(s), w.sent[s], said[e][s].n)
           /\ w.sent[s] <= said[e][s].n
           /\ m[Peer(e)].rx[s] \in Live =>
                Chain(wire[e] \o w.record, FramesOf(s), Start(e, s), w.sent[s])
<1> DEFINE c == m[e]
           q == c.pending_stream_data
           g == Flight(e)
           K == FramesOf(s)
           L == WritesOf(s)
           a == Start(e, s)
           b == c.sent[s]
           n == said[e][s].n
           far == m[Peer(e)].rx[s] \in Live
<1>0. /\ c \in Connections /\ Sound(c) /\ q \in Seq(Writes) /\ g \in Seq(Made)
      /\ a \in Int /\ b \in Nat /\ n \in Nat
  BY SoundEnd, StreamFacts, StartInt
<1>1. /\ c.tx[s] \in Live => Chain(q, L, b, n)
      /\ b <= n
      /\ far => Chain(g, K, a, b)
  BY DEF Whole, Live
<1>m. Measured(K) /\ Measured(L)
  BY FramesMeasured
<1>2. CASE Idle(c, w) \/ Pops(c, w)
  <2>1. w.pending_stream_data = q /\ wire[e] \o w.record = g /\ w.sent = c.sent /\ w.tx = c.tx
    BY <1>2 DEF Idle, Pops, StreamsKept, Flight
  <2> QED
    BY <1>1, <2>1
<1>3. CASE Hands(c, w, Peer(e))
  <2> DEFINE f == DatagramOf(c)
  <2>1. /\ w.pending_stream_data = q /\ c.pending_datagrams # <<>>
        /\ w.record = Append(c.record, f) /\ w.sent = c.sent /\ w.tx = c.tx
    BY <1>3 DEF Hands, StreamsKept
  <2>2. f \in Made /\ f \notin K
    BY <1>0, <2>1, DatagramHead DEF FramesOf
  <2> HIDE DEF f
  <2>3. wire[e] \o w.record = Append(g, f)
    BY <2>1, <2>2, FlightAppend
  <2>4. far => Chain(Append(g, f), K, a, b)
    <3> HIDE DEF g, K, a, b
    <3> QED
      BY <1>0, <1>1, <2>2, ChainSkip
  <2>5. far => Chain(wire[e] \o w.record, K, a, w.sent[s])
    BY <2>1, <2>3, <2>4
  <2> QED
    BY <1>1, <2>1, <2>5
<1>4. CASE Discards(c, w)
  <2> DEFINE h == HeadOf(c)
  <2>1. /\ w.pending_stream_data = Tail(q) /\ wire[e] \o w.record = g /\ q # <<>>
        /\ w.sent = c.sent /\ w.tx = c.tx
        /\ c.tx[h.s] # "open" \/ (h.n > 0 /\ Credit(c, h.s) = 0)
    BY <1>4 DEF Discards, Flight
  <2>2. h \in Writes /\ h.s \in Streams /\ h = q[1] /\ h = Head(q) /\ h.n \in Nat
        /\ h.at \in Nat
    BY <1>0, <2>1, HeadTyped DEF HeadOf
  <2> HIDE DEF h
  <2>3. c.tx[h.s] # "none"
    <3>1. Names(q, h.s)
      <4>1. q \in Seq(Writes) /\ q # <<>> /\ h = Head(q)
        BY <1>0, <2>1, <2>2
      <4> HIDE DEF q
      <4> QED
        BY <4>1, NamesFirst
    <3> QED
      BY <2>2, <3>1 DEF OpenedFirst
  <2>4. c.tx[h.s] # "open"
    <3> SUFFICES ASSUME c.tx[h.s] = "open" PROVE FALSE
      OBVIOUS
    <3>1. h.n > 0 /\ Credit(c, h.s) = 0
      BY <2>1
    <3>2. Chain(q, WritesOf(h.s), c.sent[h.s], said[e][h.s].n)
      BY <2>2 DEF Whole, Live
    <3>3. h \in WritesOf(h.s) /\ 1 \in 1 .. Len(q)
      BY <1>0, <2>1, <2>2 DEF WritesOf
    <3>4. c.sent[h.s] <= h.at /\ h.at + h.n <= said[e][h.s].n
      BY <2>2, <3>2, <3>3 DEF Chain
    <3>5. c.sent[h.s] \in Nat /\ said[e][h.s].n \in Nat
      BY <2>2, StreamFacts
    <3>6. c.sent[h.s] < said[e][h.s].n
      BY <2>2, <3>1, <3>4, <3>5
    <3>7. \A r \in Streams : c.sent[r] <= said[e][r].n
      BY DEF Whole
    <3>8. Credit(c, h.s) > 0
      BY <2>2, <3>6, <3>7, CreditLeft
    <3> QED
      BY <3>1, <3>8
  <2>5. c.tx[s] \in Live => Chain(Tail(q), L, b, n)
    <3> SUFFICES ASSUME c.tx[s] \in Live PROVE Chain(Tail(q), L, b, n)
      OBVIOUS
    <3>1. h.s # s
      BY <2>3, <2>4 DEF Live
    <3>2. q[1] \notin L /\ q # <<>>
      BY <2>1, <2>2, <3>1 DEF WritesOf
    <3>3. Chain(q, L, b, n)
      BY <1>1
    <3> HIDE DEF q, L, b, n
    <3> QED
      BY <1>0, <1>m, <3>2, <3>3, ChainTail
  <2> QED
    BY <1>1, <2>1, <2>5
<1>5. CASE Fills(c, w)
  <2> DEFINE f == FrameOf(c)
             h == HeadOf(c)
             k == Taken(c)
  <2>1. Writing(c) /\ w = Written(c) /\ q # <<>> /\ c.tx[h.s] = "open"
    BY <1>5 DEF Fills, Writing, HeadOf
  <2>2. /\ w.pending_stream_data = Rest(q, k)
        /\ w.record = Append(c.record, f)
        /\ w.sent = [c.sent EXCEPT ![h.s] = @ + k]
        /\ w.tx = [c.tx EXCEPT ![h.s] = IF f.fin THEN "fin" ELSE @]
    BY <1>0, <2>1, WrittenFields
  <2>3. f \in Made /\ f.k = "STREAM" /\ f.s = h.s /\ f.at = h.at /\ f.n = k
    BY <1>0, <2>1, FrameOfMade
  <2>4. h \in Writes /\ h.s \in Streams /\ h = q[1] /\ h = Head(q) /\ h.n \in Nat
        /\ h.at \in Nat
    BY <1>0, <2>1, HeadTyped DEF HeadOf
  <2>5. k \in Nat /\ k <= h.n
    BY <1>0, <2>1, TakenFacts
  <2>6. c.sent \in [Streams -> Nat] /\ c.tx \in [Streams -> Tx]
    BY <1>0, Sides DEF Connections
  <2> HIDE DEF f, h, k
  <2>7. w.sent[s] = (IF h.s = s THEN b + k ELSE b) /\ w.sent[s] \in Nat
    BY <2>2, <2>4, <2>5, <2>6, SMTT(60)
  <2>8. w.tx[s] \in Live => c.tx[s] \in Live
    BY <2>1, <2>2, <2>4, <2>6 DEF Live
  <2>9. wire[e] \o w.record = Append(g, f)
    BY <2>2, <2>3, FlightAppend
  <2>10. h.s = s => Chain(q, L, b, n) /\ h.at = b /\ h.at + h.n <= n
    <3> SUFFICES ASSUME h.s = s PROVE Chain(q, L, b, n) /\ h.at = b /\ h.at + h.n <= n
      OBVIOUS
    <3>1. Chain(q, L, b, n)
      BY <1>1, <2>1 DEF Live
    <3>2. h \in L /\ 1 \in 1 .. Len(q)
      BY <1>0, <2>1, <2>4 DEF WritesOf
    <3>3. \A j \in 1 .. 1 - 1 : q[j] \notin L
      OBVIOUS
    <3> HIDE DEF b, n, L, q
    <3> QED
      BY <2>4, <3>1, <3>2, <3>3 DEF Chain
  <2>11. w.sent[s] <= n
    <3> DEFINE u == h.at
               v == h.n
    <3>1. u \in Nat /\ v \in Nat /\ b \in Nat /\ n \in Nat /\ b <= n
      BY <1>0, <1>1, <2>4
    <3>2. h.s = s => u = b /\ u + v <= n /\ k <= v
      BY <2>5, <2>10
    <3> HIDE DEF b, n, u, v
    <3>3. h.s = s => b + k <= n
      BY <2>5, <3>1, <3>2
    <3> QED
      BY <2>7, <3>1, <3>3
  <2>12. w.tx[s] \in Live => Chain(Rest(q, k), L, w.sent[s], n)
    <3> SUFFICES ASSUME c.tx[s] \in Live PROVE Chain(Rest(q, k), L, w.sent[s], n)
      BY <2>8
    <3> DEFINE z == w.sent[s]
    <3>1. z \in Int /\ z = IF Head(q).s = s THEN b + k ELSE b
      BY <2>4, <2>7
    <3>2. Chain(q, L, b, n) /\ k <= Head(q).n /\ q # <<>>
      BY <1>1, <2>1, <2>4, <2>5
    <3> HIDE DEF q, b, n, z
    <3>3. Chain(Rest(q, k), WritesOf(s), z, n)
      BY <1>0, <2>5, <3>1, <3>2, ChainRest
    <3> QED
      BY <3>3 DEF z
  <2>13. far => Chain(Append(g, f), K, a, w.sent[s])
    <3> SUFFICES ASSUME far PROVE Chain(Append(g, f), K, a, w.sent[s])
      OBVIOUS
    <3>1. Chain(g, K, a, b)
      BY <1>1
    <3>2. CASE h.s = s
      <4>1. f \in K
        BY <2>3, <3>2 DEF FramesOf, Made
      <4>2. f.at = b /\ w.sent[s] = b + f.n
        BY <2>3, <2>7, <2>10, <3>2
      <4>3. Chain(Append(g, f), K, a, b + f.n)
        <5> HIDE DEF g, K, a, b
        <5> QED
          BY <1>0, <1>m, <2>3, <3>1, <4>1, <4>2, ChainAppend
      <4> QED
        BY <4>2, <4>3
    <3>3. CASE h.s # s
      <4>1. f \notin K
        BY <2>3, <3>3 DEF FramesOf
      <4>2. Chain(Append(g, f), K, a, b)
        <5> HIDE DEF g, K, a, b
        <5> QED
          BY <1>0, <2>3, <3>1, <4>1, ChainSkip
      <4> QED
        BY <2>7, <3>3, <4>2
    <3> QED
      BY <3>2, <3>3
  <2> QED
    BY <2>2, <2>9, <2>11, <2>12, <2>13
<1> QED
  BY <1>2, <1>3, <1>4, <1>5 DEF Shape

LEMMA FlushWhole ==
    ASSUME Base, Base', NEW e \in End, NEW w \in Connections, NEW o, After(e, w, o),
           Shape(e, w), DgInv, OpenedFirst(e),
           \A z \in End : Within(said[z]) => \A s \in Streams : Whole(z, s)
    PROVE  \A z \in End : Within(said'[z]) => \A s \in Streams : Whole(z, s)'
<1> DEFINE p == Peer(e)
           v == wire[e] \o w.record
<1>0. p \in End /\ Peer(p) = e /\ \A z \in End : z = e \/ z = p
  BY Ends
<1>1. /\ m'[p] = m[p] /\ Flight(p)' = Flight(p) /\ said' = said /\ told' = told
      /\ offset' = offset /\ wire'[p] = wire[p]
      /\ wire[e] # <<>> => wire'[e] # <<>> /\ Head(wire'[e]) = Head(wire[e])
      /\ Flight(e)' = v \o o /\ o \in Seq(Made)
      /\ m'[e].pending_stream_data = w.pending_stream_data
      /\ m'[e].tx = w.tx /\ m'[e].rx = w.rx /\ m'[e].sent = w.sent
      /\ \A i \in 1 .. Len(o) : o[i] \in Controls
  BY DEF After
<1>2. Reading(e) /\ Reading(p)
  BY <1>0 DEF DgInv
<1>3. w.rx = m[e].rx
  BY FlushQuieter DEF Quieter
<1>4. ASSUME NEW s \in Streams, Within(said[p]) PROVE Whole(p, s)'
  <2>1. Whole(p, s)
    BY <1>0, <1>4
  <2>2. Start(p, s)' = Start(p, s)
    BY <1>0, <1>1 DEF Start
  <2> QED
    BY <1>0, <1>1, <1>3, <2>1, <2>2, WholeKept
<1>5. ASSUME NEW s \in Streams, Within(said[e]) PROVE Whole(e, s)'
  <2> DEFINE n == said[e][s].n
             K == FramesOf(s)
             a == Start(e, s)
             b == w.sent[s]
  <2>0. \A r \in Streams : Whole(e, r)
    BY <1>5
  <2>1. /\ w.tx[s] \in Live => Chain(w.pending_stream_data, WritesOf(s), b, n)
        /\ b <= n
        /\ m[p].rx[s] \in Live => Chain(v, K, a, b)
    BY <1>5, <2>0, FlushChains
  <2>2. Start(e, s)' = a
    BY <1>1, <1>2, StartSame
  <2>3. m[p].rx[s] \in Live => Chain(v \o o, K, a, b)
    <3>1. v \in Seq(Made)
      BY EndFacts DEF Connections
    <3>2. \A i \in 1 .. Len(o) : o[i] \notin K
      BY <1>1, ControlsNoData
    <3>3. a \in Int /\ b \in Int
      BY StartInt DEF Connections
    <3> HIDE DEF v, K, a, b
    <3> QED
      BY <1>1, <2>1, <3>1, <3>2, <3>3, ChainConcat
  <2>4. Whole(e, s)
    BY <2>0
  <2>5. m'[e].tx[s] \in Live =>
          Chain(m'[e].pending_stream_data, WritesOf(s), m'[e].sent[s], said'[e][s].n)
    BY <1>1, <2>1
  <2>6. m'[p].rx[s] \in Live => Chain(Flight(e)', K, Start(e, s)', m'[e].sent[s])
    BY <1>1, <2>2, <2>3
  <2>7. m'[e].sent[s] <= said'[e][s].n
    BY <1>1, <2>1
  <2>8. /\ ~told'[p].gap[s]
        /\ m'[p].rx[s] \in Live => ~told'[p].fin[s]
        /\ told'[p].fin[s] => told'[p].bytes[s] = said'[e][s].n
    BY <1>1, <2>4 DEF Whole, Live
  <2> QED
    BY <2>5, <2>6, <2>7, <2>8 DEF Whole, Live
<1> QED
  BY <1>0, <1>1, <1>4, <1>5

LEMMA CallWhole ==
    ASSUME Base, Base', NEW e \in End, NEW d \in Connections, Called(e, d), CallShape(e, d),
           OpenedFirst(e), \A s \in Streams : FinLast(e, s),
           \A z \in End : Within(said[z]) => \A s \in Streams : Whole(z, s)
    PROVE  \A z \in End : Within(said'[z]) => \A s \in Streams : Whole(z, s)'
<1> DEFINE p == Peer(e)
           c == m[e]
<1>0. p \in End /\ Peer(p) = e /\ \A z \in End : z = e \/ z = p
  BY Ends
<1>1. /\ m'[p] = m[p] /\ Flight(p)' = Flight(p) /\ Flight(e)' = Flight(e) /\ told' = told
      /\ offset' = offset /\ wire' = wire
      /\ m'[e].pending_stream_data = d.pending_stream_data
      /\ m'[e].tx = d.tx /\ m'[e].rx = d.rx /\ m'[e].sent = d.sent
  BY DEF Called, Left
<1>2. said'[p] = said[p]
  BY DEF CallShape, Opens, Sends, Queues, Shuts
<1>3. d.sent = c.sent
  BY DEF CallShape, Opens, Sends, Queues, Shuts, QueuesKept, StreamsKept
<1>4. \A s \in Streams : d.rx[s] \in Live => c.rx[s] \in Live
  <2>1. CASE Opens(e, d)
    <3>1. \A s \in Streams : c.tx[s] = "none" => c.rx[s] = "none"
      BY DEF OpenedFirst
    <3>2. PICK s \in Streams :
            c.tx[s] = "none" /\ \A r \in Streams : r # s => d.rx[r] = c.rx[r]
      BY <2>1 DEF Opens
    <3> QED
      BY <3>1, <3>2 DEF Live
  <2>2. CASE ~Opens(e, d)
    BY <2>2 DEF CallShape, Sends, Queues, Shuts, StreamsKept, Shut, Live
  <2> QED
    BY <2>1, <2>2
<1>5. \A s \in Streams : d.tx[s] \in Live => c.tx[s] \in Live
  BY DEF CallShape, Opens, Sends, Queues, Shuts, StreamsKept, Shut, Live
<1>6. \A z \in End : \A s \in Streams : Start(z, s)' = Start(z, s)
  BY <1>1 DEF Start
<1>7. ASSUME NEW s \in Streams, Within(said'[p]) PROVE Whole(p, s)'
  <2>1. Whole(p, s)
    BY <1>0, <1>2, <1>7
  <2> QED
    BY <1>0, <1>1, <1>2, <1>4, <1>6, <2>1, WholeKept
<1>8. said[e] \in [Streams -> Uttered] /\ said'[e] \in [Streams -> Uttered]
  BY DEF Base, TypeOK, Uttered
<1>9. CASE Opens(e, d) \/ Queues(e, d) \/ Shuts(e, d)
  <2>1. d.pending_stream_data = c.pending_stream_data
    BY <1>9 DEF Opens, Queues, Shuts, QueuesKept, StreamsKept
  <2>2. \A s \in Streams : said'[e][s].n = said[e][s].n
    BY <1>9 DEF Opens, Queues, Shuts
  <2>3. ASSUME NEW s \in Streams, Within(said'[e]) PROVE Whole(e, s)'
    <3>1. Within(said[e])
      <4> DEFINE x == said[e]
                 y == said'[e]
      <4>1. x \in [Streams -> Uttered] /\ y \in [Streams -> Uttered] /\ Within(y)
        BY <1>8, <2>3
      <4>2. \A r \in Streams : x[r].n <= y[r].n
        BY <2>2, StreamFacts
      <4> HIDE DEF x, y
      <4>3. Within(x)
        BY <4>1, <4>2, CreditBefore
      <4> QED
        BY <4>3 DEF x
    <3>2. Whole(e, s)
      BY <3>1
    <3> QED
      BY <1>1, <1>3, <1>5, <1>6, <2>1, <2>2, <3>2, WholeKept
  <2> QED
    BY <1>0, <1>7, <2>3
<1>10. CASE Sends(e, d)
  <2>1. PICK t \in Streams, n \in Nat, fin \in BOOLEAN :
         /\ ~said[e][t].fin
         /\ said'[e][t].n = said[e][t].n + n
         /\ \A r \in Streams : r # t => said'[e][r] = said[e][r]
         /\ d.pending_stream_data = Append(c.pending_stream_data, WriteOf(e, t, n, fin))
    BY <1>10 DEF Sends
  <2> DEFINE y == WriteOf(e, t, n, fin)
             q == c.pending_stream_data
  <2>2. y.s = t /\ y \in Writes /\ y.at = said[e][t].n /\ y.n = n
    BY StreamFacts DEF WriteOf, Writes
  <2>a. d.tx = c.tx /\ d.pending_stream_data = Append(q, y)
    BY <1>10, <2>1 DEF Sends
  <2> HIDE DEF y
  <2>3. ASSUME NEW s \in Streams, Within(said'[e]) PROVE Whole(e, s)'
    <3>1. Within(said[e])
      <4> DEFINE x == said[e]
                 z == said'[e]
      <4>1. x \in [Streams -> Uttered] /\ z \in [Streams -> Uttered] /\ Within(z)
        BY <1>8, <2>3
      <4>2. \A r \in Streams : x[r].n <= z[r].n
        <5> SUFFICES ASSUME NEW r \in Streams PROVE x[r].n <= z[r].n
          OBVIOUS
        <5>1. x[r].n \in Nat /\ (r = t => z[r].n = x[r].n + n) /\ (r # t => z[r] = x[r])
          BY <2>1, StreamFacts
        <5> HIDE DEF x, z
        <5> QED
          BY <5>1
      <4> HIDE DEF x, z
      <4>3. Within(x)
        BY <4>1, <4>2, CreditBefore
      <4> QED
        BY <4>3 DEF x
    <3>2. Whole(e, s)
      BY <3>1
    <3> DEFINE L == WritesOf(s)
               a == c.sent[s]
               b == said[e][s].n
               z == said'[e][s].n
    <3>3. a \in Nat /\ b \in Nat /\ q \in Seq(Writes)
      BY StreamFacts
    <3>4. z = IF s = t THEN b + n ELSE b
      BY <2>1
    <3>5. c.tx[s] \in Live => Chain(q, L, a, b)
      BY <3>2 DEF Whole, Live
    <3>6. a <= b
      BY <3>2 DEF Whole
    <3>7. y \in L <=> s = t
      BY <2>2 DEF WritesOf
    <3>8. s = t => y.at = b /\ y.n = n
      BY <2>2
    <3>9. c.tx[s] \in Live => Chain(Append(q, y), L, a, z)
      <4>0. Measured(L)
        BY FramesMeasured
      <4> HIDE DEF L, a, b, z, q
      <4> SUFFICES ASSUME c.tx[s] \in Live PROVE Chain(Append(q, y), L, a, z)
        OBVIOUS
      <4>1. Chain(q, L, a, b)
        BY <3>5
      <4>2. CASE s = t
        <5>1. Chain(Append(q, y), L, a, b + y.n)
          BY <2>2, <3>3, <3>7, <3>8, <4>0, <4>1, <4>2, ChainAppend
        <5> QED
          BY <3>4, <3>8, <4>2, <5>1
      <4>3. CASE s # t
        <5>1. Chain(Append(q, y), L, a, b)
          BY <2>2, <3>3, <3>7, <4>1, <4>3, ChainSkip
        <5> QED
          BY <3>4, <4>3, <5>1
      <4> QED
        BY <4>2, <4>3
    <3>10. a <= z
      <4> HIDE DEF a, b, z
      <4> QED
        BY <3>3, <3>4, <3>6
    <3>11. told[p].fin[s] => s # t
      <4>1. FinLast(e, s)
        OBVIOUS
      <4> QED
        BY <2>1, <4>1 DEF FinLast
    <3>12. m'[e].tx[s] \in Live =>
             Chain(m'[e].pending_stream_data, WritesOf(s), m'[e].sent[s], said'[e][s].n)
      BY <1>1, <1>3, <2>a, <3>9
    <3>13. m'[p].rx[s] \in Live => Chain(Flight(e)', FramesOf(s), Start(e, s)', m'[e].sent[s])
      BY <1>1, <1>3, <1>6, <3>2 DEF Whole, Live
    <3>14. m'[e].sent[s] <= said'[e][s].n
      BY <1>1, <1>3, <3>10
    <3>15. /\ ~told'[p].gap[s]
           /\ m'[p].rx[s] \in Live => ~told'[p].fin[s]
           /\ told'[p].fin[s] => told'[p].bytes[s] = said'[e][s].n
      BY <1>1, <3>2, <3>4, <3>11 DEF Whole, Live
    <3> QED
      BY <3>12, <3>13, <3>14, <3>15 DEF Whole, Live
  <2> QED
    BY <1>0, <1>7, <2>3
<1> QED
  BY <1>9, <1>10 DEF CallShape

LEMMA RestWhole ==
    ASSUME Base, Base', NEW e \in End, Rested(e),
           \A z \in End : Within(said[z]) => \A s \in Streams : Whole(z, s)
    PROVE  \A z \in End : Within(said'[z]) => \A s \in Streams : Whole(z, s)'
<1>0. \A z \in End : z = e \/ z = Peer(e)
  BY Ends
<1>1. /\ Flight(e)' = Flight(e) /\ Flight(Peer(e))' = Flight(Peer(e))
      /\ m'[Peer(e)] = m[Peer(e)] /\ told' = told /\ said' = said
      /\ offset' = offset /\ wire' = wire
      /\ m'[e].pending_stream_data = m[e].pending_stream_data
      /\ m'[e].tx = m[e].tx /\ m'[e].rx = m[e].rx /\ m'[e].sent = m[e].sent
  BY DEF Rested, Left
<1>2. \A z \in End : /\ Flight(z)' = Flight(z)
                     /\ m'[z].pending_stream_data = m[z].pending_stream_data
                     /\ m'[z].tx = m[z].tx /\ m'[z].rx = m[z].rx /\ m'[z].sent = m[z].sent
  BY <1>0, <1>1
<1> SUFFICES ASSUME NEW z \in End, Within(said[z]), NEW s \in Streams PROVE Whole(z, s)'
  BY <1>1
<1>3. Whole(z, s)
  OBVIOUS
<1>4. Start(z, s)' = Start(z, s)
  BY <1>1 DEF Start
<1>5. Peer(z) \in End
  BY Ends
<1> QED
  BY <1>1, <1>2, <1>3, <1>4, <1>5, WholeKept

LEMMA ReadWhole ==
    ASSUME Base, Base', NEW e \in End, NEW k, NEW d, Left(e, d), Received(e, k),
           ReadShape(e, k, d), DgInv, \A z \in End : OpenedFirst(z),
           \A z \in End : \A s \in Streams : FinLast(z, s),
           \A z \in End : Within(said[z]) => \A s \in Streams : Whole(z, s)
    PROVE  \A z \in End : Within(said'[z]) => \A s \in Streams : Whole(z, s)'
<1> DEFINE p == Peer(e)
           c == m[e]
           b == Learned(e)
           f == Read1(e)
           g == wire[p]
<1>0. p \in End /\ Peer(p) = e /\ \A z \in End : z = e \/ z = p
  BY Ends
<1>1. /\ g # <<>> /\ wire'[e] = wire[e] /\ said' = said /\ told'[p] = told[p]
      /\ wire'[p] = (IF Whole1(e, k) THEN Tail(g) ELSE g)
      /\ k \in Nat /\ offset[e] + k <= f.n /\ (f.n > 0 => k > 0)
      /\ offset'[p] = offset[p]
      /\ offset'[e] = (IF Whole1(e, k) THEN 0 ELSE offset[e] + k)
  BY DEF Received
<1>2. /\ m'[p] = m[p] /\ Flight(p) = g /\ Flight(p)' = wire'[p]
      /\ Flight(e)' = wire'[e] /\ Flight(e) = wire[e]
      /\ m'[e].pending_stream_data = d.pending_stream_data
      /\ m'[e].tx = d.tx /\ m'[e].rx = d.rx /\ m'[e].sent = d.sent
  BY DEF Left
<1>3. /\ \A s \in Streams : s # f.s => b.rx[s] = c.rx[s]
      /\ \A s \in Streams : c.rx[s] # "none" => b.rx[s] = c.rx[s]
      /\ \A s \in Streams : c.tx[s] # "none" => b.tx[s] = c.tx[s]
      /\ f.s \in Streams => b.rx[f.s] # "none"
  BY <1>1, <1>2, LearnedOpened
<1>4. /\ f \in Made /\ f = g[1] /\ f.n \in Nat /\ f.at \in Nat /\ f.fin \in BOOLEAN
      /\ f.k = "STREAM" => f.s \in Streams
      /\ f = Head(g)
      /\ offset[e] \in Nat /\ g \in Seq(Made) /\ 1 \in 1 .. Len(g)
  <2>1. g \in Seq(Made)
    BY <1>0, EndFacts
  <2> QED
    BY <1>1, <2>1, ReadTyped DEF WellMade, Read1
<1>5. d.pending_stream_data = c.pending_stream_data /\ d.sent = c.sent
  BY DEF ReadShape, ReadsStream, ReadsDatagram, ReadsControl, QueuesKept
<1>w. ~Whole1(e, k) => offset[e] + k < f.n /\ k > 0
  <2> SUFFICES ASSUME ~Whole1(e, k) PROVE offset[e] + k < f.n /\ k > 0
    OBVIOUS
  <2> DEFINE o == offset[e]
             n == f.n
  <2>1. o \in Nat /\ n \in Nat /\ k \in Nat /\ o + k <= n /\ (n > 0 => k > 0) /\ o + k # n
    BY <1>1, <1>4 DEF Whole1
  <2> HIDE DEF o, n
  <2>2. o + k < n /\ k > 0
    BY <2>1
  <2> QED
    BY <2>2 DEF o, n
<1> HIDE DEF b
<1>6. \A s \in Streams : d.tx[s] \in Live => c.tx[s] \in Live
  <2>1. \A s \in Streams : d.tx[s] = b.tx[s] \/ d.tx[s] = "reset"
    BY DEF ReadShape, ReadsStream, ReadsDatagram, ReadsControl, Shut, b
  <2> QED
    BY <1>3, <2>1 DEF Live
<1>7. \A s \in Streams : d.rx[s] \in Live => d.rx[s] = b.rx[s] /\ c.rx[s] \in Live
  <2>1. \A s \in Streams : d.rx[s] = b.rx[s] \/ d.rx[s] \in {"ended", "stopped"}
    <3>1. CASE ReadsStream(e, k, d)
      BY <3>1 DEF ReadsStream, b
    <3>2. CASE ReadsDatagram(e, k, d)
      BY <3>2 DEF ReadsDatagram, b
    <3>3. CASE ReadsControl(e, d)
      BY <3>3 DEF ReadsControl, Shut, b
    <3> QED
      BY <3>1, <3>2, <3>3 DEF ReadShape
  <2> QED
    BY <1>3, <2>1 DEF Live
<1>8. ASSUME NEW s \in Streams, Within(said[e]) PROVE Whole(e, s)'
  <2>1. Whole(e, s)
    BY <1>8
  <2>2. Start(e, s)' = Start(e, s)
    BY <1>1 DEF Start
  <2>3. m'[p].rx[s] \in Live => m[p].rx[s] \in Live
    BY <1>2
  <2>4. /\ m'[e].pending_stream_data = c.pending_stream_data /\ m'[e].sent[s] = c.sent[s]
        /\ said'[e][s].n = said[e][s].n /\ Flight(e)' = Flight(e)
        /\ (m'[e].tx[s] \in Live => c.tx[s] \in Live)
    BY <1>1, <1>2, <1>5, <1>6
  <2> QED
    BY <1>1, <2>1, <2>2, <2>3, <2>4, WholeKept
<1>9. ASSUME NEW s \in Streams, Within(said[p]) PROVE Whole(p, s)'
  <2> DEFINE K == FramesOf(s)
             a == Start(p, s)
             n == m[p].sent[s]
             y == told[e].bytes[s]
  <2>0. Whole(p, s)
    BY <1>0, <1>9
  <2>1. c.rx[s] \in Live => Chain(g, K, a, n)
    BY <1>0, <1>2, <2>0 DEF Whole, Live
  <2>2. a \in Int /\ n \in Nat /\ y \in Nat /\ Measured(K)
    BY <1>0, StartInt, StreamFacts, FramesMeasured
  <2>3. a = (IF offset[e] > 0 /\ f \in K THEN y - offset[e] ELSE y)
    <3>1. a = y - (IF offset[e] > 0 /\ f \in K THEN offset[e] ELSE 0)
      BY <1>0, <1>4 DEF Start
    <3> QED
      BY <1>4, <2>2, <3>1
  <2>4. Start(p, s)' = told'[e].bytes[s] -
          (IF offset'[e] > 0 /\ Head(wire'[p]) \in K THEN offset'[e] ELSE 0)
    BY <1>0 DEF Start
  <2>5. f \in K <=> f.k = "STREAM" /\ f.s = s
    BY <1>4 DEF FramesOf, Made
  <2>6. c.rx[s] \in Live => Chain(Tail(g), K, IF f \in K THEN a + f.n ELSE a, n)
    <3> DEFINE z == IF f \in K THEN a + f.n ELSE a
    <3>1. z \in Int /\ z = IF g[1] \in K THEN a + g[1].n ELSE a
      BY <1>4, <2>2
    <3>2. g # <<>> /\ g \in Seq(Made)
      BY <1>1, <1>4
    <3> HIDE DEF z, g, K, a, n, c
    <3>3. c.rx[s] \in Live => Chain(Tail(g), K, z, n)
      BY <2>1, <2>2, <3>1, <3>2, ChainTail
    <3> QED
      BY <3>3 DEF z
  <2>7. CASE f \notin K
    <3>1. /\ told'[e].bytes[s] = y /\ told'[e].gap[s] = told[e].gap[s]
          /\ told'[e].fin[s] = told[e].fin[s]
      BY <2>5, <2>7 DEF ReadShape, ReadsStream, ReadsDatagram, ReadsControl
    <3>2. Start(p, s)' = y
      <4>1. offset'[e] > 0 => Head(wire'[p]) = f
        BY <1>1, <1>4
      <4> QED
        BY <2>2, <2>4, <2>7, <3>1, <4>1
    <3>3. a = y
      BY <2>3, <2>7
    <3>4. c.rx[s] \in Live => Chain(wire'[p], K, y, n)
      BY <1>1, <2>1, <2>6, <2>7, <3>3
    <3>5. c.rx[s] \in Live => Chain(Flight(p)', K, Start(p, s)', n)
      BY <1>2, <3>2, <3>4
    <3> QED
      BY <1>0, <1>1, <1>2, <1>7, <2>0, <3>1, <3>5, WholeKept
  <2>8. CASE f \in K
    <3>0. f.k = "STREAM" /\ f.s = s /\ ReadsStream(e, k, d)
      BY <2>5, <2>8 DEF ReadShape, ReadsDatagram, ReadsControl
    <3> DEFINE fin == f.fin /\ Whole1(e, k)
    <3>1. b.rx[s] # "none"
      BY <1>3, <3>0
    <3>2. d.rx[s] = IF fin THEN "ended" ELSE b.rx[s]
      BY <3>0 DEF ReadsStream, b
    <3>3. CASE b.rx[s] # "open"
      <4>1. told'[e] = told[e]
        BY <3>0, <3>3 DEF ReadsStream, b
      <4>2. d.rx[s] \notin Live
        BY <3>1, <3>2, <3>3 DEF Live
      <4>3. c.rx[s] # "none" => b.rx[s] = c.rx[s]
        BY <1>3
      <4>4. m'[e].rx[s] \notin Live
        BY <1>2, <4>2
      <4> QED
        BY <1>0, <1>1, <1>2, <2>0, <4>1, <4>4 DEF Whole, Live
    <3>4. CASE b.rx[s] = "open"
      <4>1. c.rx[s] \in Live
        BY <1>3, <3>4 DEF Live
      <4>2. Chain(g, K, a, n)
        BY <2>1, <4>1
      <4>3. f.at = a
        <5>1. \A j \in 1 .. 1 - 1 : g[j] \notin K
          OBVIOUS
        <5> HIDE DEF a, n, g, K
        <5> QED
          BY <1>4, <2>8, <4>2, <5>1 DEF Chain
      <4>4. f.at + offset[e] = y
        <5> HIDE DEF a, y, K
        <5> QED
          BY <1>4, <2>2, <2>3, <2>8, <4>3
      <4>5. /\ told'[e].bytes[s] = y + k
            /\ told'[e].gap[s] = (told[e].gap[s] \/ f.at + offset[e] # y)
            /\ told'[e].fin[s] = fin
        BY <3>0, <3>4 DEF ReadsStream, b
      <4>6. ~told'[e].gap[s]
        BY <1>0, <2>0, <4>4, <4>5 DEF Whole
      <4>7. fin => y + k = said[p][s].n
        <5> SUFFICES ASSUME fin PROVE y + k = said[p][s].n
          OBVIOUS
        <5>1. FinLast(p, s)
          BY <1>0
        <5>2. Closes(g, K, said[p][s])
          BY <1>2, <5>1 DEF FinLast
        <5>3. f.at + f.n = said[p][s].n
          BY <1>4, <2>8, <5>2 DEF Closes
        <5>4. offset[e] + k = f.n
          BY DEF Whole1
        <5> DEFINE t == f.at
                   o == offset[e]
                   u == f.n
                   x == said[p][s].n
        <5>5. t \in Nat /\ o \in Nat /\ k \in Nat /\ t + o = y /\ o + k = u /\ t + u = x
          BY <1>1, <1>4, <4>4, <5>3, <5>4
        <5> HIDE DEF t, o, u, x, y
        <5>6. y + k = x
          BY <5>5
        <5> QED
          BY <5>6 DEF x
      <4>8. Chain(wire'[p], K, Start(p, s)', n)
        <5>1. CASE Whole1(e, k)
          <6>1. wire'[p] = Tail(g) /\ offset'[e] = 0 /\ offset[e] + k = f.n
            BY <1>1, <5>1 DEF Whole1
          <6>2. Start(p, s)' = a + f.n
            <7> DEFINE t == f.at
                       o == offset[e]
                       u == f.n
                       b1 == Start(p, s)'
            <7>1. b1 = (y + k) - 0 /\ t = a /\ t + o = y /\ o + k = u
              BY <2>4, <4>3, <4>4, <4>5, <6>1
            <7>2. t \in Nat /\ o \in Nat /\ k \in Nat /\ u \in Nat /\ y \in Nat
              BY <1>1, <1>4, <2>2
            <7> HIDE DEF a, y, K, t, o, u, b1
            <7>3. y + k = t + u
              BY <7>1, <7>2
            <7>4. b1 = y + k
              BY <7>1, <7>2
            <7>5. b1 = a + u
              BY <7>1, <7>3, <7>4
            <7> QED
              BY <7>5 DEF b1, u
          <6>3. Chain(Tail(g), K, a + f.n, n)
            BY <2>6, <2>8, <4>1
          <6> QED
            BY <6>1, <6>2, <6>3
        <5>2. CASE ~Whole1(e, k)
          <6>1. wire'[p] = g /\ offset'[e] = offset[e] + k /\ offset'[e] > 0
            BY <1>1, <1>4, <1>w, <5>2
          <6>2. Start(p, s)' = a
            <7>1. Start(p, s)' = (y + k) - (offset[e] + k)
              BY <1>4, <2>4, <2>8, <4>5, <6>1
            <7> DEFINE t == f.at
                       o == offset[e]
                       z == Start(p, s)'
            <7>2. t \in Nat /\ o \in Nat /\ k \in Nat /\ t + o = y /\ a = t
                  /\ z = (y + k) - (o + k)
              BY <1>1, <1>4, <4>3, <4>4, <7>1
            <7> HIDE DEF t, o, z, y, a
            <7>3. z = a
              BY <7>2
            <7> QED
              BY <7>3 DEF z
          <6> QED
            BY <4>2, <6>1, <6>2
        <5> QED
          BY <5>1, <5>2
      <4>9. /\ m'[p].pending_stream_data = m[p].pending_stream_data
            /\ m'[p].sent[s] = n /\ m'[p].tx[s] = m[p].tx[s] /\ said'[p][s].n = said[p][s].n
        BY <1>1, <1>2
      <4>10. m'[p].tx[s] \in Live =>
               Chain(m'[p].pending_stream_data, WritesOf(s), m'[p].sent[s], said'[p][s].n)
        BY <2>0, <4>9 DEF Whole, Live
      <4>11. m'[p].sent[s] <= said'[p][s].n
        BY <2>0, <4>9 DEF Whole
      <4>12. m'[e].rx[s] \in Live =>
               Chain(Flight(p)', FramesOf(s), Start(p, s)', m'[p].sent[s])
        BY <1>2, <4>8, <4>9
      <4>13. m'[e].rx[s] \in Live => ~told'[e].fin[s]
        BY <1>2, <3>2, <4>5 DEF Live
      <4>14. told'[e].fin[s] => told'[e].bytes[s] = said'[p][s].n
        BY <4>5, <4>7, <4>9
      <4> QED
        BY <1>0, <4>6, <4>10, <4>11, <4>12, <4>13, <4>14 DEF Whole, Live
    <3> QED
      BY <3>3, <3>4
  <2> QED
    BY <2>7, <2>8
<1> QED
  BY <1>0, <1>1, <1>8, <1>9

LEMMA StreamInit == ASSUME Init, Base PROVE StreamInv
<1> SUFFICES ASSUME NEW e \in End
             PROVE  /\ OpenedFirst(e)
                    /\ \A s \in Streams : FinLast(e, s)
                    /\ \A s \in Streams : Whole(e, s)
  BY DEF StreamInv
<1> DEFINE p == Peer(e)
<1>0. p \in End /\ "client" \in End
  BY Ends DEF End
<1>1. /\ m[e] = Connection /\ m[p] = Connection /\ m["client"] = Connection
      /\ wire[e] = <<>> /\ offset[p] = 0
  BY <1>0 DEF Init
<1>2. /\ Connection.record = <<>> /\ Connection.pending_stream_data = <<>>
      /\ Connection.owed = <<Control("PARAMS", None)>>
      /\ \A s \in Streams : /\ Connection.tx[s] = "none" /\ Connection.rx[s] = "none"
                            /\ Connection.sent[s] = 0
  BY DEF Connection
<1>3. \A s \in Streams : said[e][s].n = 0 /\ ~said[e][s].fin
  BY DEF Init
<1>4. \A s \in Streams : told[p].bytes[s] = 0 /\ ~told[p].fin[s] /\ ~told[p].gap[s]
  BY <1>0 DEF Init
<1>5. Flight(e) = <<>>
  BY <1>1, <1>2 DEF Flight
<1>6. \A i \in 1 .. Len(<<>>) : FALSE
  OBVIOUS
<1>7. OpenedFirst(e)
  <2>1. \A s \in Streams : ~Names(<<>>, s)
    BY <1>6 DEF Names
  <2>2. \A s \in Streams : ~Names(m[e].owed, s)
    <3> DEFINE f == Control("PARAMS", None)
    <3>1. f.s = None
      BY DEF Control, Frame
    <3> HIDE DEF f
    <3>2. m[e].owed = <<f>>
      BY <1>1, <1>2 DEF f
    <3>3. \A i \in 1 .. Len(<<f>>) : <<f>>[i] = f
      OBVIOUS
    <3> QED
      BY <3>1, <3>2, <3>3, NoneIsNoStream DEF Names
  <2>3. m[e].pending_stream_data = <<>>
    BY <1>1, <1>2
  <2> QED
    BY <1>1, <1>2, <1>3, <1>5, <2>1, <2>2, <2>3 DEF OpenedFirst
<1>8. \A s \in Streams : FinLast(e, s)
  BY <1>1, <1>2, <1>4, <1>5, <1>6 DEF FinLast, Closes
<1>9. ASSUME NEW s \in Streams PROVE Whole(e, s)
  <2>1. Chain(<<>>, WritesOf(s), 0, 0) /\ Chain(<<>>, FramesOf(s), 0, 0)
    BY <1>6, ChainNone
  <2>2. Start(e, s) = 0
    BY <1>1, <1>4 DEF Start
  <2>3. m[e].pending_stream_data = <<>> /\ m[e].sent[s] = 0 /\ said[e][s].n = 0
    BY <1>1, <1>2, <1>3
  <2> QED
    BY <1>4, <1>5, <2>1, <2>2, <2>3 DEF Whole
<1> QED
  BY <1>7, <1>8, <1>9

LEMMA StreamNext == ASSUME Base, Base', DgInv, Next, StreamInv PROVE StreamInv'
<1>0. /\ \A z \in End : OpenedFirst(z)
      /\ \A z \in End : \A s \in Streams : FinLast(z, s)
      /\ \A z \in End : Within(said[z]) => \A s \in Streams : Whole(z, s)
  BY DEF StreamInv
<1> SUFFICES /\ \A z \in End : OpenedFirst(z)'
             /\ \A z \in End : \A s \in Streams : FinLast(z, s)'
             /\ \A z \in End : Within(said'[z]) => \A s \in Streams : Whole(z, s)'
  BY DEF StreamInv
<1>1. PICK e \in End : Turn(e) \/ Calls(e)
  BY DEF Next
<1>2. CASE Flush(e)
  <2>0. PICK w \in Connections : \E o : After(e, w, o) /\ Shape(e, w)
    BY <1>2, FlushShape
  <2>1. PICK o : After(e, w, o) /\ Shape(e, w)
    BY <2>0
  <2> QED
    BY <1>0, <2>1, FlushOpened, FlushFin, FlushWhole
<1>3. CASE Pump(e) \/ NothingRead(e)
  <2>1. Rested(e)
    BY <1>3, PumpStep, NothingStep
  <2> QED
    BY <1>0, <2>1, RestOpened, RestFin, RestWhole
<1>4. CASE Receive(e)
  <2>1. PICK k, d : Left(e, d) /\ Received(e, k) /\ ReadShape(e, k, d)
    BY <1>4, ReceiveShape
  <2> QED
    BY <1>0, <2>1, ReadOpened, ReadFin, ReadWhole
<1>5. CASE Calls(e)
  <2>1. PICK d \in Connections : Called(e, d) /\ CallShape(e, d)
    BY <1>5, CallsShape
  <2> QED
    BY <1>0, <2>1, CallOpened, CallFin, CallWhole
<1> QED
  BY <1>1, <1>2, <1>3, <1>4, <1>5 DEF Turn, Read

LEMMA StreamStutter == ASSUME StreamInv, UNCHANGED vars PROVE StreamInv'
<1>1. m' = m /\ wire' = wire /\ offset' = offset /\ told' = told /\ said' = said
  BY DEF vars
<1>2. \A e \in End : OpenedFirst(e)' <=> OpenedFirst(e)
  BY <1>1 DEF OpenedFirst, Opened, Flight
<1>3. \A e \in End : \A s \in Streams : FinLast(e, s)' <=> FinLast(e, s)
  BY <1>1 DEF FinLast, Flight
<1>4. \A e \in End : \A s \in Streams : Whole(e, s)' <=> Whole(e, s)
  BY <1>1 DEF Whole, Start, Flight
<1>5. \A e \in End : Within(said'[e]) <=> Within(said[e])
  BY <1>1
<1> QED
  BY <1>2, <1>3, <1>4, <1>5 DEF StreamInv

LEMMA StreamImplies == ASSUME StreamInv PROVE StreamsWhole
<1>1. \A e \in End : WithinCredit(e) => Within(said[e])
  BY Zenon DEF WithinCredit, Within
<1> SUFFICES ASSUME NEW e \in End, WithinCredit(e), NEW s \in Streams
             PROVE  /\ ~told[Peer(e)].gap[s]
                    /\ told[Peer(e)].fin[s] => told[Peer(e)].bytes[s] = said[e][s].n
  BY DEF StreamsWhole
<1>2. Whole(e, s)
  BY <1>1 DEF StreamInv
<1> QED
  BY <1>2 DEF Whole

(* As long as an application stays within the credit its peer gave at      *)
(* first, the peer is told the bytes of each stream in order, without gap  *)
(* or repetition, and of FIN only with all of them (StreamsWhole): for any *)
(* streams, sizes and limits, however send() turns the queue into records  *)
(* and receive() takes them apart, and whatever is shut meanwhile.         *)
THEOREM StreamsAreWhole == Spec => []StreamsWhole
<1>1. Init => Base /\ DgInv /\ StreamInv
  BY BaseInit, DgInit, StreamInit
<1>2. Base /\ DgInv /\ StreamInv /\ [Next]_vars => Base' /\ DgInv' /\ StreamInv'
  BY BaseNext, BaseStutter, DgNext, DgStutter, StreamNext, StreamStutter
<1>3. StreamInv => StreamsWhole
  BY StreamImplies
<1> QED
  BY <1>1, <1>2, <1>3, PTL DEF Spec
=============================================================================
