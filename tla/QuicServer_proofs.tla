-------------------------- MODULE QuicServer_proofs --------------------------
(***************************************************************************)
(* Proofs about QuicServer: the four safety properties of the server hold  *)
(* for every number of connections, addresses, events, sends and failures. *)
(*                                                                         *)
(* The invariant Inv is stated about the record srv, so that each operator *)
(* of QuicServer has one lemma that says which parts of it the operator    *)
(* keeps; the lemma of an action puts those of its operators together.     *)
(***************************************************************************)
EXTENDS QuicServer, TLAPS

(* Functions whose domain changes.                                         *)
Partial(S, T) == UNION {[D -> T] : D \in SUBSET S}

Id == Conn \X Nat
Event == {"event", "closed"}
Item == [addr : Addr, event : Event]

Low == [by : {"unborn", "nobody", "peer", "local"}, events : Seq(Event),
        pushed : Nat, cids : SUBSET Id, issued : Nat]

ServerRecord ==
    [connections : Partial(Addr, Conn), conn_addr : Partial(Conn, Addr),
     dcid_index : Partial(Id, Conn), conn_dcids : Partial(Conn, SUBSET Id),
     queues : Partial(Conn, Seq(Item)), tasks : Partial(Conn, {"live", "done"}),
     callbacks_running : SUBSET Conn, callback : Partial(Conn, Item),
     failed : SUBSET Conn, low : [Conn -> Low], told : [Conn -> Nat],
     home : [Conn -> Addr \cup {None}], raised : SUBSET Conn,
     cancelled : SUBSET Conn, behind : SUBSET Conn]

LoopState ==
    [at : {"wait", "batch", "ended"}]
        \cup [at : {"pass"}, todo : SUBSET Conn]
        \cup [at : {"sending"}, c : Conn, todo : SUBSET Conn]

StopState == [at : {"no", "tasks", "connections", "stopped"},
              caller : Conn \cup {None}, todo : SUBSET Conn, sent : SUBSET Conn]

(* Every dictionary leads from things of its kind to things of its kind.   *)
TypeOK ==
    /\ srv \in ServerRecord
    /\ running \in BOOLEAN
    /\ loop \in LoopState
    /\ sends \subseteq Conn
    /\ stopping \in StopState

(* Addresses and connections are in one-to-one correspondence.             *)
Routes(s) ==
    /\ \A a \in DOMAIN s.connections :
          /\ s.connections[a] \in DOMAIN s.conn_addr
          /\ s.conn_addr[s.connections[a]] = a
    /\ \A c \in DOMAIN s.conn_addr :
          /\ s.conn_addr[c] \in DOMAIN s.connections
          /\ s.connections[s.conn_addr[c]] = c
          /\ s.home[c] = s.conn_addr[c]
          /\ s.low[c].by # "unborn"

(* The index is the inverse of _conn_dcids, and ids carry their owner.     *)
Mirrored(s) ==
    /\ \A x \in DOMAIN s.dcid_index :
          /\ s.dcid_index[x] \in DOMAIN s.conn_dcids
          /\ x \in s.conn_dcids[s.dcid_index[x]]
    /\ \A c \in DOMAIN s.conn_dcids : \A x \in s.conn_dcids[c] :
          x[1] = c /\ x \in DOMAIN s.dcid_index /\ s.dcid_index[x] = c
    /\ \A c \in Conn : \A x \in s.low[c].cids : x[1] = c

(* _conn_dcids holds the connections that are registered.                  *)
Listed(s) == DOMAIN s.conn_dcids = DOMAIN s.conn_addr

(* _conn_dcids is up to date but for the connections of S and those whose  *)
(* last send failed.                                                       *)
Fresh(s, S) ==
    \A c \in DOMAIN s.conn_addr \ S : c \notin s.behind => s.conn_dcids[c] = s.low[c].cids

(* A callback executes in a task that is live and is noted as running;     *)
(* a task that is live has a queue.                                        *)
Tasked(s) ==
    /\ \A c \in DOMAIN s.tasks : s.tasks[c] = "live" => c \in DOMAIN s.queues
    /\ \A c \in DOMAIN s.callback : c \in DOMAIN s.tasks /\ s.tasks[c] = "live"
    /\ DOMAIN s.callback \subseteq s.callbacks_running
    /\ s.cancelled = {}

(* CONNECTION_CLOSED among the events of a connection and in a queue.      *)
EndIn(q) == \E i \in DOMAIN q : q[i] = "closed"
OneEnd(q) == \A i, j \in DOMAIN q : q[i] = "closed" /\ q[j] = "closed" => i = j
EndOf(q) == \E i \in DOMAIN q : q[i].event = "closed"
OneFrom(q, a) == \A i, j \in DOMAIN q :
                    q[i].event = "closed" =>
                        /\ q[i].addr = a
                        /\ q[j].event = "closed" => i = j

EndInQueue(s, c) == c \in DOMAIN s.queues /\ EndOf(s.queues[c])

(* CONNECTION_CLOSED is in one place: still with the connection, in its    *)
(* queue, or told; and it carries the last address of the connection.      *)
Told(s, c) ==
    /\ s.told[c] <= 1
    /\ s.low[c].by # "peer" =>
          s.told[c] = 0 /\ ~EndIn(s.low[c].events) /\ ~EndInQueue(s, c)
    /\ s.told[c] = 1 => ~EndIn(s.low[c].events) /\ ~EndInQueue(s, c)
    /\ EndInQueue(s, c) => ~EndIn(s.low[c].events)
    /\ OneEnd(s.low[c].events)
    /\ c \in DOMAIN s.queues => OneFrom(s.queues[c], s.home[c])
    /\ c \in DOMAIN s.callback /\ s.callback[c].event = "closed" =>
          s.told[c] = 1 /\ s.callback[c].addr = s.home[c]

(* From the queue on, the connection is not registered any more.           *)
Unlisted(s, c) == s.told[c] = 1 \/ EndInQueue(s, c) => c \notin DOMAIN s.conn_addr

(* The server, in the middle of a step too: but for the connections of S,  *)
(* the index is up to date.                                                *)
Good(s, S) ==
    /\ Routes(s) /\ Mirrored(s) /\ Listed(s) /\ Fresh(s, S)
    /\ \A c \in Conn : Told(s, c) /\ Unlisted(s, c)

(* What stop(), when it is where st says, has taken away stays away.       *)
Staged(s, st) ==
    /\ st.at \in {"no", "tasks"} => Tasked(s)
    /\ st.at \in {"no", "stopped"} => st.caller = None
    /\ st.at = "tasks" =>
          /\ st.caller \in DOMAIN s.callback \cup {None}
          /\ st.caller \notin st.todo
          /\ \A c \in DOMAIN s.tasks :
                s.tasks[c] = "live" => c \in st.todo \cup {st.caller}
    /\ st.at \in {"connections", "stopped"} =>
          s.tasks = Empty /\ s.queues = Empty /\ s.cancelled = {}
    /\ st.at = "connections" =>
          DOMAIN s.callback \subseteq s.callbacks_running \cap {st.caller}
    /\ st.at = "stopped" =>
          /\ s.connections = Empty /\ s.conn_addr = Empty
          /\ s.dcid_index = Empty /\ s.conn_dcids = Empty

Sending == IF loop.at = "sending" THEN {loop.c} ELSE {}

Inv ==
    /\ Good(srv, sends \cup Sending)
    /\ Staged(srv, stopping)
    /\ running <=> stopping.at = "no"

-----------------------------------------------------------------------------
(* Functions whose domain changes.                                         *)

LEMMA PartialFacts ==
    ASSUME NEW S, NEW T, NEW f \in Partial(S, T)
    PROVE  /\ DOMAIN f \subseteq S
           /\ \A x \in DOMAIN f : f[x] \in T
           /\ f = [x \in DOMAIN f |-> f[x]]
  BY DEF Partial

LEMMA PartialIntro ==
    ASSUME NEW S, NEW T, NEW f, f = [x \in DOMAIN f |-> f[x]],
           DOMAIN f \subseteq S, \A x \in DOMAIN f : f[x] \in T
    PROVE  f \in Partial(S, T)
<1>1. f \in [DOMAIN f -> T]
  OBVIOUS
<1> QED
  BY <1>1 DEF Partial

LEMMA PutAllFacts ==
    ASSUME NEW f, NEW X, NEW v
    PROVE  /\ DOMAIN PutAll(f, X, v) = DOMAIN f \cup X
           /\ \A x \in DOMAIN f \cup X : PutAll(f, X, v)[x] = IF x \in X THEN v ELSE f[x]
           /\ PutAll(f, X, v) = [x \in DOMAIN PutAll(f, X, v) |-> PutAll(f, X, v)[x]]
  BY DEF PutAll

LEMMA PutFacts ==
    ASSUME NEW f, NEW x, NEW v
    PROVE  /\ DOMAIN Put(f, x, v) = DOMAIN f \cup {x}
           /\ Put(f, x, v)[x] = v
           /\ \A y \in DOMAIN f \ {x} : Put(f, x, v)[y] = f[y]
  BY DEF Put, PutAll

LEMMA DelFacts ==
    ASSUME NEW f, NEW x
    PROVE  /\ DOMAIN Del(f, x) = DOMAIN f \ {x}
           /\ \A y \in DOMAIN f \ {x} : Del(f, x)[y] = f[y]
  BY DEF Del, Restrict

LEMMA RestrictFacts ==
    ASSUME NEW f, NEW D
    PROVE  /\ DOMAIN Restrict(f, D) = D
           /\ \A x \in D : Restrict(f, D)[x] = f[x]
           /\ Restrict(f, D) = [x \in DOMAIN Restrict(f, D) |-> Restrict(f, D)[x]]
  BY DEF Restrict

LEMMA RestrictType ==
    ASSUME NEW S, NEW T, NEW f \in Partial(S, T), NEW D \in SUBSET DOMAIN f
    PROVE  Restrict(f, D) \in Partial(S, T)
<1>1. DOMAIN Restrict(f, D) \subseteq S /\ \A x \in D : Restrict(f, D)[x] \in T
  BY RestrictFacts, PartialFacts
<1> QED
  BY <1>1, RestrictFacts, PartialIntro

LEMMA DelType ==
    ASSUME NEW S, NEW T, NEW f \in Partial(S, T), NEW x
    PROVE  Del(f, x) \in Partial(S, T)
  BY RestrictType DEF Del

LEMMA PutAllType ==
    ASSUME NEW S, NEW T, NEW f \in Partial(S, T), NEW X \in SUBSET S, NEW v \in T
    PROVE  PutAll(f, X, v) \in Partial(S, T)
<1>1. DOMAIN f \subseteq S /\ \A x \in DOMAIN f : f[x] \in T
  BY PartialFacts
<1>2. PutAll(f, X, v) \in [DOMAIN f \cup X -> T]
  BY <1>1 DEF PutAll
<1> QED
  BY <1>1, <1>2 DEF Partial

LEMMA PutType ==
    ASSUME NEW S, NEW T, NEW f \in Partial(S, T), NEW x \in S, NEW v \in T
    PROVE  Put(f, x, v) \in Partial(S, T)
  BY PutAllType DEF Put

LEMMA EmptyFacts ==
    /\ DOMAIN Empty = {}
    /\ \A x : Del(Empty, x) = Empty
    /\ \A S, T : Empty \in Partial(S, T)
<1>1. DOMAIN Empty = {} /\ \A x : Del(Empty, x) = Empty
  BY DEF Empty, Del, Restrict
<1>2. ASSUME NEW S, NEW T PROVE Empty \in Partial(S, T)
  <2>1. Empty = [x \in DOMAIN Empty |-> Empty[x]]
    BY DEF Empty
  <2> QED
    BY <1>1, <2>1, PartialIntro
<1> QED
  BY <1>1, <1>2

-----------------------------------------------------------------------------
(* The fields of what the operators return.                                *)

(* What registering a connection leaves alone.                             *)
SameTasks(s, u) ==
    /\ u.queues = s.queues /\ u.tasks = s.tasks
    /\ u.callbacks_running = s.callbacks_running /\ u.callback = s.callback
    /\ u.told = s.told /\ u.cancelled = s.cancelled

(* What the tasks of the connections leave alone.                          *)
SameRoutes(s, u) ==
    /\ u.connections = s.connections /\ u.conn_addr = s.conn_addr
    /\ u.dcid_index = s.dcid_index /\ u.conn_dcids = s.conn_dcids
    /\ u.home = s.home /\ u.behind = s.behind

LEMMA FieldTypes ==
    ASSUME NEW s \in ServerRecord
    PROVE  /\ s.connections \in Partial(Addr, Conn) /\ s.conn_addr \in Partial(Conn, Addr)
           /\ s.dcid_index \in Partial(Id, Conn) /\ s.conn_dcids \in Partial(Conn, SUBSET Id)
           /\ s.queues \in Partial(Conn, Seq(Item))
           /\ s.tasks \in Partial(Conn, {"live", "done"})
           /\ s.callbacks_running \in SUBSET Conn /\ s.callback \in Partial(Conn, Item)
           /\ s.low \in [Conn -> Low] /\ s.told \in [Conn -> Nat]
           /\ s.home \in [Conn -> Addr \cup {None}]
           /\ s.cancelled \in SUBSET Conn /\ s.behind \in SUBSET Conn
  BY DEF ServerRecord

LEMMA Domains ==
    ASSUME NEW s \in ServerRecord
    PROVE  /\ DOMAIN s.connections \subseteq Addr
           /\ \A a \in DOMAIN s.connections : s.connections[a] \in Conn
           /\ DOMAIN s.conn_addr \subseteq Conn
           /\ \A c \in DOMAIN s.conn_addr : s.conn_addr[c] \in Addr
           /\ DOMAIN s.dcid_index \subseteq Id
           /\ \A x \in DOMAIN s.dcid_index : s.dcid_index[x] \in Conn
           /\ DOMAIN s.conn_dcids \subseteq Conn
           /\ \A c \in DOMAIN s.conn_dcids : s.conn_dcids[c] \in SUBSET Id
           /\ DOMAIN s.queues \subseteq Conn
           /\ \A c \in DOMAIN s.queues : s.queues[c] \in Seq(Item)
           /\ DOMAIN s.tasks \subseteq Conn
           /\ DOMAIN s.callback \subseteq Conn
<1>1. /\ s.connections \in Partial(Addr, Conn) /\ s.conn_addr \in Partial(Conn, Addr)
      /\ s.dcid_index \in Partial(Id, Conn) /\ s.conn_dcids \in Partial(Conn, SUBSET Id)
      /\ s.queues \in Partial(Conn, Seq(Item))
      /\ s.tasks \in Partial(Conn, {"live", "done"}) /\ s.callback \in Partial(Conn, Item)
  BY FieldTypes
<1> QED
  BY <1>1, PartialFacts

(* The ids refresh_dcid_index knew of, and those it forgets.               *)
Previous(s, c) == IF c \in DOMAIN s.conn_dcids THEN s.conn_dcids[c] ELSE {}
Retired(s, c) == {x \in Previous(s, c) \ s.low[c].cids : Get(s.dcid_index, x) = c}

LEMMA RefreshSame ==
    ASSUME NEW s \in ServerRecord, NEW c \in Conn,
           NEW u, u = refresh_dcid_index(s, c)
    PROVE  /\ u \in ServerRecord
           /\ u.connections = s.connections /\ u.conn_addr = s.conn_addr
           /\ u.home = s.home /\ u.low = s.low
           /\ SameTasks(s, u)
<1> DEFINE current  == s.low[c].cids
           d == PutAll(Restrict(s.dcid_index, DOMAIN s.dcid_index \ Retired(s, c)),
                       current \ Previous(s, c), c)
           e == Put(s.conn_dcids, c, current)
           b == s.behind \ {c}
<1>1. current \in SUBSET Id
  BY FieldTypes DEF Low
<1>2. d \in Partial(Id, Conn)
  BY <1>1, FieldTypes, RestrictType, PutAllType
<1>3. e \in Partial(Conn, SUBSET Id)
  BY <1>1, FieldTypes, PutType
<1>4. u = [s EXCEPT !.dcid_index = d, !.conn_dcids = e, !.behind = b]
  BY DEF refresh_dcid_index, Retired, Previous
<1>5. b \in SUBSET Conn
  BY FieldTypes
<1> HIDE DEF d, e, b
<1>6. /\ u \in ServerRecord
      /\ u.connections = s.connections /\ u.conn_addr = s.conn_addr
      /\ u.home = s.home /\ u.low = s.low
      /\ SameTasks(s, u)
  BY <1>2, <1>3, <1>4, <1>5 DEF ServerRecord, SameTasks
<1> QED
  BY <1>6

LEMMA RefreshFields ==
    ASSUME NEW s \in ServerRecord, NEW c \in Conn,
           NEW u, u = refresh_dcid_index(s, c)
    PROVE  /\ u.dcid_index =
                 PutAll(Restrict(s.dcid_index, DOMAIN s.dcid_index \ Retired(s, c)),
                        s.low[c].cids \ Previous(s, c), c)
           /\ u.conn_dcids = Put(s.conn_dcids, c, s.low[c].cids)
           /\ \A e \in Conn \ {c} : e \in s.behind => e \in u.behind
<1> DEFINE current  == s.low[c].cids
           d == PutAll(Restrict(s.dcid_index, DOMAIN s.dcid_index \ Retired(s, c)),
                       current \ Previous(s, c), c)
           e == Put(s.conn_dcids, c, current)
           b == s.behind \ {c}
<1>1. current \in SUBSET Id
  BY FieldTypes DEF Low
<1>2. d \in Partial(Id, Conn)
  BY <1>1, FieldTypes, RestrictType, PutAllType
<1>3. e \in Partial(Conn, SUBSET Id)
  BY <1>1, FieldTypes, PutType
<1>4. u = [s EXCEPT !.dcid_index = d, !.conn_dcids = e, !.behind = b]
  BY DEF refresh_dcid_index, Retired, Previous
<1>5. b \in SUBSET Conn
  BY FieldTypes
<1> HIDE DEF d, e, b
<1>6. u.dcid_index = d /\ u.conn_dcids = e /\ u.behind = b
  BY <1>2, <1>3, <1>4, <1>5 DEF ServerRecord
<1> QED
  BY <1>6 DEF d, e, b

LEMMA RemoveFields ==
    ASSUME NEW s \in ServerRecord, NEW c \in DOMAIN s.conn_addr, Routes(s), Listed(s),
           NEW u, u = _remove_connection(s, c)
    PROVE  /\ u \in ServerRecord
           /\ u.conn_addr = Del(s.conn_addr, c)
           /\ u.connections = Del(s.connections, s.conn_addr[c])
           /\ u.dcid_index = Restrict(s.dcid_index, {x \in DOMAIN s.dcid_index :
                                ~(x \in s.conn_dcids[c] /\ s.dcid_index[x] = c)})
           /\ u.conn_dcids = Del(s.conn_dcids, c)
           /\ u.home = s.home /\ u.low = s.low /\ u.behind = s.behind
           /\ SameTasks(s, u)
<1> DEFINE o == s.conn_addr[c]
           ca == Del(s.conn_addr, c)
           cs == Del(s.connections, o)
           t == [s EXCEPT !.conn_addr = ca, !.connections = cs]
           ix == Restrict(s.dcid_index, {x \in DOMAIN s.dcid_index :
                                ~(x \in s.conn_dcids[c] /\ s.dcid_index[x] = c)})
           cd == Del(s.conn_dcids, c)
<1>1. Get(s.conn_addr, c) = o /\ Get(s.connections, o) = c
  BY DEF Get, Routes
<1>2. u = drop_dcid_index(t, c)
  BY <1>1 DEF _remove_connection
<1>3. ca \in Partial(Conn, Addr) /\ cs \in Partial(Addr, Conn)
  BY FieldTypes, DelType
<1>4. ix \in Partial(Id, Conn) /\ cd \in Partial(Conn, SUBSET Id)
  BY FieldTypes, DelType, RestrictType
<1> HIDE DEF ca, cs
<1>5. /\ t.dcid_index = s.dcid_index /\ t.conn_dcids = s.conn_dcids
      /\ t.conn_addr = ca /\ t.connections = cs
      /\ t.home = s.home /\ t.low = s.low /\ t.behind = s.behind
      /\ t \in ServerRecord /\ SameTasks(s, t)
  BY <1>3 DEF ServerRecord, SameTasks
<1> HIDE DEF t
<1>6. c \in DOMAIN s.conn_dcids
  BY DEF Listed
<1>7. u = [t EXCEPT !.dcid_index = ix, !.conn_dcids = cd]
  BY <1>2, <1>5, <1>6 DEF drop_dcid_index
<1> HIDE DEF ix, cd
<1>8. /\ u \in ServerRecord /\ u.dcid_index = ix /\ u.conn_dcids = cd
      /\ u.conn_addr = t.conn_addr /\ u.connections = t.connections
      /\ u.home = t.home /\ u.low = t.low /\ u.behind = t.behind
      /\ SameTasks(t, u)
  BY <1>4, <1>5, <1>7, ZenonT(30) DEF ServerRecord, SameTasks
<1>9. SameTasks(s, u)
  BY <1>5, <1>8 DEF SameTasks
<1> QED
  BY <1>5, <1>8, <1>9 DEF ca, cs, ix, cd
-----------------------------------------------------------------------------
(* Registration keeps the server good.                                     *)

LEMMA ToldKept ==
    ASSUME NEW s, NEW u, NEW c \in Conn, Told(s, c), SameTasks(s, u),
           u.low[c] = s.low[c], u.home[c] = s.home[c]
    PROVE  Told(u, c)
  BY DEF Told, SameTasks, EndInQueue

LEMMA UnlistedKept ==
    ASSUME NEW s, NEW u, NEW c \in Conn, Unlisted(s, c), SameTasks(s, u),
           c \in DOMAIN u.conn_addr => c \in DOMAIN s.conn_addr
    PROVE  Unlisted(u, c)
  BY DEF Unlisted, SameTasks, EndInQueue

LEMMA RefreshIndex ==
    ASSUME NEW s \in ServerRecord, NEW c \in DOMAIN s.conn_addr, Mirrored(s),
           DOMAIN s.conn_dcids \cup {c} = DOMAIN s.conn_addr,
           NEW S, Fresh(s, S \cup {c}),
           NEW u, u = refresh_dcid_index(s, c)
    PROVE  Mirrored(u) /\ Listed(u) /\ Fresh(u, S)
<1> DEFINE current  == s.low[c].cids
           previous == Previous(s, c)
           retired  == Retired(s, c)
           d == s.dcid_index
           D == DOMAIN d \ retired
<1>0. c \in Conn
  BY Domains
<1>1. /\ u \in ServerRecord
      /\ u.dcid_index = PutAll(Restrict(d, D), current \ previous, c)
      /\ u.conn_dcids = Put(s.conn_dcids, c, current)
      /\ (\A e \in Conn \ {c} : e \in s.behind => e \in u.behind)
      /\ u.conn_addr = s.conn_addr /\ u.low = s.low
  BY <1>0, RefreshFields, RefreshSame
<1>2. /\ DOMAIN u.conn_dcids = DOMAIN s.conn_dcids \cup {c}
      /\ u.conn_dcids[c] = current
      /\ \A e \in DOMAIN s.conn_dcids \ {c} : u.conn_dcids[e] = s.conn_dcids[e]
  <2> DEFINE p == Put(s.conn_dcids, c, current)
  <2> HIDE DEF current
  <2>1. /\ DOMAIN p = DOMAIN s.conn_dcids \cup {c} /\ p[c] = current
        /\ \A e \in DOMAIN s.conn_dcids \ {c} : p[e] = s.conn_dcids[e]
    BY DEF Put, PutAll
  <2>2. u.conn_dcids = p
    BY <1>1
  <2> QED
    BY <2>1, <2>2, Zenon
<1>3. /\ DOMAIN u.dcid_index = D \cup (current \ previous)
      /\ \A x \in current \ previous : u.dcid_index[x] = c
      /\ \A x \in D \ (current \ previous) : u.dcid_index[x] = d[x]
  <2> DEFINE r == Restrict(d, D)
             p == PutAll(r, current \ previous, c)
  <2> HIDE DEF current, previous, d, D
  <2>1. DOMAIN r = D /\ \A x \in D : r[x] = d[x]
    BY RestrictFacts, Zenon
  <2> HIDE DEF r
  <2>2. /\ DOMAIN p = DOMAIN r \cup (current \ previous)
        /\ \A x \in DOMAIN r \cup (current \ previous) :
              p[x] = IF x \in current \ previous THEN c ELSE r[x]
    BY DEF PutAll
  <2>3. u.dcid_index = p
    BY <1>1 DEF r
  <2> HIDE DEF p
  <2> QED
    BY <2>1, <2>2, <2>3
<1>4. /\ \A x \in previous : x[1] = c /\ x \in DOMAIN d /\ d[x] = c
      /\ \A x \in current : x[1] = c
      /\ \A x \in DOMAIN d : d[x] = c => x \in previous
  BY <1>0 DEF Mirrored, Previous
<1>5. retired = previous \ current
  BY <1>4 DEF Get, Retired
<1>6. \A x \in DOMAIN d : d[x] # c => x \in s.conn_dcids[d[x]] /\ d[x] \in DOMAIN s.conn_dcids
                                        /\ x[1] # c
  BY DEF Mirrored
<1>7. \A e \in DOMAIN s.conn_dcids \ {c} : \A x \in s.conn_dcids[e] :
         x[1] = e /\ x \in DOMAIN d /\ d[x] = e
  BY DEF Mirrored
<1>8. \A e \in Conn : \A x \in u.low[e].cids : x[1] = e
  BY <1>1 DEF Mirrored
<1> HIDE DEF d, D, previous, current, retired
<1>9. ASSUME NEW x \in DOMAIN u.dcid_index
      PROVE  u.dcid_index[x] \in DOMAIN u.conn_dcids /\ x \in u.conn_dcids[u.dcid_index[x]]
  <2>1. CASE x \in current \ previous
    BY <1>2, <1>3, <2>1
  <2>2. CASE x \in DOMAIN d /\ x \notin retired /\ x \notin current \ previous
    <3>1. u.dcid_index[x] = d[x]
      BY <1>3, <2>2 DEF D
    <3>2. CASE d[x] = c
      BY <1>2, <1>4, <1>5, <2>2, <3>1, <3>2
    <3>3. CASE d[x] # c
      BY <1>2, <1>6, <2>2, <3>1, <3>3
    <3> QED
      BY <3>2, <3>3
  <2> QED
    BY <1>3, <2>1, <2>2 DEF D
<1>10. ASSUME NEW e \in DOMAIN u.conn_dcids, NEW x \in u.conn_dcids[e]
       PROVE  x[1] = e /\ x \in DOMAIN u.dcid_index /\ u.dcid_index[x] = e
  <2>1. CASE e = c
    BY <1>2, <1>3, <1>4, <1>5, <2>1 DEF D
  <2>2. CASE e # c
    <3>1. x[1] = e /\ x \in DOMAIN d /\ d[x] = e
      BY <1>2, <1>7, <2>2
    <3>2. x \notin retired /\ x \notin current
      BY <1>4, <1>5, <2>2, <3>1
    <3> QED
      BY <1>3, <3>1, <3>2 DEF D
  <2> QED
    BY <2>1, <2>2
<1>11. Mirrored(u)
  BY <1>8, <1>9, <1>10 DEF Mirrored
<1>12. Listed(u)
  BY <1>1, <1>2 DEF Listed
<1>13. Fresh(u, S)
  <2> SUFFICES ASSUME NEW e \in DOMAIN s.conn_addr \ S, e \notin u.behind
               PROVE  u.conn_dcids[e] = s.low[e].cids
    BY <1>1 DEF Fresh
  <2>1. CASE e = c
    BY <1>2, <2>1 DEF current
  <2>2. CASE e # c
    <3>1. e \notin s.behind
      BY <1>1, <2>2, Domains
    <3>2. s.conn_dcids[e] = s.low[e].cids
      BY <2>2, <3>1 DEF Fresh
    <3> QED
      BY <1>2, <2>2, <3>2
  <2> QED
    BY <2>1, <2>2
<1> QED
  BY <1>11, <1>12, <1>13

(* _refresh_dcid_index brings the index up to date.                        *)
LEMMA RefreshGood ==
    ASSUME NEW s \in ServerRecord, NEW c \in Conn, NEW S, Good(s, S \cup {c}),
           NEW u, u = _refresh_dcid_index(s, c)
    PROVE  /\ u \in ServerRecord /\ Good(u, S) /\ SameTasks(s, u)
           /\ u.conn_addr = s.conn_addr /\ u.low = s.low /\ u.connections = s.connections
           /\ u.home = s.home
<1>1. CASE c \notin DOMAIN s.conn_addr
  <2>1. u = s
    BY <1>1 DEF _refresh_dcid_index
  <2>2. Fresh(s, S)
    BY <1>1 DEF Good, Fresh
  <2> QED
    BY <2>1, <2>2 DEF Good, SameTasks
<1>2. CASE c \in DOMAIN s.conn_addr
  <2>1. u = refresh_dcid_index(s, c)
    BY <1>2 DEF _refresh_dcid_index
  <2>2. /\ u \in ServerRecord /\ SameTasks(s, u)
        /\ u.conn_addr = s.conn_addr /\ u.low = s.low /\ u.connections = s.connections
        /\ u.home = s.home
    BY <2>1, RefreshSame
  <2>3. Mirrored(u) /\ Listed(u) /\ Fresh(u, S)
    <3>1. DOMAIN s.conn_dcids \cup {c} = DOMAIN s.conn_addr
      BY <1>2 DEF Good, Listed
    <3> QED
      BY <1>2, <2>1, <3>1, RefreshIndex DEF Good
  <2>4. Routes(u)
    BY <2>2 DEF Good, Routes
  <2>5. \A e \in Conn : Told(u, e) /\ Unlisted(u, e)
    BY <2>2, ToldKept, UnlistedKept DEF Good
  <2> QED
    BY <2>2, <2>3, <2>4, <2>5 DEF Good
<1> QED
  BY <1>1, <1>2

(* _remove_connection takes a connection out, and keeps all others.        *)
LEMMA RemoveGood ==
    ASSUME NEW s \in ServerRecord, NEW c \in DOMAIN s.conn_addr, NEW S,
           Routes(s), Mirrored(s), Listed(s), Fresh(s, S),
           \A e \in Conn : Told(s, e), \A e \in Conn \ {c} : Unlisted(s, e),
           NEW u, u = _remove_connection(s, c)
    PROVE  /\ u \in ServerRecord /\ Good(u, S) /\ SameTasks(s, u) /\ u.low = s.low
           /\ c \notin DOMAIN u.conn_addr
<1> DEFINE o == s.conn_addr[c]
           D == {x \in DOMAIN s.dcid_index :
                   ~(x \in s.conn_dcids[c] /\ s.dcid_index[x] = c)}
<1>1. /\ u \in ServerRecord
      /\ u.conn_addr = Del(s.conn_addr, c)
      /\ u.connections = Del(s.connections, o)
      /\ u.dcid_index = Restrict(s.dcid_index, D)
      /\ u.conn_dcids = Del(s.conn_dcids, c)
      /\ u.home = s.home /\ u.low = s.low /\ u.behind = s.behind
      /\ SameTasks(s, u)
  BY RemoveFields
<1>2. /\ DOMAIN u.conn_addr = DOMAIN s.conn_addr \ {c}
      /\ \A e \in DOMAIN s.conn_addr \ {c} : u.conn_addr[e] = s.conn_addr[e]
      /\ DOMAIN u.connections = DOMAIN s.connections \ {o}
      /\ \A a \in DOMAIN s.connections \ {o} : u.connections[a] = s.connections[a]
      /\ DOMAIN u.conn_dcids = DOMAIN s.conn_dcids \ {c}
      /\ \A e \in DOMAIN s.conn_dcids \ {c} : u.conn_dcids[e] = s.conn_dcids[e]
  <2> HIDE DEF o
  <2>2. /\ DOMAIN u.conn_addr = DOMAIN s.conn_addr \ {c}
        /\ \A e \in DOMAIN s.conn_addr \ {c} : u.conn_addr[e] = s.conn_addr[e]
    BY <1>1 DEF Del, Restrict
  <2>3. /\ DOMAIN u.connections = DOMAIN s.connections \ {o}
        /\ \A a \in DOMAIN s.connections \ {o} : u.connections[a] = s.connections[a]
    BY <1>1 DEF Del, Restrict
  <2>4. /\ DOMAIN u.conn_dcids = DOMAIN s.conn_dcids \ {c}
        /\ \A e \in DOMAIN s.conn_dcids \ {c} : u.conn_dcids[e] = s.conn_dcids[e]
    BY <1>1 DEF Del, Restrict
  <2> QED
    BY <2>2, <2>3, <2>4
<1>3. DOMAIN u.dcid_index = D /\ \A x \in D : u.dcid_index[x] = s.dcid_index[x]
  BY <1>1, RestrictFacts
<1>4. \A x : x \in D <=> x \in DOMAIN s.dcid_index /\ s.dcid_index[x] # c
  BY DEF Mirrored
<1> HIDE DEF D
<1>5. Routes(u)
  BY <1>1, <1>2 DEF Routes
<1> HIDE DEF o
<1>6. Mirrored(u)
  <2>1. \A x \in DOMAIN u.dcid_index :
          /\ u.dcid_index[x] \in DOMAIN u.conn_dcids
          /\ x \in u.conn_dcids[u.dcid_index[x]]
    BY <1>2, <1>3, <1>4 DEF Mirrored
  <2>2. \A e \in DOMAIN u.conn_dcids : \A x \in u.conn_dcids[e] :
          x[1] = e /\ x \in DOMAIN u.dcid_index /\ u.dcid_index[x] = e
    BY <1>2, <1>3, <1>4 DEF Mirrored
  <2>3. \A e \in Conn : \A x \in u.low[e].cids : x[1] = e
    BY <1>1 DEF Mirrored
  <2> QED
    BY <2>1, <2>2, <2>3 DEF Mirrored
<1>7. Listed(u) /\ Fresh(u, S)
  BY <1>1, <1>2 DEF Listed, Fresh
<1>8. \A e \in Conn : Told(u, e) /\ Unlisted(u, e)
  <2>1. \A e \in Conn : Told(u, e)
    BY <1>1, ToldKept
  <2>2. \A e \in Conn \ {c} : Unlisted(u, e)
    BY <1>1, <1>2, UnlistedKept
  <2>3. Unlisted(u, c)
    BY <1>2 DEF Unlisted
  <2> QED
    BY <2>1, <2>2, <2>3
<1> QED
  BY <1>1, <1>2, <1>5, <1>6, <1>7, <1>8 DEF Good
-----------------------------------------------------------------------------
(* Sequences of events.                                                    *)

LEMMA AppendEnd ==
    ASSUME NEW q \in Seq(Event), NEW v \in Event
    PROVE  /\ Append(q, v) \in Seq(Event)
           /\ EndIn(Append(q, v)) => EndIn(q) \/ v = "closed"
           /\ OneEnd(q) /\ (~EndIn(q) \/ v # "closed") => OneEnd(Append(q, v))
<1> DEFINE r == Append(q, v)
           n == Len(q)
<1>1. /\ r \in Seq(Event) /\ n \in Nat /\ DOMAIN q = 1..n /\ DOMAIN r = 1..n + 1
      /\ \A i \in 1..n : r[i] = q[i]
      /\ r[n + 1] = v
  OBVIOUS
<1> HIDE DEF r, n
<1>2. \A i \in 1..n + 1 : i \in 1..n \/ i = n + 1
  BY <1>1
<1>3. EndIn(r) => EndIn(q) \/ v = "closed"
  BY <1>1, <1>2 DEF EndIn
<1>4. OneEnd(q) /\ (~EndIn(q) \/ v # "closed") => OneEnd(r)
  BY <1>1, <1>2 DEF EndIn, OneEnd
<1> QED
  BY <1>1, <1>3, <1>4 DEF r

(* What _enqueue_connection_events adds to a queue.                        *)
Items(a, ev) == [i \in DOMAIN ev |-> Queued(a, ev[i])]

LEMMA ItemsFacts ==
    ASSUME NEW a \in Addr, NEW ev \in Seq(Event)
    PROVE  /\ Items(a, ev) \in Seq(Item) /\ Len(Items(a, ev)) = Len(ev)
           /\ \A i \in 1..Len(ev) : /\ Items(a, ev)[i].event = ev[i]
                                    /\ Items(a, ev)[i].addr = a
<1>1. Len(ev) \in Nat /\ DOMAIN ev = 1..Len(ev) /\ \A i \in 1..Len(ev) : ev[i] \in Event
  OBVIOUS
<1>2. \A i \in 1..Len(ev) : Items(a, ev)[i] = Queued(a, ev[i])
  BY <1>1 DEF Items
<1>3. \A i \in 1..Len(ev) : Queued(a, ev[i]) \in Item
  BY <1>1 DEF Queued, Item
<1>4. Items(a, ev) = [i \in 1..Len(ev) |-> Queued(a, ev[i])]
  BY <1>1 DEF Items
<1>5. Items(a, ev) \in Seq(Item) /\ Len(Items(a, ev)) = Len(ev)
  <2> DEFINE n == Len(ev)
             f == Items(a, ev)
  <2>1. f \in [1..n -> Item] /\ n \in Nat /\ f = [i \in 1..n |-> Queued(a, ev[i])]
    BY <1>1, <1>3, <1>4
  <2> HIDE DEF n, f
  <2>2. f \in Seq(Item) /\ Len(f) = n
    BY <2>1
  <2> QED
    BY <2>2 DEF n, f
<1>6. \A i \in 1..Len(ev) : Queued(a, ev[i]).event = ev[i] /\ Queued(a, ev[i]).addr = a
  BY DEF Queued
<1>7. \A i \in 1..Len(ev) : Items(a, ev)[i].event = ev[i] /\ Items(a, ev)[i].addr = a
  BY <1>2, <1>6, Zenon
<1> QED
  BY <1>5, <1>7, Zenon

LEMMA ConcatEnd ==
    ASSUME NEW q \in Seq(Item), NEW a \in Addr, NEW ev \in Seq(Event),
           OneFrom(q, a), OneEnd(ev), EndOf(q) => ~EndIn(ev)
    PROVE  /\ q \o Items(a, ev) \in Seq(Item)
           /\ OneFrom(q \o Items(a, ev), a)
           /\ EndOf(q \o Items(a, ev)) => EndOf(q) \/ EndIn(ev)
<1> DEFINE p == Items(a, ev)
           r == q \o p
           n == Len(q)
           k == Len(ev)
<1>1. /\ p \in Seq(Item) /\ Len(p) = k
      /\ \A i \in 1..k : p[i].event = ev[i] /\ p[i].addr = a
  BY ItemsFacts
<1> HIDE DEF p
<1>2. /\ r \in Seq(Item) /\ n \in Nat /\ k \in Nat
      /\ DOMAIN q = 1..n /\ DOMAIN ev = 1..k /\ DOMAIN r = 1..n + k
      /\ \A i \in 1..n : r[i] = q[i]
      /\ \A i \in 1..k : r[n + i] = p[i]
  <2>1. r \in Seq(Item) /\ n \in Nat /\ k \in Nat /\ Len(r) = n + k
    BY <1>1, SMTT(60)
  <2>2. DOMAIN q = 1..n /\ DOMAIN ev = 1..k /\ DOMAIN r = 1..n + k
    BY <1>1, <2>1
  <2>3. \A i \in 1..n : r[i] = q[i]
    BY <1>1
  <2>4. \A i \in 1..k : r[n + i] = p[i]
    BY <1>1
  <2> QED
    BY <2>1, <2>2, <2>3, <2>4
<1> HIDE DEF r, n, k
<1>3. \A i \in 1..n + k : i \in 1..n \/ \E j \in 1..k : i = n + j
  <2> TAKE i \in 1..n + k
  <2>1. i > n => i - n \in 1..k /\ i = n + (i - n)
    BY <1>2
  <2> QED
    BY <1>2, <2>1
<1>4. \A i \in 1..n + k : r[i].event = "closed" =>
         \/ i \in 1..n /\ q[i].event = "closed" /\ r[i].addr = q[i].addr
         \/ \E j \in 1..k : i = n + j /\ ev[j] = "closed" /\ r[i].addr = a
  <2> SUFFICES ASSUME NEW i \in 1..n + k, r[i].event = "closed"
               PROVE  \/ i \in 1..n /\ q[i].event = "closed" /\ r[i].addr = q[i].addr
                      \/ \E j \in 1..k : i = n + j /\ ev[j] = "closed" /\ r[i].addr = a
    BY Zenon
  <2>1. CASE i \in 1..n
    BY <1>2, <2>1
  <2>2. CASE \E j \in 1..k : i = n + j
    <3>1. PICK j \in 1..k : i = n + j
      BY <2>2
    <3>2. ev[j] = "closed" /\ r[i].addr = a
      BY <1>1, <1>2, <3>1
    <3> QED
      BY <3>1, <3>2
  <2> QED
    BY <1>3, <2>1, <2>2
<1>5. EndOf(r) => EndOf(q) \/ EndIn(ev)
  BY <1>2, <1>4 DEF EndOf, EndIn
<1>6. \A i \in 1..n : q[i].event = "closed" => q[i].addr = a
  BY <1>2 DEF OneFrom
<1>7. \A i \in 1..n + k : r[i].event = "closed" => r[i].addr = a
  BY <1>4, <1>6
<1>8. \A i, j \in 1..n + k : r[i].event = "closed" /\ r[j].event = "closed" => i = j
  <2> SUFFICES ASSUME NEW i \in 1..n + k, NEW j \in 1..n + k,
                      r[i].event = "closed", r[j].event = "closed"
               PROVE  i = j
    BY Zenon
  <2>1. CASE EndIn(ev)
    <3>1. \A m \in 1..n : q[m].event # "closed"
      BY <1>2, <2>1 DEF EndOf
    <3>2. PICK x \in 1..k : i = n + x /\ ev[x] = "closed"
      BY <1>4, <3>1
    <3>3. PICK y \in 1..k : j = n + y /\ ev[y] = "closed"
      BY <1>4, <3>1
    <3>4. x = y
      BY <1>2, <3>2, <3>3 DEF OneEnd
    <3> QED
      BY <3>2, <3>3, <3>4
  <2>2. CASE ~EndIn(ev)
    <3>1. \A m \in 1..k : ev[m] # "closed"
      BY <1>2, <2>2 DEF EndIn
    <3>2. /\ i \in 1..n /\ q[i].event = "closed"
          /\ j \in 1..n /\ q[j].event = "closed"
      BY <1>4, <3>1
    <3> QED
      BY <1>2, <3>2 DEF OneFrom
  <2> QED
    BY <2>1, <2>2
<1>9. OneFrom(r, a)
  BY <1>2, <1>7, <1>8 DEF OneFrom
<1> QED
  BY <1>2, <1>5, <1>9 DEF r, p
-----------------------------------------------------------------------------
(* What may become of a connection.                                        *)

LowStep(c, l, m) ==
    /\ m \in Low
    /\ m.by = "unborn" => l.by = "unborn"
    /\ \A x \in m.cids : x[1] = c
    /\ \/ m.events = l.events /\ (m.by = l.by \/ (~is_closed(l) /\ m.by = "local"))
       \/ ~is_closed(l) /\ m.by = l.by /\ m.events = Append(l.events, "event")
       \/ ~is_closed(l) /\ m.by = "peer" /\ m.events = Append(l.events, "closed")

Own(c, l) == \A x \in l.cids : x[1] = c

LEMMA LowTypes ==
    ASSUME NEW l \in Low
    PROVE  /\ l.by \in {"unborn", "nobody", "peer", "local"} /\ l.events \in Seq(Event)
           /\ l.pushed \in Nat /\ l.cids \in SUBSET Id /\ l.issued \in Nat
  BY DEF Low

LEMMA StaysLow ==
    ASSUME NEW c \in Conn, NEW l \in Low, Own(c, l)
    PROVE  LowStep(c, l, l)
  BY DEF LowStep, Own

LEMMA EndedLow ==
    ASSUME NEW c \in Conn, NEW l \in Low, Own(c, l), ~is_closed(l)
    PROVE  LowStep(c, l, Ended(l)) /\ Ended(l).cids = l.cids
<1> DEFINE ev == Append(l.events, "closed")
           m == [l EXCEPT !.by = "peer", !.events = ev]
<1>1. ev \in Seq(Event)
  BY LowTypes DEF Event
<1> HIDE DEF ev
<1>2. m \in Low /\ m.by = "peer" /\ m.events = ev /\ m.cids = l.cids
  BY <1>1 DEF Low
<1>3. Ended(l) = m
  BY DEF Ended, ev
<1> HIDE DEF m
<1> QED
  BY <1>2, <1>3 DEF LowStep, Own, ev

LEMMA ClosedLow ==
    ASSUME NEW c \in Conn, NEW l \in Low, Own(c, l)
    PROVE  LowStep(c, l, closed(l)) /\ closed(l).cids = l.cids
<1>1. CASE is_closed(l)
  BY <1>1, StaysLow DEF closed
<1>2. CASE ~is_closed(l)
  <2> DEFINE m == [l EXCEPT !.by = "local"]
  <2>1. m \in Low /\ m.by = "local" /\ m.events = l.events /\ m.cids = l.cids
    BY DEF Low
  <2>2. closed(l) = m
    BY <1>2 DEF closed
  <2> HIDE DEF m
  <2> QED
    BY <1>2, <2>1, <2>2 DEF LowStep, Own
<1> QED
  BY <1>1, <1>2

LEMMA ClosingLow ==
    ASSUME NEW c \in Conn, NEW l \in Low, Own(c, l), NEW m \in Closing(l)
    PROVE  LowStep(c, l, m) /\ m.cids = l.cids
<1>1. CASE is_closed(l)
  BY <1>1, StaysLow DEF Closing
<1>2. CASE ~is_closed(l)
  <2>1. m = Ended(l)
    BY <1>2 DEF Closing
  <2> QED
    BY <1>2, <2>1, EndedLow
<1> QED
  BY <1>1, <1>2

LEMMA MayEndLow ==
    ASSUME NEW c \in Conn, NEW l \in Low, Own(c, l), NEW m \in MayEnd(l)
    PROVE  LowStep(c, l, m) /\ m.cids = l.cids
<1>1. CASE m = l
  BY <1>1, StaysLow
<1>2. CASE m = Ended(l) /\ ~is_closed(l)
  BY <1>2, EndedLow
<1> QED
  BY <1>1, <1>2 DEF MayEnd

LEMMA IssuedLow ==
    ASSUME NEW c \in Conn, NEW l \in Low, Own(c, l), NEW m \in Issued(c, l)
    PROVE  m \in Low /\ m.by = l.by /\ m.events = l.events /\ Own(c, m)
<1> DEFINE x == Cid(c, l.issued + 1)
           ids == l.cids \cup {x}
           k == l.issued + 1
<1>1. m = [l EXCEPT !.cids = ids, !.issued = k]
  BY DEF Issued
<1>2. k \in Nat /\ x \in Id /\ x[1] = c
  BY LowTypes DEF Cid, Id
<1>3. ids \in SUBSET Id /\ \A y \in ids : y[1] = c
  BY <1>2, LowTypes DEF Own
<1> HIDE DEF ids, k
<1>4. m \in Low /\ m.by = l.by /\ m.events = l.events /\ m.cids = ids
  BY <1>1, <1>2, <1>3 DEF Low
<1> QED
  BY <1>3, <1>4 DEF Own

(* A call of the application, and the send that follows it.                *)
LEMMA SentLow ==
    ASSUME NEW c \in Conn, NEW k \in Low, Own(c, k),
           NEW l \in MayEnd(k), NEW m \in Sent(c, l)
    PROVE  LowStep(c, k, m)
<1>1. LowStep(c, k, l) /\ l.cids = k.cids
  BY MayEndLow
<1>2. CASE m = l
  BY <1>1, <1>2
<1>3. CASE m \in Issued(c, l)
  <2>1. l \in Low /\ Own(c, l)
    BY <1>1 DEF LowStep, Own
  <2>2. m \in Low /\ m.by = l.by /\ m.events = l.events /\ Own(c, m)
    BY <1>3, <2>1, IssuedLow
  <2> QED
    BY <1>1, <2>2 DEF LowStep, Own
<1> QED
  BY <1>2, <1>3 DEF Sent

LEMMA AcceptedLow ==
    ASSUME NEW c \in Conn, NEW l \in Low, Own(c, l), NEW m \in Accepted(c, l)
    PROVE  LowStep(c, l, m)
<1>0. ~is_closed(l)
  BY DEF Accepted
<1>1. CASE m = l
  BY <1>1, StaysLow
<1>2. CASE \E x \in l.cids : m = [l EXCEPT !.cids = @ \ {x}]
  <2>1. PICK x \in l.cids : m = [l EXCEPT !.cids = @ \ {x}]
    BY <1>2
  <2> DEFINE ids == l.cids \ {x}
  <2>2. ids \in SUBSET Id /\ \A y \in ids : y[1] = c
    BY LowTypes DEF Own
  <2>3. m = [l EXCEPT !.cids = ids]
    BY <2>1
  <2> HIDE DEF ids
  <2>4. m \in Low /\ m.by = l.by /\ m.events = l.events /\ m.cids = ids
    BY <2>2, <2>3 DEF Low
  <2> QED
    BY <2>2, <2>4 DEF LowStep
<1>3. CASE m = [l EXCEPT !.events = Append(@, "event"), !.pushed = @ + 1]
  <2> DEFINE ev == Append(l.events, "event")
             k == l.pushed + 1
  <2>1. ev \in Seq(Event) /\ k \in Nat
    BY LowTypes DEF Event
  <2>2. m = [l EXCEPT !.events = ev, !.pushed = k]
    BY <1>3
  <2> HIDE DEF ev, k
  <2>3. m \in Low /\ m.by = l.by /\ m.events = ev /\ m.cids = l.cids
    BY <2>1, <2>2 DEF Low
  <2> QED
    BY <1>0, <2>3 DEF LowStep, Own, ev
<1> QED
  BY <1>0, <1>1, <1>2, <1>3 DEF Accepted
LEMMA LowEvents ==
    ASSUME NEW c \in Conn, NEW l \in Low, NEW m, LowStep(c, l, m),
           OneEnd(l.events), l.by # "peer" => ~EndIn(l.events)
    PROVE  /\ OneEnd(m.events)
           /\ l.by = "peer" => m.by = "peer" /\ m.events = l.events
           /\ m.by # "peer" => ~EndIn(m.events)
<1>1. l.events \in Seq(Event)
  BY LowTypes
<1>2. CASE m.events = l.events /\ (m.by = l.by \/ (~is_closed(l) /\ m.by = "local"))
  BY <1>2 DEF is_closed
<1>3. CASE ~is_closed(l) /\ m.by = l.by /\ m.events = Append(l.events, "event")
  <2>1. l.by # "peer"
    BY <1>3 DEF is_closed
  <2>2. OneEnd(m.events) /\ ~EndIn(m.events)
    BY <1>1, <1>3, <2>1, AppendEnd DEF Event
  <2> QED
    BY <2>1, <2>2
<1>4. CASE ~is_closed(l) /\ m.by = "peer" /\ m.events = Append(l.events, "closed")
  <2>1. l.by # "peer"
    BY <1>4 DEF is_closed
  <2>2. OneEnd(m.events)
    BY <1>1, <1>4, <2>1, AppendEnd DEF Event
  <2> QED
    BY <1>4, <2>1, <2>2
<1> QED
  BY <1>2, <1>3, <1>4 DEF LowStep

LEMMA OwnLow ==
    ASSUME NEW s \in ServerRecord, NEW c \in Conn, Mirrored(s)
    PROVE  s.low[c] \in Low /\ Own(c, s.low[c])
  BY FieldTypes DEF Mirrored, Own

With(s, c, m) == [s EXCEPT !.low[c] = m]

(* A step of the connection itself; its ids may now differ from the index. *)
LEMMA LowGood ==
    ASSUME NEW s \in ServerRecord, NEW c \in Conn, NEW S, Good(s, S),
           NEW m, LowStep(c, s.low[c], m), NEW u, u = With(s, c, m),
           NEW T, S \subseteq T, c \in T \/ m.cids = s.low[c].cids
    PROVE  /\ u \in ServerRecord /\ Good(u, T)
           /\ SameRoutes(s, u) /\ SameTasks(s, u) /\ u.low[c] = m
<1>1. /\ u \in ServerRecord /\ u.low = [s.low EXCEPT ![c] = m]
      /\ SameRoutes(s, u) /\ SameTasks(s, u)
  <2>1. m \in Low
    BY DEF LowStep
  <2> QED
    BY <2>1 DEF ServerRecord, SameRoutes, SameTasks, With
<1>2. u.low[c] = m /\ \A e \in Conn \ {c} : u.low[e] = s.low[e]
  BY <1>1, FieldTypes
<1>3. Routes(u)
  <2>1. \A e \in DOMAIN s.conn_addr : u.low[e].by # "unborn"
    <3> TAKE e \in DOMAIN s.conn_addr
    <3>1. e \in Conn /\ s.low[e].by # "unborn"
      BY Domains DEF Good, Routes
    <3> QED
      BY <1>2, <3>1 DEF LowStep
  <2> QED
    BY <1>1, <2>1 DEF Good, Routes, SameRoutes
<1>4. Mirrored(u)
  <2>1. \A e \in Conn : \A x \in u.low[e].cids : x[1] = e
    BY <1>2 DEF Good, Mirrored, LowStep
  <2> QED
    BY <1>1, <2>1 DEF Good, Mirrored, SameRoutes
<1>5. Listed(u)
  BY <1>1 DEF Good, Listed, SameRoutes
<1>6. Fresh(u, T)
  BY <1>1, <1>2, Domains DEF Good, Fresh, SameRoutes
<1>7. \A e \in Conn : Unlisted(u, e)
  BY <1>1, UnlistedKept DEF Good, SameRoutes
<1>8. ASSUME NEW e \in Conn PROVE Told(u, e)
  <2>1. CASE e # c
    BY <1>1, <1>2, <2>1, ToldKept DEF Good, SameRoutes
  <2>2. CASE e = c
    <3>1. Told(s, c)
      BY DEF Good
    <3>2. /\ OneEnd(m.events)
          /\ s.low[c].by = "peer" => m.by = "peer" /\ m.events = s.low[c].events
          /\ m.by # "peer" => ~EndIn(m.events)
      <4>1. OneEnd(s.low[c].events) /\ (s.low[c].by # "peer" => ~EndIn(s.low[c].events))
        BY <3>1 DEF Told
      <4> QED
        BY <4>1, LowEvents, FieldTypes
    <3>3. /\ u.told[c] = s.told[c] /\ u.home[c] = s.home[c]
          /\ u.queues = s.queues /\ u.callback = s.callback
          /\ EndInQueue(u, c) <=> EndInQueue(s, c)
      BY <1>1 DEF SameRoutes, SameTasks, EndInQueue
    <3>4. Told(u, c)
      BY <1>2, <3>1, <3>2, <3>3 DEF Told
    <3> QED
      BY <2>2, <3>4
  <2> QED
    BY <2>1, <2>2
<1> QED
  BY <1>1, <1>2, <1>3, <1>4, <1>5, <1>6, <1>7, <1>8 DEF Good

LEMMA StagedKept ==
    ASSUME NEW s, NEW u, NEW st, Staged(s, st), SameTasks(s, u), st.at # "stopped"
    PROVE  Staged(u, st)
  BY DEF Staged, SameTasks, Tasked

(* A server with a connection has not been stopped.                        *)
LEMMA NotStopped ==
    ASSUME NEW s, NEW st, Staged(s, st), DOMAIN s.conn_addr # {}
    PROVE  st.at # "stopped"
  BY EmptyFacts DEF Staged

(* A migration: the connection gets the address of the packet.             *)
LEMMA MovedFields ==
    ASSUME NEW s \in ServerRecord, NEW c \in DOMAIN s.conn_addr, NEW a \in Addr, Routes(s),
           NEW u, u = moved(s, c, a)
    PROVE  /\ u \in ServerRecord
           /\ u.connections = Put(Del(s.connections, s.conn_addr[c]), a, c)
           /\ u.conn_addr = Put(s.conn_addr, c, a)
           /\ u.home = [s.home EXCEPT ![c] = a]
           /\ u.dcid_index = s.dcid_index /\ u.conn_dcids = s.conn_dcids
           /\ u.behind = s.behind /\ u.low = s.low /\ SameTasks(s, u)
<1> DEFINE cs == Put(Del(s.connections, s.conn_addr[c]), a, c)
           ca == Put(s.conn_addr, c, a)
           ho == [s.home EXCEPT ![c] = a]
<1>0. c \in Conn
  BY Domains
<1>1. Get(s.conn_addr, c) = s.conn_addr[c] /\ Get(s.connections, s.conn_addr[c]) = c
  BY DEF Get, Routes
<1>2. cs \in Partial(Addr, Conn) /\ ca \in Partial(Conn, Addr)
  BY <1>0, FieldTypes, DelType, PutType
<1>3. ho \in [Conn -> Addr \cup {None}]
  BY FieldTypes
<1>4. u = [s EXCEPT !.connections = cs, !.conn_addr = ca, !.home[c] = a]
  BY <1>1 DEF moved
<1>5. u = [s EXCEPT !.connections = cs, !.conn_addr = ca, !.home = ho]
  BY <1>4
<1> HIDE DEF cs, ca, ho
<1>6. /\ u \in ServerRecord
      /\ u.connections = cs /\ u.conn_addr = ca /\ u.home = ho
      /\ u.dcid_index = s.dcid_index /\ u.conn_dcids = s.conn_dcids
      /\ u.behind = s.behind /\ u.low = s.low /\ SameTasks(s, u)
  BY <1>2, <1>3, <1>5 DEF ServerRecord, SameTasks
<1> QED
  BY <1>6 DEF cs, ca, ho

LEMMA MovedGood ==
    ASSUME NEW s \in ServerRecord, NEW c \in DOMAIN s.conn_addr,
           NEW a \in Addr, a \notin DOMAIN s.connections, NEW S, Good(s, S),
           NEW u, u = moved(s, c, a)
    PROVE  /\ u \in ServerRecord /\ Good(u, S) /\ SameTasks(s, u)
           /\ c \in DOMAIN u.conn_addr /\ u.conn_addr[c] = a
<1> DEFINE o == s.conn_addr[c]
<1>0. c \in Conn
  BY Domains
<1>1. /\ u \in ServerRecord
      /\ u.connections = Put(Del(s.connections, o), a, c)
      /\ u.conn_addr = Put(s.conn_addr, c, a)
      /\ u.home = [s.home EXCEPT ![c] = a]
      /\ u.dcid_index = s.dcid_index /\ u.conn_dcids = s.conn_dcids
      /\ u.behind = s.behind /\ u.low = s.low /\ SameTasks(s, u)
  BY MovedFields DEF Good
<1>2. /\ DOMAIN u.conn_addr = DOMAIN s.conn_addr /\ u.conn_addr[c] = a
      /\ \A e \in DOMAIN s.conn_addr \ {c} : u.conn_addr[e] = s.conn_addr[e]
  BY <1>1 DEF Put, PutAll
<1>3. /\ DOMAIN u.connections = (DOMAIN s.connections \ {o}) \cup {a}
      /\ u.connections[a] = c
      /\ \A b \in DOMAIN s.connections \ {o} : u.connections[b] = s.connections[b]
  BY <1>1 DEF Put, PutAll, Del, Restrict
<1>4. u.home[c] = a /\ \A e \in Conn \ {c} : u.home[e] = s.home[e]
  BY <1>0, <1>1, FieldTypes
<1>5. Routes(u)
  <2>1. Routes(s) /\ DOMAIN s.conn_addr \subseteq Conn
    BY Domains DEF Good
  <2>2. \A b \in DOMAIN u.connections :
          u.connections[b] \in DOMAIN u.conn_addr /\ u.conn_addr[u.connections[b]] = b
    BY <1>2, <1>3, <2>1 DEF Routes
  <2>3. \A e \in DOMAIN u.conn_addr :
          u.conn_addr[e] \in DOMAIN u.connections /\ u.connections[u.conn_addr[e]] = e
    BY <1>2, <1>3, <2>1 DEF Routes
  <2>4. \A e \in DOMAIN u.conn_addr : u.home[e] = u.conn_addr[e] /\ u.low[e].by # "unborn"
    BY <1>1, <1>2, <1>4, <2>1 DEF Routes
  <2> QED
    BY <2>2, <2>3, <2>4 DEF Routes
<1>6. Mirrored(u) /\ Listed(u) /\ Fresh(u, S)
  BY <1>1, <1>2 DEF Good, Mirrored, Listed, Fresh
<1>7. \A e \in Conn : Unlisted(u, e)
  BY <1>1, <1>2, UnlistedKept DEF Good
<1>8. ASSUME NEW e \in Conn PROVE Told(u, e)
  <2>1. CASE e # c
    BY <1>1, <1>4, <2>1, ToldKept DEF Good
  <2>2. CASE e = c
    <3>1. Told(s, c) /\ s.told[c] # 1 /\ ~EndInQueue(s, c)
      BY <1>0 DEF Good, Unlisted
    <3>2. /\ u.told = s.told /\ u.queues = s.queues /\ u.callback = s.callback
          /\ ~EndInQueue(u, c)
      BY <1>1, <3>1 DEF SameTasks, EndInQueue
    <3>3. c \in DOMAIN u.queues => OneFrom(u.queues[c], u.home[c])
      BY <3>2 DEF EndInQueue, EndOf, OneFrom
    <3>4. Told(u, c)
      BY <1>1, <3>1, <3>2, <3>3 DEF Told
    <3> QED
      BY <2>2, <3>4
  <2> QED
    BY <2>1, <2>2
<1> QED
  BY <1>1, <1>2, <1>5, <1>6, <1>7, <1>8 DEF Good
-----------------------------------------------------------------------------
(* Events reach the queue of their connection.                             *)

LEMMA ExceptType ==
    ASSUME NEW S, NEW T, NEW f \in Partial(S, T), NEW x \in DOMAIN f, NEW v \in T
    PROVE  /\ [f EXCEPT ![x] = v] \in Partial(S, T)
           /\ DOMAIN [f EXCEPT ![x] = v] = DOMAIN f
           /\ [f EXCEPT ![x] = v][x] = v
           /\ \A y \in DOMAIN f \ {x} : [f EXCEPT ![x] = v][y] = f[y]
<1>1. PICK D \in SUBSET S : f \in [D -> T]
  BY DEF Partial
<1>2. [f EXCEPT ![x] = v] \in [D -> T]
  BY <1>1
<1> QED
  BY <1>1, <1>2 DEF Partial

(* _ensure_connection_task, where it makes a task and maybe a queue.       *)
LEMMA EnsureFields ==
    ASSUME NEW s \in ServerRecord, NEW c \in Conn,
           NEW u, u = _ensure_connection_task(s, c), u # s
    PROVE  /\ u \in ServerRecord /\ SameRoutes(s, u) /\ u.low = s.low
           /\ u.callbacks_running = s.callbacks_running /\ u.callback = s.callback
           /\ u.told = s.told /\ u.cancelled = s.cancelled
           /\ running
           /\ DOMAIN u.tasks = DOMAIN s.tasks \cup {c}
           /\ u.tasks[c] = "live"
           /\ \A e \in DOMAIN s.tasks \ {c} : u.tasks[e] = s.tasks[e]
           /\ DOMAIN u.queues = DOMAIN s.queues \cup {c}
           /\ \A e \in DOMAIN s.queues : u.queues[e] = s.queues[e]
           /\ c \notin DOMAIN s.queues => u.queues[c] = <<>>
<1> DEFINE q == IF c \in DOMAIN s.queues THEN s.queues ELSE Put(s.queues, c, <<>>)
           k == Put(s.tasks, c, "live")
<1>1. q \in Partial(Conn, Seq(Item)) /\ k \in Partial(Conn, {"live", "done"})
  <2>1. <<>> \in Seq(Item)
    OBVIOUS
  <2> QED
    BY <2>1, FieldTypes, PutType
<1>2. /\ DOMAIN k = DOMAIN s.tasks \cup {c} /\ k[c] = "live"
      /\ \A e \in DOMAIN s.tasks \ {c} : k[e] = s.tasks[e]
  BY DEF Put, PutAll
<1>3. /\ DOMAIN q = DOMAIN s.queues \cup {c}
      /\ \A e \in DOMAIN s.queues : q[e] = s.queues[e]
      /\ c \notin DOMAIN s.queues => q[c] = <<>>
  BY DEF Put, PutAll
<1>4. running /\ u = [s EXCEPT !.tasks = k, !.queues = q]
  BY DEF _ensure_connection_task
<1> HIDE DEF k, q
<1>5. /\ u \in ServerRecord /\ u.tasks = k /\ u.queues = q
      /\ SameRoutes(s, u) /\ u.low = s.low
      /\ u.callbacks_running = s.callbacks_running /\ u.callback = s.callback
      /\ u.told = s.told /\ u.cancelled = s.cancelled
  BY <1>1, <1>4 DEF ServerRecord, SameRoutes
<1> QED
  BY <1>2, <1>3, <1>4, <1>5

LEMMA EnsureGood ==
    ASSUME NEW s \in ServerRecord, NEW c \in Conn, NEW S, Good(s, S),
           Staged(s, stopping), running <=> stopping.at = "no",
           NEW u, u = _ensure_connection_task(s, c)
    PROVE  /\ u \in ServerRecord /\ Good(u, S) /\ Staged(u, stopping)
           /\ SameRoutes(s, u) /\ u.low = s.low
<1>1. CASE u = s
  BY <1>1 DEF SameRoutes
<1>2. CASE u # s
  <2>1. /\ u \in ServerRecord /\ SameRoutes(s, u) /\ u.low = s.low
        /\ u.callbacks_running = s.callbacks_running /\ u.callback = s.callback
        /\ u.told = s.told /\ u.cancelled = s.cancelled
        /\ running
        /\ DOMAIN u.tasks = DOMAIN s.tasks \cup {c}
        /\ u.tasks[c] = "live"
        /\ \A e \in DOMAIN s.tasks \ {c} : u.tasks[e] = s.tasks[e]
        /\ DOMAIN u.queues = DOMAIN s.queues \cup {c}
        /\ \A e \in DOMAIN s.queues : u.queues[e] = s.queues[e]
        /\ c \notin DOMAIN s.queues => u.queues[c] = <<>>
    BY <1>2, EnsureFields
  <2>2. \A e \in Conn : /\ EndInQueue(u, e) <=> EndInQueue(s, e)
                        /\ e \in DOMAIN u.queues =>
                              e \in DOMAIN s.queues \/ u.queues[e] = <<>>
    BY <2>1 DEF EndInQueue, EndOf
  <2>3. \A a : OneFrom(<<>>, a)
    BY DEF OneFrom
  <2>4. \A e \in Conn : Told(u, e) /\ Unlisted(u, e)
    <3> TAKE e \in Conn
    <3>1. Told(s, e) /\ Unlisted(s, e)
      BY DEF Good
    <3>2. u.home = s.home /\ u.conn_addr = s.conn_addr
      BY <2>1 DEF SameRoutes
    <3>3. e \in DOMAIN u.queues => OneFrom(u.queues[e], u.home[e])
      BY <2>1, <2>2, <2>3, <3>1, <3>2 DEF Told
    <3>4. Told(u, e)
      BY <2>1, <2>2, <3>1, <3>2, <3>3 DEF Told
    <3>5. Unlisted(u, e)
      BY <2>1, <2>2, <3>1, <3>2 DEF Unlisted
    <3> QED
      BY <3>4, <3>5
  <2>5. Routes(u) /\ Mirrored(u) /\ Listed(u) /\ Fresh(u, S)
    BY <2>1 DEF Good, SameRoutes, Routes, Mirrored, Listed, Fresh
  <2>6. Tasked(u)
    BY <2>1 DEF Staged, Tasked
  <2>7. Staged(u, stopping)
    BY <2>1, <2>6 DEF Staged
  <2> QED
    BY <2>1, <2>4, <2>5, <2>7 DEF Good
<1> QED
  BY <1>1, <1>2
(* The events of the connection move to its queue; with CONNECTION_CLOSED  *)
(* among them the connection is taken out in the same step.                *)
Filled(s, c, r) == [s EXCEPT !.queues[c] = r, !.low[c].events = <<>>]

LEMMA QueueFields ==
    ASSUME NEW s \in ServerRecord, NEW c \in DOMAIN s.queues,
           NEW r \in Seq(Item), NEW u, u = Filled(s, c, r)
    PROVE  /\ u \in ServerRecord /\ SameRoutes(s, u)
           /\ DOMAIN u.queues = DOMAIN s.queues
           /\ u.queues[c] = r
           /\ \A e \in DOMAIN s.queues \ {c} : u.queues[e] = s.queues[e]
           /\ \A e \in Conn \ {c} : u.low[e] = s.low[e]
           /\ u.low[c].by = s.low[c].by /\ u.low[c].cids = s.low[c].cids
           /\ u.low[c].events = <<>>
           /\ u.tasks = s.tasks /\ u.callbacks_running = s.callbacks_running
           /\ u.callback = s.callback /\ u.told = s.told /\ u.cancelled = s.cancelled
<1> DEFINE q == [s.queues EXCEPT ![c] = r]
           l == [s.low[c] EXCEPT !.events = <<>>]
           w == [s.low EXCEPT ![c] = l]
<1>0. c \in Conn
  BY Domains
<1>1. u = [s EXCEPT !.queues = q, !.low = w]
  BY DEF Filled
<1>2. /\ l \in Low /\ l.by = s.low[c].by /\ l.cids = s.low[c].cids /\ l.events = <<>>
  <2>1. s.low[c] \in Low /\ <<>> \in Seq(Event)
    BY <1>0, FieldTypes
  <2> QED
    BY <2>1 DEF Low
<1> HIDE DEF l
<1>3. /\ w \in [Conn -> Low] /\ w[c] = l /\ \A e \in Conn \ {c} : w[e] = s.low[e]
  BY <1>0, <1>2, FieldTypes
<1>4. /\ q \in Partial(Conn, Seq(Item)) /\ DOMAIN q = DOMAIN s.queues /\ q[c] = r
      /\ \A e \in DOMAIN s.queues \ {c} : q[e] = s.queues[e]
  <2>1. s.queues \in Partial(Conn, Seq(Item))
    BY FieldTypes
  <2> QED
    BY <2>1, ExceptType
<1> HIDE DEF q, w
<1>5. /\ u \in ServerRecord /\ SameRoutes(s, u) /\ u.queues = q /\ u.low = w
      /\ u.tasks = s.tasks /\ u.callbacks_running = s.callbacks_running
      /\ u.callback = s.callback /\ u.told = s.told /\ u.cancelled = s.cancelled
  BY <1>1, <1>3, <1>4 DEF ServerRecord, SameRoutes
<1> QED
  BY <1>2, <1>3, <1>4, <1>5

LEMMA EnqueueGood ==
    ASSUME NEW s \in ServerRecord, NEW c \in DOMAIN s.conn_addr, NEW S, Good(s, S),
           Staged(s, stopping), running <=> stopping.at = "no",
           NEW v, v = _enqueue_connection_events(s, s.conn_addr[c], c)
    PROVE  v \in ServerRecord /\ Good(v, S) /\ Staged(v, stopping)
<1> DEFINE t == _ensure_connection_task(s, c)
           a == s.conn_addr[c]
           ev == t.low[c].events
           r == t.queues[c] \o Items(a, ev)
           u == Filled(t, c, r)
<1>0. c \in Conn /\ a \in Addr
  BY Domains
<1>1. /\ t \in ServerRecord /\ Good(t, S) /\ Staged(t, stopping)
      /\ SameRoutes(s, t) /\ t.low = s.low
  BY <1>0, EnsureGood
<1>2. v = IF c \notin DOMAIN t.queues THEN t
          ELSE IF EndIn(ev) THEN _remove_connection(u, c) ELSE u
  BY DEF _enqueue_connection_events, EndIn, Items, Filled
<1>3. CASE c \notin DOMAIN t.queues
  BY <1>1, <1>2, <1>3
<1>4. CASE c \in DOMAIN t.queues
  <2>1. /\ c \in DOMAIN t.conn_addr /\ t.conn_addr[c] = a /\ t.home[c] = a
        /\ t.told[c] # 1 /\ ~EndInQueue(t, c) /\ Told(t, c)
    <3>1. c \in DOMAIN t.conn_addr /\ t.conn_addr[c] = a
      BY <1>1 DEF SameRoutes
    <3>2. t.home[c] = a
      BY <1>1, <3>1 DEF Good, Routes
    <3> QED
      BY <1>0, <1>1, <3>1, <3>2 DEF Good, Unlisted
  <2>2. ev \in Seq(Event) /\ t.queues[c] \in Seq(Item)
    BY <1>0, <1>1, <1>4, FieldTypes, LowTypes, Domains
  <2>3. OneFrom(t.queues[c], a) /\ OneEnd(ev) /\ ~EndOf(t.queues[c])
    BY <1>4, <2>1 DEF Told, EndInQueue
  <2>4. r \in Seq(Item) /\ OneFrom(r, a) /\ (EndOf(r) => EndIn(ev))
    BY <1>0, <2>2, <2>3, ConcatEnd
  <2> HIDE DEF t, a, ev, r
  <2>5. /\ u \in ServerRecord /\ SameRoutes(t, u)
        /\ DOMAIN u.queues = DOMAIN t.queues
        /\ u.queues[c] = r
        /\ \A e \in DOMAIN t.queues \ {c} : u.queues[e] = t.queues[e]
        /\ \A e \in Conn \ {c} : u.low[e] = t.low[e]
        /\ u.low[c].by = t.low[c].by /\ u.low[c].cids = t.low[c].cids
        /\ u.low[c].events = <<>>
        /\ u.tasks = t.tasks /\ u.callbacks_running = t.callbacks_running
        /\ u.callback = t.callback /\ u.told = t.told /\ u.cancelled = t.cancelled
    BY <1>1, <1>4, <2>4, QueueFields
  <2> HIDE DEF u
  <2>6. Routes(u) /\ Mirrored(u) /\ Listed(u) /\ Fresh(u, S)
    <3>1. /\ DOMAIN t.conn_addr \subseteq Conn
          /\ \A e \in Conn : u.low[e].by = t.low[e].by /\ u.low[e].cids = t.low[e].cids
      BY <1>1, <2>5, Domains
    <3>2. Routes(u)
      BY <1>1, <2>5, <3>1 DEF Good, SameRoutes, Routes
    <3>3. Mirrored(u)
      BY <1>1, <2>5, <3>1 DEF Good, SameRoutes, Mirrored
    <3>4. Listed(u) /\ Fresh(u, S)
      BY <1>1, <2>5, <3>1 DEF Good, SameRoutes, Listed, Fresh
    <3> QED
      BY <3>2, <3>3, <3>4
  <2>7. ASSUME NEW e \in Conn, e # c PROVE Told(u, e) /\ Unlisted(u, e)
    <3>1. Told(t, e) /\ Unlisted(t, e)
      BY <1>1 DEF Good
    <3>2. /\ u.low[e] = t.low[e] /\ u.told[e] = t.told[e] /\ u.home[e] = t.home[e]
          /\ u.callback = t.callback /\ u.conn_addr = t.conn_addr
          /\ EndInQueue(u, e) <=> EndInQueue(t, e)
          /\ e \in DOMAIN u.queues <=> e \in DOMAIN t.queues
          /\ e \in DOMAIN t.queues => u.queues[e] = t.queues[e]
      BY <2>5, <2>7 DEF SameRoutes, EndInQueue
    <3> QED
      BY <3>1, <3>2 DEF Told, Unlisted
  <2>8. Told(u, c)
    <3>1. u.home[c] = a /\ OneFrom(u.queues[c], a)
      BY <2>1, <2>4, <2>5 DEF SameRoutes
    <3>2. ~EndIn(<<>>) /\ OneEnd(<<>>)
      BY DEF EndIn, OneEnd
    <3>3. EndInQueue(u, c) => EndIn(ev)
      BY <2>4, <2>5 DEF EndInQueue
    <3>4. t.told[c] \in Nat
      BY <1>0, <1>1, FieldTypes
    <3>5. t.told[c] <= 1 /\ t.told[c] = 0
      BY <2>1, <3>4 DEF Told
    <3>6. t.low[c].by # "peer" => ~EndIn(ev)
      BY <2>1 DEF Told, ev
    <3>7. ~(c \in DOMAIN t.callback /\ t.callback[c].event = "closed")
      BY <2>1 DEF Told
    <3> QED
      BY <2>5, <3>1, <3>2, <3>3, <3>5, <3>6, <3>7 DEF Told
  <2>9. Staged(u, stopping)
    <3>1. stopping.at \in {"connections", "stopped"} => t.queues = Empty
      BY <1>1 DEF Staged
    <3>2. stopping.at \notin {"connections", "stopped"}
      BY <1>4, <3>1, EmptyFacts
    <3>3. Tasked(t) => Tasked(u)
      BY <2>5 DEF Tasked
    <3> QED
      BY <1>1, <2>5, <3>2, <3>3 DEF Staged
  <2>10. CASE EndIn(ev)
    <3>1. v = _remove_connection(u, c) /\ c \in DOMAIN u.conn_addr
      BY <1>2, <1>4, <2>1, <2>5, <2>10 DEF SameRoutes
    <3>2. v \in ServerRecord /\ Good(v, S) /\ SameTasks(u, v)
      BY <2>5, <2>6, <2>7, <2>8, <3>1, RemoveGood
    <3>3. stopping.at # "stopped"
      BY <2>9, <3>1, NotStopped
    <3> QED
      BY <2>9, <3>2, <3>3, StagedKept
  <2>11. CASE ~EndIn(ev)
    <3>1. v = u
      BY <1>2, <1>4, <2>11
    <3>2. Unlisted(u, c)
      <4>1. ~EndInQueue(u, c)
        BY <2>4, <2>5, <2>11 DEF EndInQueue
      <4> QED
        BY <2>1, <2>5, <4>1 DEF Unlisted
    <3>3. \A e \in Conn : Told(u, e) /\ Unlisted(u, e)
      BY <2>7, <2>8, <3>2
    <3> QED
      BY <2>5, <2>6, <2>9, <3>1, <3>3 DEF Good
  <2> QED
    BY <2>10, <2>11
<1> QED
  BY <1>3, <1>4
-----------------------------------------------------------------------------
(* Collecting a connection.                                                *)

(* No callback of a connection that is not noted as running executes.      *)
LEMMA NotExecuting ==
    ASSUME NEW s, NEW st \in StopState, Staged(s, st), st.at # "stopped",
           NEW c, c \notin s.callbacks_running
    PROVE  c \notin DOMAIN s.callback
  BY DEF Staged, Tasked, StopState

LEMMA CancelFields ==
    ASSUME NEW s \in ServerRecord, NEW c \in Conn, c \notin DOMAIN s.callback,
           NEW u, u = [Cancel(s, c) EXCEPT !.queues = Del(@, c)]
    PROVE  /\ u \in ServerRecord /\ SameRoutes(s, u) /\ u.low = s.low
           /\ u.tasks = Del(s.tasks, c) /\ u.queues = Del(s.queues, c)
           /\ u.callback = Del(s.callback, c)
           /\ u.callbacks_running = s.callbacks_running
           /\ u.told = s.told /\ u.cancelled = s.cancelled
<1> DEFINE k == Del(s.tasks, c)
           q == Del(s.queues, c)
           b == Del(s.callback, c)
           t == [s EXCEPT !.tasks = k, !.cancelled = s.cancelled, !.callback = b]
<1>1. /\ k \in Partial(Conn, {"live", "done"}) /\ q \in Partial(Conn, Seq(Item))
      /\ b \in Partial(Conn, Item)
  BY FieldTypes, DelType
<1>2. Cancel(s, c) = t
  BY DEF Cancel
<1> HIDE DEF k, b
<1>3. /\ t \in ServerRecord /\ SameRoutes(s, t) /\ t.low = s.low
      /\ t.tasks = k /\ t.queues = s.queues /\ t.callback = b
      /\ t.callbacks_running = s.callbacks_running
      /\ t.told = s.told /\ t.cancelled = s.cancelled
  BY <1>1 DEF ServerRecord, SameRoutes
<1> HIDE DEF t
<1>4. u = [t EXCEPT !.queues = q]
  BY <1>2, <1>3
<1> HIDE DEF q
<1>5. /\ u \in ServerRecord /\ SameRoutes(t, u) /\ u.low = t.low
      /\ u.tasks = t.tasks /\ u.queues = q /\ u.callback = t.callback
      /\ u.callbacks_running = t.callbacks_running
      /\ u.told = t.told /\ u.cancelled = t.cancelled
  BY <1>1, <1>3, <1>4 DEF ServerRecord, SameRoutes
<1>6. SameRoutes(s, u)
  BY <1>3, <1>5 DEF SameRoutes
<1> QED
  BY <1>3, <1>5, <1>6 DEF k, q, b

(* Fewer queued events, and one callback less, harm nothing.               *)
LEMMA QueueDropped ==
    ASSUME NEW s \in ServerRecord, NEW S, Good(s, S),
           NEW u, SameRoutes(s, u), u.low = s.low, u.told = s.told,
           \A e \in DOMAIN u.queues : e \in DOMAIN s.queues /\ u.queues[e] = s.queues[e],
           \A e \in DOMAIN u.callback : e \in DOMAIN s.callback /\ u.callback[e] = s.callback[e]
    PROVE  Good(u, S)
<1>1. Routes(u) /\ Mirrored(u) /\ Listed(u) /\ Fresh(u, S)
  BY DEF Good, SameRoutes, Routes, Mirrored, Listed, Fresh
<1>2. ASSUME NEW e \in Conn PROVE Told(u, e) /\ Unlisted(u, e)
  <2>1. Told(s, e) /\ Unlisted(s, e)
    BY DEF Good
  <2>2. u.home = s.home /\ u.conn_addr = s.conn_addr
    BY DEF SameRoutes
  <2>3. EndInQueue(u, e) => EndInQueue(s, e)
    BY DEF EndInQueue
  <2>4. Told(u, e)
    BY <2>1, <2>2, <2>3 DEF Told
  <2>5. Unlisted(u, e)
    BY <2>1, <2>2, <2>3 DEF Unlisted
  <2> QED
    BY <2>4, <2>5
<1> QED
  BY <1>1, <1>2 DEF Good

LEMMA DiscardGood ==
    ASSUME NEW s \in ServerRecord, NEW c \in DOMAIN s.conn_addr, NEW S, Good(s, S),
           NEW st \in StopState, Staged(s, st), NEW v, v = _discard_connection(s, c)
    PROVE  v \in ServerRecord /\ Good(v, S) /\ Staged(v, st)
<1>1. CASE c \in s.callbacks_running
  BY <1>1 DEF _discard_connection
<1>2. CASE c \notin s.callbacks_running
  <2> DEFINE w == _remove_connection(s, c)
  <2>0. c \in Conn /\ st.at # "stopped"
    BY Domains, NotStopped
  <2>1. w \in ServerRecord /\ Good(w, S) /\ SameTasks(s, w)
    BY RemoveGood DEF Good
  <2>2. v = [Cancel(w, c) EXCEPT !.queues = Del(@, c)]
    BY <1>2 DEF _discard_connection
  <2> HIDE DEF w
  <2>3. Staged(w, st)
    BY <2>0, <2>1, StagedKept
  <2>4. c \notin DOMAIN w.callback
    <3>1. c \notin w.callbacks_running
      BY <1>2, <2>1 DEF SameTasks
    <3> QED
      BY <2>0, <2>3, <3>1, NotExecuting
  <2>5. /\ v \in ServerRecord /\ SameRoutes(w, v) /\ v.low = w.low
        /\ v.tasks = Del(w.tasks, c) /\ v.queues = Del(w.queues, c)
        /\ v.callback = Del(w.callback, c)
        /\ v.callbacks_running = w.callbacks_running
        /\ v.told = w.told /\ v.cancelled = w.cancelled
    BY <2>0, <2>1, <2>2, <2>4, CancelFields, ZenonT(30)
  <2>6. /\ DOMAIN v.tasks = DOMAIN w.tasks \ {c}
        /\ \A e \in DOMAIN v.tasks : v.tasks[e] = w.tasks[e]
        /\ DOMAIN v.queues = DOMAIN w.queues \ {c}
        /\ \A e \in DOMAIN v.queues : v.queues[e] = w.queues[e]
        /\ DOMAIN v.callback = DOMAIN w.callback
        /\ \A e \in DOMAIN v.callback : v.callback[e] = w.callback[e]
    BY <2>4, <2>5 DEF Del, Restrict
  <2>7. Good(v, S)
    BY <2>0, <2>1, <2>5, <2>6, QueueDropped
  <2>8. Tasked(w) => Tasked(v)
    BY <2>4, <2>5, <2>6 DEF Tasked
  <2>9. st.at \in {"connections", "stopped"} => v.tasks = Empty /\ v.queues = Empty
    BY <2>3, <2>5, EmptyFacts DEF Staged
  <2>10. Staged(v, st)
    BY <2>0, <2>3, <2>5, <2>6, <2>8, <2>9 DEF Staged
  <2> QED
    BY <2>5, <2>7, <2>10
<1> QED
  BY <1>1, <1>2

(* What follows a send of run(): ids, events, and the collection.          *)
LEMMA AfterSendGood ==
    ASSUME NEW s \in ServerRecord, NEW c \in Conn, NEW S, Good(s, S \cup {c}),
           stopping \in StopState, Staged(s, stopping), running <=> stopping.at = "no",
           NEW v, v = after_send(s, c)
    PROVE  v \in ServerRecord /\ Good(v, S) /\ Staged(v, stopping)
<1> DEFINE t == _refresh_dcid_index(s, c)
           u == _enqueue_connection_events(t, t.conn_addr[c], c)
<1>1. /\ t \in ServerRecord /\ Good(t, S) /\ SameTasks(s, t)
      /\ t.conn_addr = s.conn_addr /\ (c \notin DOMAIN s.conn_addr => t = s)
  <2>1. c \notin DOMAIN s.conn_addr => t = s
    BY DEF _refresh_dcid_index
  <2> QED
    BY <2>1, RefreshGood
<1>2. v = IF c \notin DOMAIN t.conn_addr THEN t
          ELSE IF is_closed(u.low[c]) /\ c \in DOMAIN u.conn_addr
               THEN _discard_connection(u, c) ELSE u
  BY DEF after_send
<1> HIDE DEF t
<1>3. CASE c \notin DOMAIN t.conn_addr
  BY <1>1, <1>2, <1>3
<1>4. CASE c \in DOMAIN t.conn_addr
  <2>1. Staged(t, stopping)
    <3>1. stopping.at # "stopped"
      BY <1>1, <1>4, NotStopped
    <3> QED
      BY <1>1, <3>1, StagedKept
  <2>2. u \in ServerRecord /\ Good(u, S) /\ Staged(u, stopping)
    BY <1>1, <1>4, <2>1, EnqueueGood
  <2> HIDE DEF u
  <2>3. CASE v = u
    BY <2>2, <2>3
  <2>4. CASE c \in DOMAIN u.conn_addr /\ v = _discard_connection(u, c)
    BY <2>2, <2>4, DiscardGood
  <2> QED
    BY <1>2, <1>4, <2>3, <2>4
<1> QED
  BY <1>3, <1>4
-----------------------------------------------------------------------------
(* The actions.                                                            *)

LEMMA InvParts ==
    ASSUME TypeOK, Inv
    PROVE  /\ srv \in ServerRecord /\ Good(srv, sends \cup Sending)
           /\ Routes(srv) /\ Mirrored(srv) /\ Listed(srv)
           /\ stopping \in StopState /\ Staged(srv, stopping)
           /\ running <=> stopping.at = "no"
  BY DEF TypeOK, Inv, Good

LEMMA NotSending ==
    ASSUME loop.at # "sending"
    PROVE  Sending = {}
  BY DEF Sending

LEMMA Settled ==
    ASSUME srv' \in ServerRecord, running' \in BOOLEAN, loop' \in LoopState,
           sends' \subseteq Conn, stopping' \in StopState,
           Good(srv', sends' \cup Sending'), Staged(srv', stopping'),
           running' <=> stopping'.at = "no"
    PROVE  TypeOK' /\ Inv'
  BY DEF TypeOK, Inv

(* The step changes the record of the server, and leaves run() waiting for *)
(* datagrams.                                                              *)
LEMMA Handles ==
    ASSUME TypeOK, Inv, UNCHANGED <<running, sends, stopping>>,
           NEW x \in {"wait", "batch", "ended"}, loop' = [at |-> x],
           srv' \in ServerRecord, Good(srv', sends), Staged(srv', stopping)
    PROVE  TypeOK' /\ Inv'
<1>1. loop' \in LoopState /\ Sending' = {}
  BY DEF LoopState, Sending
<1>2. sends' \cup Sending' = sends
  BY <1>1
<1> QED
  BY <1>1, <1>2, Settled, InvParts DEF TypeOK

(* The tail of _handle_datagram for a connection that took the packet.     *)
LEMMA Delivered ==
    ASSUME TypeOK, Inv, Receiving, Handled, UNCHANGED <<running, sends, stopping>>,
           NEW s \in ServerRecord, NEW c \in DOMAIN s.conn_addr,
           Good(s, sends \cup {c}), Staged(s, stopping),
           srv' = _enqueue_connection_events(_refresh_dcid_index(s, c), s.conn_addr[c], c)
    PROVE  TypeOK' /\ Inv'
<1> DEFINE t == _refresh_dcid_index(s, c)
<1>0. c \in Conn /\ stopping.at # "stopped"
  BY Domains, NotStopped
<1>1. /\ t \in ServerRecord /\ Good(t, sends) /\ SameTasks(s, t)
      /\ t.conn_addr = s.conn_addr
  BY <1>0, RefreshGood
<1>2. srv' = _enqueue_connection_events(t, t.conn_addr[c], c)
  BY <1>1
<1> HIDE DEF t
<1>3. Staged(t, stopping)
  BY <1>0, <1>1, StagedKept
<1>4. srv' \in ServerRecord /\ Good(srv', sends) /\ Staged(srv', stopping)
  BY <1>1, <1>2, <1>3, InvParts, EnqueueGood
<1> QED
  BY <1>4, Handles DEF Handled

LEMMA InvFromKnownAddress ==
    ASSUME TypeOK, Inv, NEW a \in Addr, FromKnownAddress(a)
    PROVE  TypeOK' /\ Inv'
<1> DEFINE c == srv.connections[a]
<1>1. /\ Receiving /\ Handled /\ UNCHANGED <<running, sends, stopping>>
      /\ a \in DOMAIN srv.connections
  BY DEF FromKnownAddress
<1>2. PICK l \in {srv.low[c]} \cup Accepted(c, srv.low[c]) \cup Closing(srv.low[c]) :
         srv' = _enqueue_connection_events(
                    _refresh_dcid_index([srv EXCEPT !.low[c] = l], c), a, c)
  BY DEF FromKnownAddress
<1>3. c \in DOMAIN srv.conn_addr /\ srv.conn_addr[c] = a /\ c \in Conn
  BY <1>1, InvParts, Domains DEF Routes
<1> HIDE DEF c
<1>4. LowStep(c, srv.low[c], l)
  <2>1. srv.low[c] \in Low /\ Own(c, srv.low[c])
    BY <1>3, InvParts, OwnLow
  <2> QED
    BY <1>2, <1>3, <2>1, StaysLow, AcceptedLow, ClosingLow
<1> DEFINE s == With(srv, c, l)
<1>5. Good(srv, sends)
  <2>1. sends \cup Sending = sends
    BY <1>1, NotSending DEF Receiving
  <2> QED
    BY <2>1, InvParts
<1>6. s \in ServerRecord /\ Good(s, sends \cup {c}) /\ SameRoutes(srv, s) /\ SameTasks(srv, s)
  BY <1>3, <1>4, <1>5, InvParts, LowGood
<1>7. /\ c \in DOMAIN s.conn_addr /\ s.conn_addr[c] = a
      /\ srv' = _enqueue_connection_events(_refresh_dcid_index(s, c), s.conn_addr[c], c)
  BY <1>2, <1>3, <1>6 DEF SameRoutes, With
<1> HIDE DEF s
<1>8. Staged(s, stopping)
  BY <1>3, <1>6, InvParts, NotStopped, StagedKept
<1> QED
  BY <1>1, <1>6, <1>7, <1>8, Delivered

LEMMA InvMigrates ==
    ASSUME TypeOK, Inv, NEW a \in Addr, NEW x \in DOMAIN srv.dcid_index, Migrates(a, x)
    PROVE  TypeOK' /\ Inv'
<1> DEFINE c == srv.dcid_index[x]
<1>1. /\ Receiving /\ Handled /\ UNCHANGED <<running, sends, stopping>>
      /\ a \notin DOMAIN srv.connections
  BY DEF Migrates
<1>2. PICK l \in Accepted(c, srv.low[c]) :
         srv' = _enqueue_connection_events(
                    _refresh_dcid_index(moved([srv EXCEPT !.low[c] = l], c, a), c), a, c)
  BY DEF Migrates
<1>3. c \in DOMAIN srv.conn_addr /\ c \in Conn
  BY InvParts, Domains DEF Mirrored, Listed
<1> HIDE DEF c
<1>4. LowStep(c, srv.low[c], l)
  BY <1>2, <1>3, InvParts, OwnLow, AcceptedLow
<1> DEFINE s == With(srv, c, l)
           t == moved(s, c, a)
<1>5. Good(srv, sends)
  <2>1. sends \cup Sending = sends
    BY <1>1, NotSending DEF Receiving
  <2> QED
    BY <2>1, InvParts
<1>6. s \in ServerRecord /\ Good(s, sends \cup {c}) /\ SameRoutes(srv, s) /\ SameTasks(srv, s)
  BY <1>3, <1>4, <1>5, InvParts, LowGood
<1>7. c \in DOMAIN s.conn_addr /\ a \notin DOMAIN s.connections
  BY <1>1, <1>3, <1>6 DEF SameRoutes
<1>8. srv' = _enqueue_connection_events(_refresh_dcid_index(t, c), a, c)
  BY <1>2 DEF With
<1> HIDE DEF s
<1>9. /\ t \in ServerRecord /\ Good(t, sends \cup {c}) /\ SameTasks(s, t)
      /\ c \in DOMAIN t.conn_addr /\ t.conn_addr[c] = a
  BY <1>6, <1>7, MovedGood
<1> HIDE DEF t
<1>10. Staged(t, stopping)
  BY <1>3, <1>6, <1>9, InvParts, NotStopped, StagedKept
<1> QED
  BY <1>1, <1>8, <1>9, <1>10, Delivered

LEMMA InvEndsFromAfar ==
    ASSUME TypeOK, Inv, NEW a \in Addr, NEW x \in DOMAIN srv.dcid_index, EndsFromAfar(a, x)
    PROVE  TypeOK' /\ Inv'
<1> DEFINE c == srv.dcid_index[x]
<1>1. /\ Receiving /\ UNCHANGED <<running, sends, stopping>>
      /\ loop' = [at |-> IF running THEN "batch" ELSE "ended"]
  BY DEF EndsFromAfar
<1>2. PICK l \in Closing(srv.low[c]) :
         srv' = _enqueue_connection_events([srv EXCEPT !.low[c] = l], end_addr(srv, c, a), c)
  BY DEF EndsFromAfar
<1>3. c \in DOMAIN srv.conn_addr /\ c \in Conn
  BY InvParts, Domains DEF Mirrored, Listed
<1> HIDE DEF c
<1>4. LowStep(c, srv.low[c], l) /\ l.cids = srv.low[c].cids
  BY <1>2, <1>3, InvParts, OwnLow, ClosingLow
<1> DEFINE s == With(srv, c, l)
<1>5. Good(srv, sends)
  <2>1. sends \cup Sending = sends
    BY <1>1, NotSending DEF Receiving
  <2> QED
    BY <2>1, InvParts
<1>6. s \in ServerRecord /\ Good(s, sends) /\ SameRoutes(srv, s) /\ SameTasks(srv, s)
  BY <1>3, <1>4, <1>5, InvParts, LowGood
<1>7. c \in DOMAIN s.conn_addr /\ end_addr(srv, c, a) = s.conn_addr[c]
  BY <1>3, <1>6 DEF SameRoutes, end_addr
<1>8. srv' = _enqueue_connection_events(s, s.conn_addr[c], c)
  BY <1>2, <1>7 DEF With
<1> HIDE DEF s
<1>9. Staged(s, stopping)
  BY <1>3, <1>6, InvParts, NotStopped, StagedKept
<1>10. srv' \in ServerRecord /\ Good(srv', sends) /\ Staged(srv', stopping)
  BY <1>6, <1>7, <1>8, <1>9, InvParts, EnqueueGood
<1>11. \E y \in {"wait", "batch", "ended"} : loop' = [at |-> y]
  BY <1>1
<1> QED
  BY <1>1, <1>10, <1>11, Handles
(* A connection that has just been made.                                   *)
LEMMA NewbornLow ==
    ASSUME NEW c \in Conn, NEW l \in {Newborn(c), Ended(Newborn(c))}
    PROVE  /\ l \in Low /\ Own(c, l) /\ l.by # "unborn" /\ OneEnd(l.events)
           /\ l.by # "peer" => ~EndIn(l.events)
<1> DEFINE n == Newborn(c)
<1>1. Unborn \in Low /\ Unborn.events = <<>>
  <2>1. <<>> \in Seq(Event) /\ {} \in SUBSET Id
    OBVIOUS
  <2> QED
    BY <2>1 DEF Unborn, Low
<1>2. n \in Low /\ Own(c, n) /\ n.by = "nobody" /\ n.events = <<>>
  <2> DEFINE ids == {<<c, 0>>}
  <2>1. ids \in SUBSET Id /\ \A x \in ids : x[1] = c
    <3>1. <<c, 0>>[1] = c
      OBVIOUS
    <3>2. <<c, 0>> \in Id
      BY DEF Id
    <3> QED
      BY <3>1, <3>2, Zenon
  <2>2. n = [Unborn EXCEPT !.by = "nobody", !.cids = ids]
    BY DEF Newborn, Cid
  <2> HIDE DEF ids, n
  <2>3. n \in Low /\ n.by = "nobody" /\ n.events = <<>> /\ n.cids = ids
    BY <1>1, <2>1, <2>2 DEF Low
  <2> QED
    BY <2>1, <2>3 DEF Own
<1>3. ~EndIn(n.events) /\ OneEnd(n.events)
  BY <1>2 DEF EndIn, OneEnd
<1> HIDE DEF n
<1>4. CASE l = n
  BY <1>2, <1>3, <1>4
<1>5. CASE l = Ended(n)
  <2>1. LowStep(c, n, l) /\ l.cids = n.cids
    BY <1>2, <1>5, EndedLow DEF is_closed
  <2>2. OneEnd(l.events) /\ (l.by # "peer" => ~EndIn(l.events))
    BY <1>2, <1>3, <2>1, LowEvents
  <2> QED
    BY <1>2, <2>1, <2>2 DEF LowStep, Own
<1> QED
  BY <1>4, <1>5 DEF n

(* _accept_connection before the index and the events are looked at.       *)
Joined(s, c, a, l) == [s EXCEPT !.low[c] = l, !.connections = Put(@, a, c),
                                !.conn_addr = Put(@, c, a), !.home[c] = a]

LEMMA JoinedFields ==
    ASSUME NEW s \in ServerRecord, NEW c \in Conn, NEW a \in Addr, NEW l \in Low,
           NEW u, u = Joined(s, c, a, l)
    PROVE  /\ u \in ServerRecord /\ SameTasks(s, u)
           /\ u.low = [s.low EXCEPT ![c] = l] /\ u.home = [s.home EXCEPT ![c] = a]
           /\ u.connections = Put(s.connections, a, c) /\ u.conn_addr = Put(s.conn_addr, c, a)
           /\ u.dcid_index = s.dcid_index /\ u.conn_dcids = s.conn_dcids
           /\ u.behind = s.behind
<1> DEFINE w == [s.low EXCEPT ![c] = l]
           ho == [s.home EXCEPT ![c] = a]
           cs == Put(s.connections, a, c)
           ca == Put(s.conn_addr, c, a)
<1>1. w \in [Conn -> Low] /\ ho \in [Conn -> Addr \cup {None}]
  BY FieldTypes
<1>2. cs \in Partial(Addr, Conn) /\ ca \in Partial(Conn, Addr)
  BY FieldTypes, PutType
<1>3. u = [s EXCEPT !.low = w, !.connections = cs, !.conn_addr = ca, !.home = ho]
  BY DEF Joined
<1> HIDE DEF w, ho, cs, ca
<1>4. /\ u \in ServerRecord /\ SameTasks(s, u)
      /\ u.low = w /\ u.home = ho /\ u.connections = cs /\ u.conn_addr = ca
      /\ u.dcid_index = s.dcid_index /\ u.conn_dcids = s.conn_dcids
      /\ u.behind = s.behind
  BY <1>1, <1>2, <1>3 DEF ServerRecord, SameTasks
<1> QED
  BY <1>4 DEF w, ho, cs, ca

LEMMA JoinedGood ==
    ASSUME NEW s \in ServerRecord, NEW S, Good(s, S), NEW c \in Conn, s.low[c].by = "unborn",
           NEW a \in Addr, a \notin DOMAIN s.connections,
           NEW l \in {Newborn(c), Ended(Newborn(c))},
           NEW u, u = _refresh_dcid_index(Joined(s, c, a, l), c)
    PROVE  /\ u \in ServerRecord /\ Good(u, S) /\ SameTasks(s, u)
           /\ c \in DOMAIN u.conn_addr /\ u.conn_addr[c] = a
<1> DEFINE t == Joined(s, c, a, l)
<1>1. /\ l \in Low /\ Own(c, l) /\ l.by # "unborn" /\ OneEnd(l.events)
      /\ l.by # "peer" => ~EndIn(l.events)
  BY NewbornLow
<1>2. /\ t \in ServerRecord /\ SameTasks(s, t)
      /\ t.low = [s.low EXCEPT ![c] = l] /\ t.home = [s.home EXCEPT ![c] = a]
      /\ t.connections = Put(s.connections, a, c) /\ t.conn_addr = Put(s.conn_addr, c, a)
      /\ t.dcid_index = s.dcid_index /\ t.conn_dcids = s.conn_dcids
      /\ t.behind = s.behind
  BY <1>1, JoinedFields
<1>3. u = _refresh_dcid_index(t, c)
  OBVIOUS
<1> HIDE DEF t
<1>4. /\ t.low[c] = l /\ t.home[c] = a
      /\ \A e \in Conn \ {c} : t.low[e] = s.low[e] /\ t.home[e] = s.home[e]
  BY <1>2, FieldTypes
<1>5. /\ DOMAIN t.connections = DOMAIN s.connections \cup {a} /\ t.connections[a] = c
      /\ \A b \in DOMAIN s.connections \ {a} : t.connections[b] = s.connections[b]
      /\ DOMAIN t.conn_addr = DOMAIN s.conn_addr \cup {c} /\ t.conn_addr[c] = a
      /\ \A e \in DOMAIN s.conn_addr \ {c} : t.conn_addr[e] = s.conn_addr[e]
  BY <1>2 DEF Put, PutAll
<1>6. /\ Routes(s) /\ c \notin DOMAIN s.conn_addr /\ DOMAIN s.conn_addr \subseteq Conn
  BY Domains DEF Good, Routes
<1>7. Routes(t)
  <2>1. \A b \in DOMAIN t.connections :
          t.connections[b] \in DOMAIN t.conn_addr /\ t.conn_addr[t.connections[b]] = b
    BY <1>5, <1>6 DEF Routes
  <2>2. \A e \in DOMAIN t.conn_addr :
          t.conn_addr[e] \in DOMAIN t.connections /\ t.connections[t.conn_addr[e]] = e
    BY <1>5, <1>6 DEF Routes
  <2>3. \A e \in DOMAIN t.conn_addr : t.home[e] = t.conn_addr[e] /\ t.low[e].by # "unborn"
    BY <1>1, <1>4, <1>5, <1>6 DEF Routes
  <2> QED
    BY <2>1, <2>2, <2>3 DEF Routes
<1>8. Mirrored(t)
  <2>1. \A e \in Conn : \A x \in t.low[e].cids : x[1] = e
    BY <1>1, <1>4 DEF Good, Mirrored, Own
  <2> QED
    BY <1>2, <2>1 DEF Good, Mirrored
<1>9. DOMAIN t.conn_dcids \cup {c} = DOMAIN t.conn_addr
  BY <1>2, <1>5 DEF Good, Listed
<1>10. Fresh(t, S \cup {c})
  BY <1>2, <1>4, <1>5, <1>6 DEF Good, Fresh
<1>11. u = refresh_dcid_index(t, c)
  BY <1>3, <1>5 DEF _refresh_dcid_index
<1>12. Mirrored(u) /\ Listed(u) /\ Fresh(u, S)
  BY <1>2, <1>5, <1>8, <1>9, <1>10, <1>11, RefreshIndex
<1>13. /\ u \in ServerRecord /\ SameTasks(t, u) /\ u.connections = t.connections
       /\ u.conn_addr = t.conn_addr /\ u.home = t.home /\ u.low = t.low
  BY <1>2, <1>11, RefreshSame
<1>14. Routes(u)
  BY <1>7, <1>13 DEF Routes
<1>15. SameTasks(s, u)
  BY <1>2, <1>13 DEF SameTasks
<1>16. ASSUME NEW e \in Conn PROVE Told(u, e) /\ Unlisted(u, e)
  <2>1. CASE e # c
    <3>1. Told(s, e) /\ Unlisted(s, e)
      BY DEF Good
    <3>2. /\ u.low[e] = s.low[e] /\ u.home[e] = s.home[e]
          /\ e \in DOMAIN u.conn_addr => e \in DOMAIN s.conn_addr
      BY <1>4, <1>5, <1>13, <2>1
    <3> QED
      BY <1>15, <3>1, <3>2, ToldKept, UnlistedKept
  <2>2. CASE e = c
    <3>1. Told(s, c) /\ s.told[c] = 0 /\ ~EndInQueue(s, c)
      BY DEF Good, Told
    <3>2. /\ u.told[c] = 0 /\ ~EndInQueue(u, c) /\ u.low[c] = l
          /\ u.queues = s.queues /\ u.callback = s.callback
      BY <1>4, <1>13, <1>15, <3>1 DEF SameTasks, EndInQueue
    <3>3. c \in DOMAIN u.queues => OneFrom(u.queues[c], u.home[c])
      BY <3>2 DEF EndInQueue, EndOf, OneFrom
    <3>4. ~(c \in DOMAIN u.callback /\ u.callback[c].event = "closed")
      BY <3>1, <3>2 DEF Told
    <3>5. Told(u, c)
      BY <1>1, <3>2, <3>3, <3>4 DEF Told
    <3>6. Unlisted(u, c)
      BY <3>2 DEF Unlisted
    <3> QED
      BY <2>2, <3>5, <3>6
  <2> QED
    BY <2>1, <2>2
<1> QED
  BY <1>5, <1>12, <1>13, <1>14, <1>15, <1>16 DEF Good

LEMMA InvAccept ==
    ASSUME TypeOK, Inv, NEW a \in Addr, NEW c \in Conn, Accept(a, c)
    PROVE  TypeOK' /\ Inv'
<1>1. /\ Receiving /\ Handled /\ running /\ UNCHANGED <<running, sends, stopping>>
      /\ a \notin DOMAIN srv.connections /\ srv.low[c] = Unborn
  BY DEF Accept
<1>2. PICK l \in {Newborn(c), Ended(Newborn(c))} :
         srv' = _enqueue_connection_events(
                    _refresh_dcid_index(Joined(srv, c, a, l), c), a, c)
  BY DEF Accept, Joined
<1> DEFINE u == _refresh_dcid_index(Joined(srv, c, a, l), c)
<1>3. Good(srv, sends)
  <2>1. sends \cup Sending = sends
    BY <1>1, NotSending DEF Receiving
  <2> QED
    BY <2>1, InvParts
<1>4. srv.low[c].by = "unborn" /\ stopping.at # "stopped"
  BY <1>1, InvParts DEF Unborn
<1>5. /\ u \in ServerRecord /\ Good(u, sends) /\ SameTasks(srv, u)
      /\ c \in DOMAIN u.conn_addr /\ u.conn_addr[c] = a
  BY <1>1, <1>3, <1>4, InvParts, JoinedGood
<1>6. srv' = _enqueue_connection_events(u, u.conn_addr[c], c)
  BY <1>2, <1>5
<1> HIDE DEF u
<1>7. Staged(u, stopping)
  BY <1>4, <1>5, InvParts, StagedKept
<1>8. srv' \in ServerRecord /\ Good(srv', sends) /\ Staged(srv', stopping)
  BY <1>5, <1>6, <1>7, InvParts, EnqueueGood
<1> QED
  BY <1>1, <1>8, Handles DEF Handled

LEMMA InvDiscarded ==
    ASSUME TypeOK, Inv, Discarded
    PROVE  TypeOK' /\ Inv'
<1>1. /\ Receiving /\ UNCHANGED <<running, sends, stopping>> /\ srv' = srv
      /\ loop' = [at |-> IF running THEN "batch" ELSE "ended"]
  BY DEF Discarded
<1>2. sends \cup Sending = sends
  BY <1>1, NotSending DEF Receiving
<1>3. srv' \in ServerRecord /\ Good(srv', sends) /\ Staged(srv', stopping)
  BY <1>1, <1>2, InvParts
<1>4. \E y \in {"wait", "batch", "ended"} : loop' = [at |-> y]
  BY <1>1
<1> QED
  BY <1>1, <1>3, <1>4, Handles

-----------------------------------------------------------------------------
(* The pass.                                                               *)

(* The step changes the record of the server, and run() goes on with its   *)
(* pass.                                                                   *)
LEMMA Passes ==
    ASSUME TypeOK, Inv, UNCHANGED <<running, sends, stopping>>,
           NEW D \in SUBSET Conn, loop' = [at |-> "pass", todo |-> D],
           srv' \in ServerRecord, Good(srv', sends), Staged(srv', stopping)
    PROVE  TypeOK' /\ Inv'
<1>1. loop' \in LoopState /\ Sending' = {}
  BY DEF LoopState, Sending
<1>2. sends' \cup Sending' = sends
  BY <1>1
<1> QED
  BY <1>1, <1>2, Settled, InvParts DEF TypeOK

(* The record of run() in a pass and while it waits for a send.            *)
LEMMA LoopFields ==
    ASSUME TypeOK
    PROVE  /\ loop.at = "pass" =>
                 loop.todo \in SUBSET Conn /\ loop = [at |-> "pass", todo |-> loop.todo]
           /\ loop.at = "sending" => loop.c \in Conn /\ loop.todo \in SUBSET Conn
  BY DEF TypeOK, LoopState

LEMMA InvStartPass ==
    ASSUME TypeOK, Inv, StartPass
    PROVE  TypeOK' /\ Inv'
<1>1. /\ Receiving /\ UNCHANGED <<running, sends, stopping>> /\ srv' = srv
      /\ loop' = [at |-> "pass", todo |-> DOMAIN srv.conn_addr]
  BY DEF StartPass
<1>2. sends \cup Sending = sends
  BY <1>1, NotSending DEF Receiving
<1>3. srv' \in ServerRecord /\ Good(srv', sends) /\ Staged(srv', stopping)
  BY <1>1, <1>2, InvParts
<1>4. DOMAIN srv.conn_addr \in SUBSET Conn
  BY InvParts, Domains
<1> QED
  BY <1>1, <1>3, <1>4, Passes

LEMMA InvPassDone ==
    ASSUME TypeOK, Inv, PassDone
    PROVE  TypeOK' /\ Inv'
<1>1. /\ loop.at = "pass" /\ UNCHANGED <<running, sends, stopping>> /\ srv' = srv
      /\ loop' = [at |-> IF running THEN "wait" ELSE "ended"]
  BY DEF PassDone
<1>2. sends \cup Sending = sends
  BY <1>1, NotSending
<1>3. srv' \in ServerRecord /\ Good(srv', sends) /\ Staged(srv', stopping)
  BY <1>1, <1>2, InvParts
<1>4. \E y \in {"wait", "batch", "ended"} : loop' = [at |-> y]
  BY <1>1
<1> QED
  BY <1>1, <1>3, <1>4, Handles

LEMMA InvTurn ==
    ASSUME TypeOK, Inv, NEW c \in Conn, Turn(c)
    PROVE  TypeOK' /\ Inv'
<1> DEFINE D == loop.todo \ {c}
<1>1. loop.at = "pass" /\ UNCHANGED <<running, sends, stopping>>
  BY DEF Turn
<1>2. Good(srv, sends)
  <2>1. sends \cup Sending = sends
    BY <1>1, NotSending
  <2> QED
    BY <2>1, InvParts
<1>3. D \in SUBSET Conn /\ [loop EXCEPT !.todo = @ \ {c}] = [at |-> "pass", todo |-> D]
  BY <1>1, LoopFields
<1>4. CASE c \notin DOMAIN srv.conn_addr
  <2>1. srv' = srv /\ loop' = [at |-> "pass", todo |-> D]
    BY <1>3, <1>4 DEF Turn
  <2> QED
    BY <1>1, <1>2, <1>3, <2>1, InvParts, Passes
<1>5. CASE c \in DOMAIN srv.conn_addr
  <2>0. PICK l \in MayEnd(srv.low[c]) : \E m \in Sent(c, l) :
           \/ /\ srv' = after_send(With(srv, c, m), c)
              /\ loop' = [loop EXCEPT !.todo = @ \ {c}]
           \/ /\ srv' = With(srv, c, m)
              /\ loop' = [at |-> "sending", c |-> c, todo |-> D]
    BY <1>5 DEF Turn, With
  <2>1. PICK m \in Sent(c, l) :
           \/ /\ srv' = after_send(With(srv, c, m), c)
              /\ loop' = [loop EXCEPT !.todo = @ \ {c}]
           \/ /\ srv' = With(srv, c, m)
              /\ loop' = [at |-> "sending", c |-> c, todo |-> D]
    BY <2>0
  <2>2. LowStep(c, srv.low[c], m)
    BY <2>0, <2>1, InvParts, OwnLow, SentLow
  <2> DEFINE s == With(srv, c, m)
  <2>3. s \in ServerRecord /\ Good(s, sends \cup {c}) /\ SameTasks(srv, s)
    BY <1>2, <2>2, InvParts, LowGood
  <2> HIDE DEF s
  <2>4. Staged(s, stopping)
    BY <1>5, <2>3, InvParts, NotStopped, StagedKept
  <2>5. CASE srv' = after_send(s, c) /\ loop' = [loop EXCEPT !.todo = @ \ {c}]
    <3>1. srv' \in ServerRecord /\ Good(srv', sends) /\ Staged(srv', stopping)
      BY <2>3, <2>4, <2>5, InvParts, AfterSendGood
    <3> QED
      BY <1>1, <1>3, <2>5, <3>1, Passes
  <2>6. CASE srv' = s /\ loop' = [at |-> "sending", c |-> c, todo |-> D]
    <3>1. loop' \in LoopState /\ Sending' = {c}
      BY <1>3, <2>6 DEF LoopState, Sending
    <3>2. sends' \cup Sending' = sends \cup {c}
      BY <1>1, <3>1
    <3> QED
      BY <1>1, <2>3, <2>4, <2>6, <3>1, <3>2, InvParts, Settled DEF TypeOK
  <2> QED
    BY <2>1, <2>5, <2>6 DEF s
<1> QED
  BY <1>4, <1>5

LEMMA InvTurnSent ==
    ASSUME TypeOK, Inv, TurnSent
    PROVE  TypeOK' /\ Inv'
<1>1. /\ loop.at = "sending" /\ UNCHANGED <<running, sends, stopping>>
      /\ srv' = after_send(srv, loop.c) /\ loop' = [at |-> "pass", todo |-> loop.todo]
  BY DEF TurnSent
<1>2. loop.c \in Conn /\ loop.todo \in SUBSET Conn
  BY <1>1, LoopFields
<1>3. Good(srv, sends \cup {loop.c})
  BY <1>1, InvParts DEF Sending
<1>4. srv' \in ServerRecord /\ Good(srv', sends) /\ Staged(srv', stopping)
  BY <1>1, <1>2, <1>3, InvParts, AfterSendGood
<1> QED
  BY <1>1, <1>2, <1>4, Passes

(* A send that failed: the index may miss ids of its connection.           *)
LEMMA BehindGood ==
    ASSUME NEW s \in ServerRecord, NEW c \in Conn, NEW S, Good(s, S \cup {c}),
           NEW st, Staged(s, st), NEW u, u = [s EXCEPT !.behind = @ \cup {c}]
    PROVE  u \in ServerRecord /\ Good(u, S) /\ Staged(u, st)
<1>1. /\ u \in ServerRecord /\ SameTasks(s, u) /\ u.low = s.low
      /\ u.connections = s.connections /\ u.conn_addr = s.conn_addr
      /\ u.dcid_index = s.dcid_index /\ u.conn_dcids = s.conn_dcids /\ u.home = s.home
      /\ u.behind = s.behind \cup {c}
  <2> DEFINE b == s.behind \cup {c}
  <2>1. b \in SUBSET Conn
    BY FieldTypes
  <2>2. u = [s EXCEPT !.behind = b]
    OBVIOUS
  <2> HIDE DEF b
  <2>3. /\ u \in ServerRecord /\ SameTasks(s, u) /\ u.low = s.low
        /\ u.connections = s.connections /\ u.conn_addr = s.conn_addr
        /\ u.dcid_index = s.dcid_index /\ u.conn_dcids = s.conn_dcids /\ u.home = s.home
        /\ u.behind = b
    BY <2>1, <2>2 DEF ServerRecord, SameTasks
  <2> QED
    BY <2>3 DEF b
<1>2. Routes(u) /\ Mirrored(u) /\ Listed(u)
  BY <1>1 DEF Good, Routes, Mirrored, Listed
<1>3. Fresh(u, S)
  BY <1>1 DEF Good, Fresh
<1>4. \A e \in Conn : Told(u, e) /\ Unlisted(u, e)
  BY <1>1, ToldKept, UnlistedKept DEF Good
<1>5. Staged(u, st)
  BY <1>1 DEF Staged, Tasked, SameTasks
<1> QED
  BY <1>1, <1>2, <1>3, <1>4, <1>5 DEF Good

LEMMA InvTurnFails ==
    ASSUME TypeOK, Inv, TurnFails
    PROVE  TypeOK' /\ Inv'
<1>1. /\ loop.at = "sending" /\ UNCHANGED <<running, sends, stopping>>
      /\ srv' = [srv EXCEPT !.behind = @ \cup {loop.c}]
      /\ loop' = [at |-> "pass", todo |-> loop.todo]
  BY DEF TurnFails
<1>2. loop.c \in Conn /\ loop.todo \in SUBSET Conn
  BY <1>1, LoopFields
<1>3. Good(srv, sends \cup {loop.c})
  BY <1>1, InvParts DEF Sending
<1>4. srv' \in ServerRecord /\ Good(srv', sends) /\ Staged(srv', stopping)
  BY <1>1, <1>2, <1>3, InvParts, BehindGood
<1> QED
  BY <1>1, <1>2, <1>4, Passes

-----------------------------------------------------------------------------
(* Calls of the application.                                               *)

(* run() stays where it is, and stop() too.                                *)
LEMMA Calls ==
    ASSUME TypeOK, Inv, UNCHANGED <<running, loop, stopping>>, sends' \subseteq Conn,
           srv' \in ServerRecord, Good(srv', sends' \cup Sending), Staged(srv', stopping)
    PROVE  TypeOK' /\ Inv'
<1>1. Sending' = Sending
  BY DEF Sending
<1>2. loop' \in LoopState /\ running' \in BOOLEAN /\ stopping' \in StopState
  BY DEF TypeOK
<1>3. Good(srv', sends' \cup Sending') /\ Staged(srv', stopping')
  BY <1>1
<1>4. running' <=> stopping'.at = "no"
  BY InvParts
<1> QED
  BY <1>2, <1>3, <1>4, Settled

LEMMA StagedSame ==
    ASSUME NEW s, NEW u, NEW st, Staged(s, st), SameTasks(s, u), SameRoutes(s, u)
    PROVE  Staged(u, st)
  BY DEF Staged, Tasked, SameTasks, SameRoutes

(* Which tasks have failed matters to nothing else.                        *)
Noted(s, R, F) == [s EXCEPT !.raised = R, !.failed = F]

LEMMA FailedGood ==
    ASSUME NEW s \in ServerRecord, NEW R \in SUBSET Conn, NEW F \in SUBSET Conn,
           NEW S, Good(s, S), NEW u, u = Noted(s, R, F)
    PROVE  u \in ServerRecord /\ Good(u, S) /\ SameTasks(s, u) /\ SameRoutes(s, u)
<1>1. u \in ServerRecord /\ SameTasks(s, u) /\ SameRoutes(s, u) /\ u.low = s.low
  BY DEF ServerRecord, SameTasks, SameRoutes, Noted
<1>2. Routes(u) /\ Mirrored(u) /\ Listed(u) /\ Fresh(u, S)
  BY <1>1 DEF Good, SameRoutes, Routes, Mirrored, Listed, Fresh
<1>3. \A e \in Conn : Told(u, e) /\ Unlisted(u, e)
  BY <1>1, ToldKept, UnlistedKept DEF Good, SameRoutes
<1> QED
  BY <1>1, <1>2, <1>3 DEF Good

LEMMA Inv_on_connection_task_done ==
    ASSUME TypeOK, Inv, NEW c \in Conn, _on_connection_task_done(c)
    PROVE  TypeOK' /\ Inv'
<1> DEFINE m == closed(srv.low[c])
           F == srv.failed \ {c}
           R == srv.raised
           s == With(srv, c, m)
<1>1. UNCHANGED <<running, loop, sends, stopping>>
  BY DEF _on_connection_task_done
<1>2. srv' = Noted(s, R, F)
  <2>1. srv' = [s EXCEPT !.failed = F]
    BY DEF _on_connection_task_done, With
  <2>2. s.raised = R /\ s = [x \in DOMAIN s |-> s[x]]
    BY InvParts DEF ServerRecord, With
  <2> HIDE DEF s, F, R
  <2> QED
    BY <2>1, <2>2 DEF Noted
<1>3. LowStep(c, srv.low[c], m) /\ m.cids = srv.low[c].cids
  BY InvParts, OwnLow, ClosedLow
<1>4. F \in SUBSET Conn /\ R \in SUBSET Conn
  BY InvParts DEF ServerRecord
<1> HIDE DEF m, F, R
<1>5. /\ s \in ServerRecord /\ Good(s, sends \cup Sending)
      /\ SameRoutes(srv, s) /\ SameTasks(srv, s)
  BY <1>3, InvParts, LowGood
<1> HIDE DEF s
<1>6. /\ srv' \in ServerRecord /\ Good(srv', sends \cup Sending)
      /\ SameTasks(s, srv') /\ SameRoutes(s, srv')
  BY <1>2, <1>4, <1>5, FailedGood
<1>7. Staged(s, stopping)
  BY <1>5, InvParts, StagedSame
<1>8. Staged(srv', stopping)
  BY <1>6, <1>7, StagedSame
<1> QED
  BY <1>1, <1>6, <1>8, Calls DEF TypeOK

LEMMA InvSend ==
    ASSUME TypeOK, Inv, NEW a \in Addr, Send(a)
    PROVE  TypeOK' /\ Inv'
<1> DEFINE c == srv.connections[a]
<1>1. /\ UNCHANGED <<running, loop, stopping>> /\ a \in DOMAIN srv.connections
      /\ sends' = sends \cup {c}
  BY DEF Send
<1>2. PICK l \in MayEnd(srv.low[c]) : \E m \in Sent(c, l) : srv' = With(srv, c, m)
  BY DEF Send, With
<1>3. PICK m \in Sent(c, l) : srv' = With(srv, c, m)
  BY <1>2
<1>4. c \in Conn
  BY <1>1, InvParts, Domains
<1> HIDE DEF c
<1>5. LowStep(c, srv.low[c], m)
  BY <1>2, <1>3, <1>4, InvParts, OwnLow, SentLow
<1> DEFINE S == sends \cup Sending
           T == sends' \cup Sending
<1>6. S \subseteq T /\ c \in T /\ sends' \subseteq Conn
  BY <1>1, <1>4 DEF TypeOK
<1>7. Good(srv, S)
  BY InvParts
<1> HIDE DEF S, T
<1>8. srv' \in ServerRecord /\ Good(srv', T) /\ SameRoutes(srv, srv') /\ SameTasks(srv, srv')
  BY <1>3, <1>4, <1>5, <1>6, <1>7, InvParts, LowGood
<1>9. Staged(srv', stopping)
  BY <1>8, InvParts, StagedSame
<1> QED
  BY <1>1, <1>6, <1>8, <1>9, Calls DEF T

LEMMA Invclose ==
    ASSUME TypeOK, Inv, NEW a \in Addr, close(a)
    PROVE  TypeOK' /\ Inv'
<1> DEFINE c == srv.connections[a]
           m == closed(srv.low[c])
<1>1. /\ UNCHANGED <<running, loop, stopping>> /\ a \in DOMAIN srv.connections
      /\ sends' = sends \cup {c}
  BY DEF close
<1>2. srv' = With(srv, c, m)
  BY DEF close, With
<1>3. c \in Conn
  BY <1>1, InvParts, Domains
<1> HIDE DEF c
<1>4. LowStep(c, srv.low[c], m)
  BY <1>3, InvParts, OwnLow, ClosedLow
<1> DEFINE S == sends \cup Sending
           T == sends' \cup Sending
<1>5. S \subseteq T /\ c \in T /\ sends' \subseteq Conn
  BY <1>1, <1>3 DEF TypeOK
<1>6. Good(srv, S)
  BY InvParts
<1> HIDE DEF S, T, m
<1>7. srv' \in ServerRecord /\ Good(srv', T) /\ SameRoutes(srv, srv') /\ SameTasks(srv, srv')
  BY <1>2, <1>3, <1>4, <1>5, <1>6, InvParts, LowGood
<1>8. Staged(srv', stopping)
  BY <1>7, InvParts, StagedSame
<1> QED
  BY <1>1, <1>5, <1>7, <1>8, Calls DEF T

LEMMA InvSendDone ==
    ASSUME TypeOK, Inv, NEW c \in Conn, SendDone(c)
    PROVE  TypeOK' /\ Inv'
<1> DEFINE S == (sends \ {c}) \cup Sending
<1>1. /\ UNCHANGED <<running, loop, stopping>> /\ c \in sends /\ sends' = sends \ {c}
      /\ srv' = _refresh_dcid_index(srv, c)
  BY DEF SendDone
<1>2. Good(srv, S \cup {c})
  <2>1. S \cup {c} = sends \cup Sending
    BY <1>1
  <2> QED
    BY <2>1, InvParts
<1>3. S = sends' \cup Sending /\ sends' \subseteq Conn
  BY <1>1 DEF TypeOK
<1> HIDE DEF S
<1>4. srv' \in ServerRecord /\ Good(srv', S) /\ SameTasks(srv, srv')
  BY <1>1, <1>2, InvParts, RefreshGood
<1>5. Staged(srv', stopping)
  <2>1. CASE stopping.at = "stopped"
    <3>1. c \notin DOMAIN srv.conn_addr
      BY <2>1, InvParts, NotStopped
    <3>2. srv' = srv
      BY <1>1, <3>1 DEF _refresh_dcid_index
    <3> QED
      BY <3>2, InvParts
  <2>2. CASE stopping.at # "stopped"
    BY <1>4, <2>2, InvParts, StagedKept
  <2> QED
    BY <2>1, <2>2
<1> QED
  BY <1>1, <1>3, <1>4, <1>5, Calls

LEMMA InvSendFails ==
    ASSUME TypeOK, Inv, NEW c \in Conn, SendFails(c)
    PROVE  TypeOK' /\ Inv'
<1> DEFINE S == (sends \ {c}) \cup Sending
<1>1. /\ UNCHANGED <<running, loop, stopping>> /\ c \in sends /\ sends' = sends \ {c}
      /\ srv' = [srv EXCEPT !.behind = @ \cup {c}]
  BY DEF SendFails
<1>2. Good(srv, S \cup {c})
  <2>1. S \cup {c} = sends \cup Sending
    BY <1>1
  <2> QED
    BY <2>1, InvParts
<1>3. S = sends' \cup Sending /\ sends' \subseteq Conn
  BY <1>1 DEF TypeOK
<1> HIDE DEF S
<1>4. srv' \in ServerRecord /\ Good(srv', S) /\ Staged(srv', stopping)
  BY <1>1, <1>2, InvParts, BehindGood
<1> QED
  BY <1>1, <1>3, <1>4, Calls

-----------------------------------------------------------------------------
(* The tasks.                                                              *)

(* The first item of a queue is taken.                                     *)
LEMMA TailEnd ==
    ASSUME NEW q \in Seq(Item), q # <<>>, NEW a, OneFrom(q, a)
    PROVE  /\ Head(q) \in Item /\ Tail(q) \in Seq(Item)
           /\ OneFrom(Tail(q), a)
           /\ EndOf(Tail(q)) => EndOf(q)
           /\ Head(q).event = "closed" =>
                 EndOf(q) /\ ~EndOf(Tail(q)) /\ Head(q).addr = a
<1> DEFINE t == Tail(q)
           h == Head(q)
<1>1. /\ h \in Item /\ t \in Seq(Item) /\ h = q[1] /\ 1 \in DOMAIN q
      /\ \A i \in DOMAIN t : i + 1 \in DOMAIN q /\ t[i] = q[i + 1] /\ i + 1 # 1 /\ i \in Int
  OBVIOUS
<1> HIDE DEF t, h
<1>2. EndOf(t) => EndOf(q)
  BY <1>1 DEF EndOf
<1>3. OneFrom(t, a)
  <2> SUFFICES ASSUME NEW i \in DOMAIN t, NEW j \in DOMAIN t, t[i].event = "closed"
               PROVE  t[i].addr = a /\ (t[j].event = "closed" => i = j)
    BY DEF OneFrom
  <2>1. /\ i + 1 \in DOMAIN q /\ j + 1 \in DOMAIN q /\ t[i] = q[i + 1] /\ t[j] = q[j + 1]
        /\ i \in Int /\ j \in Int
    BY <1>1
  <2>2. q[i + 1].addr = a /\ (q[j + 1].event = "closed" => i + 1 = j + 1)
    BY <2>1 DEF OneFrom
  <2> QED
    BY <2>1, <2>2
<1>4. h.event = "closed" => EndOf(q) /\ h.addr = a
  BY <1>1 DEF EndOf, OneFrom
<1>5. h.event = "closed" => ~EndOf(t)
  BY <1>1 DEF EndOf, OneFrom
<1> QED
  BY <1>1, <1>2, <1>3, <1>4, <1>5 DEF t, h

(* A task takes the item i, which leaves r in its queue.                   *)
Taken(s, c, r, i, n) ==
    [s EXCEPT !.queues[c] = r, !.callbacks_running = @ \cup {c},
              !.callback = Put(@, c, i), !.told[c] = n]

LEMMA TakenFields ==
    ASSUME NEW s \in ServerRecord, NEW c \in DOMAIN s.queues, NEW r \in Seq(Item),
           NEW i \in Item, NEW n \in Nat, NEW u, u = Taken(s, c, r, i, n)
    PROVE  /\ u \in ServerRecord /\ SameRoutes(s, u) /\ u.low = s.low
           /\ DOMAIN u.queues = DOMAIN s.queues /\ u.queues[c] = r
           /\ \A e \in DOMAIN s.queues \ {c} : u.queues[e] = s.queues[e]
           /\ DOMAIN u.callback = DOMAIN s.callback \cup {c} /\ u.callback[c] = i
           /\ \A e \in DOMAIN s.callback \ {c} : u.callback[e] = s.callback[e]
           /\ u.told[c] = n /\ \A e \in Conn \ {c} : u.told[e] = s.told[e]
           /\ u.callbacks_running = s.callbacks_running \cup {c}
           /\ u.tasks = s.tasks /\ u.cancelled = s.cancelled
<1> DEFINE qs == [s.queues EXCEPT ![c] = r]
           cr == s.callbacks_running \cup {c}
           cb == Put(s.callback, c, i)
           td == [s.told EXCEPT ![c] = n]
<1>1. c \in Conn
  BY Domains
<1>2. /\ qs \in Partial(Conn, Seq(Item))
      /\ DOMAIN qs = DOMAIN s.queues /\ qs[c] = r
      /\ \A e \in DOMAIN s.queues \ {c} : qs[e] = s.queues[e]
  BY FieldTypes, ExceptType
<1>3. cr \in SUBSET Conn
  BY <1>1, FieldTypes
<1>4. cb \in Partial(Conn, Item)
  BY <1>1, FieldTypes, PutType
<1>5. /\ DOMAIN cb = DOMAIN s.callback \cup {c} /\ cb[c] = i
      /\ \A e \in DOMAIN s.callback \ {c} : cb[e] = s.callback[e]
  BY DEF Put, PutAll
<1>6. td \in [Conn -> Nat] /\ td[c] = n /\ \A e \in Conn \ {c} : td[e] = s.told[e]
  BY <1>1, FieldTypes
<1>7. u = [s EXCEPT !.queues = qs, !.callbacks_running = cr, !.callback = cb, !.told = td]
  BY DEF Taken
<1> HIDE DEF qs, cr, cb, td
<1>8. /\ u \in ServerRecord /\ SameRoutes(s, u) /\ u.low = s.low
      /\ u.queues = qs /\ u.callback = cb /\ u.told = td /\ u.callbacks_running = cr
      /\ u.tasks = s.tasks /\ u.cancelled = s.cancelled
  BY <1>2, <1>3, <1>4, <1>6, <1>7, ZenonT(30) DEF ServerRecord, SameRoutes
<1> QED
  BY <1>2, <1>5, <1>6, <1>8 DEF cr

(* A task that can take an item belongs to a server that runs.             *)
LEMMA Runs ==
    ASSUME NEW s \in ServerRecord, NEW st \in StopState, Staged(s, st),
           NEW c \in DOMAIN s.tasks, s.tasks[c] = "live", c \notin DOMAIN s.callback,
           st.at = "tasks" => c \notin st.todo
    PROVE  st.at = "no" /\ Tasked(s) /\ c \in DOMAIN s.queues
<1>1. c \in Conn /\ c # None
  BY Domains, NoneAssumption
<1>2. st.at # "tasks"
  BY <1>1 DEF Staged
<1>3. st.at = "no"
  BY <1>2, EmptyFacts DEF Staged, StopState
<1> QED
  BY <1>3 DEF Staged, Tasked

LEMMA InvTaskTakes ==
    ASSUME TypeOK, Inv, NEW c \in Conn, TaskTakes(c)
    PROVE  TypeOK' /\ Inv'
<1> DEFINE q == srv.queues[c]
           addr == IF c \in DOMAIN srv.conn_addr THEN srv.conn_addr[c] ELSE Head(q).addr
           i == Queued(addr, Head(q).event)
           n == IF Head(q).event = "closed" THEN srv.told[c] + 1 ELSE srv.told[c]
           S == sends \cup Sending
<1>1. /\ UNCHANGED <<running, loop, sends, stopping>>
      /\ Get(srv.tasks, c) = "live" /\ c \notin DOMAIN srv.callback
      /\ stopping.at = "tasks" => c \notin stopping.todo
      /\ q # <<>>
  BY DEF TaskTakes, Cancelling
<1>2. srv' = Taken(srv, c, Tail(q), i, n)
  BY DEF TaskTakes, Taken
<1>3. c \in DOMAIN srv.tasks /\ srv.tasks[c] = "live"
  BY <1>1 DEF Get, None
<1>4. stopping.at = "no" /\ Tasked(srv) /\ c \in DOMAIN srv.queues
  BY <1>1, <1>3, InvParts, Runs
<1>5. /\ q \in Seq(Item) /\ Good(srv, S)
      /\ \A e \in Conn : Told(srv, e) /\ Unlisted(srv, e)
      /\ srv.told[c] \in Nat
  BY <1>4, InvParts, Domains, FieldTypes DEF Good
<1>6. OneFrom(q, srv.home[c])
  BY <1>4, <1>5 DEF Told
<1>7. /\ Head(q) \in Item /\ Tail(q) \in Seq(Item)
      /\ OneFrom(Tail(q), srv.home[c])
      /\ EndOf(Tail(q)) => EndOf(q)
      /\ Head(q).event = "closed" =>
            EndOf(q) /\ ~EndOf(Tail(q)) /\ Head(q).addr = srv.home[c]
  BY <1>1, <1>5, <1>6, TailEnd
<1>8. EndOf(q) => EndInQueue(srv, c)
  BY <1>4 DEF EndInQueue
<1>9. Head(q).event = "closed" =>
         /\ srv.low[c].by = "peer" /\ srv.told[c] = 0 /\ ~EndIn(srv.low[c].events)
         /\ c \notin DOMAIN srv.conn_addr
  <2> SUFFICES ASSUME Head(q).event = "closed", EndInQueue(srv, c)
               PROVE  /\ srv.low[c].by = "peer" /\ srv.told[c] = 0
                      /\ ~EndIn(srv.low[c].events) /\ c \notin DOMAIN srv.conn_addr
    BY <1>7, <1>8
  <2> HIDE DEF q
  <2>1. Told(srv, c) /\ Unlisted(srv, c)
    BY <1>5
  <2>2. srv.low[c].by = "peer" /\ ~EndIn(srv.low[c].events) /\ c \notin DOMAIN srv.conn_addr
    BY <2>1 DEF Told, Unlisted
  <2>3. srv.told[c] # 1 /\ srv.told[c] <= 1
    BY <2>1 DEF Told
  <2> QED
    BY <1>5, <2>2, <2>3
<1>10. n \in Nat /\ n <= 1 /\ (Head(q).event = "closed" => n = 1)
       /\ (Head(q).event # "closed" => n = srv.told[c])
  <2> HIDE DEF q
  <2>1. Told(srv, c)
    BY <1>5
  <2> QED
    BY <1>5, <1>9, <2>1 DEF Told
<1>11. /\ i \in Item /\ i.event = Head(q).event
       /\ i.event = "closed" => i.addr = srv.home[c]
  <2> HIDE DEF q
  <2>1. Head(q).event \in Event /\ Head(q).addr \in Addr
    BY <1>7 DEF Item
  <2>2. addr \in Addr
    BY <2>1, InvParts, Domains
  <2>3. Head(q).event = "closed" => addr = srv.home[c]
    BY <1>7, <1>9
  <2> HIDE DEF addr
  <2> QED
    BY <2>1, <2>2, <2>3 DEF Queued, Item
<1> DEFINE r == Tail(q)
           u == Taken(srv, c, r, i, n)
<1>12. r \in Seq(Item) /\ OneFrom(r, srv.home[c]) /\ (EndOf(r) => EndInQueue(srv, c))
       /\ (i.event = "closed" => ~EndOf(r))
  BY <1>7, <1>8, <1>11
<1>13. srv' = u
  BY <1>2
<1>14. i.event = "closed" =>
          /\ srv.low[c].by = "peer" /\ ~EndIn(srv.low[c].events)
          /\ c \notin DOMAIN srv.conn_addr /\ n = 1
  BY <1>9, <1>10, <1>11
<1>15. i.event # "closed" => n = srv.told[c]
  BY <1>10, <1>11
<1>16. n \in Nat /\ n <= 1
  BY <1>10
<1> HIDE DEF q, i, n, r, S
<1>17. /\ u \in ServerRecord /\ SameRoutes(srv, u) /\ u.low = srv.low
       /\ DOMAIN u.queues = DOMAIN srv.queues /\ u.queues[c] = r
       /\ \A e \in DOMAIN srv.queues \ {c} : u.queues[e] = srv.queues[e]
       /\ DOMAIN u.callback = DOMAIN srv.callback \cup {c} /\ u.callback[c] = i
       /\ \A e \in DOMAIN srv.callback \ {c} : u.callback[e] = srv.callback[e]
       /\ u.told[c] = n /\ \A e \in Conn \ {c} : u.told[e] = srv.told[e]
       /\ u.callbacks_running = srv.callbacks_running \cup {c}
       /\ u.tasks = srv.tasks /\ u.cancelled = srv.cancelled
  BY <1>4, <1>11, <1>12, <1>16, InvParts, TakenFields
<1> HIDE DEF u
<1>18. Routes(u) /\ Mirrored(u) /\ Listed(u) /\ Fresh(u, S)
  BY <1>5, <1>17 DEF Good, SameRoutes, Routes, Mirrored, Listed, Fresh
<1>19. ASSUME NEW e \in Conn PROVE Told(u, e) /\ Unlisted(u, e)
  <2>1. Told(srv, e) /\ Unlisted(srv, e) /\ u.home = srv.home /\ u.conn_addr = srv.conn_addr
    BY <1>5, <1>17 DEF SameRoutes
  <2>2. CASE e # c
    <3>1. EndInQueue(u, e) <=> EndInQueue(srv, e)
      BY <1>17, <2>2 DEF EndInQueue
    <3>2. u.told[e] = srv.told[e] /\ u.low = srv.low
      BY <1>17, <2>2
    <3>3. e \in DOMAIN u.queues => OneFrom(u.queues[e], u.home[e])
      BY <1>17, <2>1, <2>2 DEF Told
    <3>4. e \in DOMAIN u.callback => e \in DOMAIN srv.callback /\ u.callback[e] = srv.callback[e]
      BY <1>17, <2>2
    <3>5. Told(u, e)
      BY <2>1, <3>1, <3>2, <3>3, <3>4 DEF Told
    <3>6. Unlisted(u, e)
      BY <2>1, <3>1, <3>2 DEF Unlisted
    <3> QED
      BY <3>5, <3>6
  <2>3. CASE e = c
    <3>1. EndInQueue(u, c) <=> EndOf(r)
      BY <1>4, <1>17 DEF EndInQueue
    <3>2. Told(srv, c) /\ Unlisted(srv, c)
      BY <2>1, <2>3
    <3>3. c \in DOMAIN u.queues => OneFrom(u.queues[c], u.home[c])
      BY <1>12, <1>17, <2>1
    <3>4. u.told[c] = n /\ u.low = srv.low /\ u.callback[c] = i
      BY <1>17
    <3>5. CASE i.event = "closed"
      <4>1. ~EndInQueue(u, c) /\ u.told[c] = 1 /\ u.low[c].by = "peer"
        BY <1>12, <1>14, <3>1, <3>4, <3>5
      <4>2. ~EndIn(u.low[c].events) /\ OneEnd(u.low[c].events)
        BY <1>14, <3>2, <3>4, <3>5 DEF Told
      <4>3. u.callback[c].addr = u.home[c] /\ c \notin DOMAIN u.conn_addr
        BY <1>11, <1>14, <2>1, <3>4, <3>5
      <4>4. u.told[c] <= 1
        BY <4>1
      <4>5. Told(u, c)
        BY <3>3, <4>1, <4>2, <4>3, <4>4 DEF Told
      <4>6. Unlisted(u, c)
        BY <4>3 DEF Unlisted
      <4> QED
        BY <2>3, <4>5, <4>6
    <3>6. CASE i.event # "closed"
      <4>1. u.told[c] = srv.told[c] /\ u.low[c] = srv.low[c]
        BY <1>15, <3>4, <3>6
      <4>2. EndInQueue(u, c) => EndInQueue(srv, c)
        BY <1>12, <3>1
      <4>3. u.callback[c].event # "closed"
        BY <3>4, <3>6
      <4>4. Told(u, c)
        BY <3>2, <3>3, <4>1, <4>2, <4>3 DEF Told
      <4>5. Unlisted(u, c)
        BY <2>1, <3>2, <4>1, <4>2 DEF Unlisted
      <4> QED
        BY <2>3, <4>4, <4>5
    <3> QED
      BY <2>3, <3>5, <3>6
  <2> QED
    BY <2>2, <2>3
<1>20. Good(u, S)
  BY <1>18, <1>19 DEF Good
<1>21. Tasked(u)
  BY <1>3, <1>4, <1>17 DEF Tasked
<1>22. Staged(u, stopping)
  BY <1>4, <1>21, InvParts DEF Staged
<1>23. srv' \in ServerRecord /\ Good(srv', sends' \cup Sending) /\ sends' \subseteq Conn
  BY <1>1, <1>13, <1>17, <1>20 DEF S, TypeOK
<1> QED
  BY <1>1, <1>13, <1>22, <1>23, Calls

(* The end of a callback.                                                  *)
LEMMA AfterFields ==
    ASSUME NEW s \in ServerRecord, NEW c, NEW u, u = after_callback(s, c)
    PROVE  /\ u \in ServerRecord /\ SameRoutes(s, u) /\ u.low = s.low /\ u.told = s.told
           /\ u.queues = s.queues /\ u.tasks = s.tasks /\ u.cancelled = s.cancelled
           /\ DOMAIN u.callback = DOMAIN s.callback \ {c}
           /\ \A e \in DOMAIN u.callback : u.callback[e] = s.callback[e]
           /\ \A e \in s.callbacks_running : e # c => e \in u.callbacks_running
<1> DEFINE cr == s.callbacks_running \ {c}
           cb == Del(s.callback, c)
<1>1. cr \in SUBSET Conn /\ cb \in Partial(Conn, Item)
  BY FieldTypes, DelType
<1>2. /\ DOMAIN cb = DOMAIN s.callback \ {c} /\ \A e \in DOMAIN cb : cb[e] = s.callback[e]
      /\ \A e \in s.callbacks_running : e # c => e \in cr
  BY DEF Del, Restrict
<1>3. u = [s EXCEPT !.callbacks_running = cr, !.callback = cb]
  BY DEF after_callback
<1> HIDE DEF cr, cb
<1>4. /\ u \in ServerRecord /\ SameRoutes(s, u) /\ u.low = s.low /\ u.told = s.told
      /\ u.queues = s.queues /\ u.tasks = s.tasks /\ u.cancelled = s.cancelled
      /\ u.callback = cb /\ u.callbacks_running = cr
  BY <1>1, <1>3 DEF ServerRecord, SameRoutes
<1> QED
  BY <1>2, <1>4

(* A queue and a task that change together, the rest stays.                *)
Replaced(s, qs, ts) == [s EXCEPT !.queues = qs, !.tasks = ts]

LEMMA QueueTaskFields ==
    ASSUME NEW s \in ServerRecord, NEW qs \in Partial(Conn, Seq(Item)),
           NEW ts \in Partial(Conn, {"live", "done"}),
           NEW u, u = Replaced(s, qs, ts)
    PROVE  /\ u \in ServerRecord /\ SameRoutes(s, u) /\ u.low = s.low /\ u.told = s.told
           /\ u.callback = s.callback /\ u.callbacks_running = s.callbacks_running
           /\ u.cancelled = s.cancelled
           /\ u.queues = qs /\ u.tasks = ts
  BY DEF ServerRecord, SameRoutes, Replaced

(* The end of a task.                                                      *)
LEMMA EndsFields ==
    ASSUME NEW s \in ServerRecord, NEW c \in Conn, NEW u, u = task_ends(s, c)
    PROVE  /\ u \in ServerRecord /\ SameRoutes(s, u) /\ u.low = s.low /\ u.told = s.told
           /\ u.callback = s.callback /\ u.callbacks_running = s.callbacks_running
           /\ u.cancelled = s.cancelled
           /\ \A e \in DOMAIN u.queues : e \in DOMAIN s.queues /\ u.queues[e] = s.queues[e]
           /\ \A e \in DOMAIN s.queues \ {c} : e \in DOMAIN u.queues
           /\ \A e \in DOMAIN u.tasks : u.tasks[e] = "live" =>
                 e # c /\ e \in DOMAIN s.tasks /\ s.tasks[e] = "live"
           /\ \A e \in DOMAIN s.tasks \ {c} : e \in DOMAIN u.tasks /\ u.tasks[e] = s.tasks[e]
           /\ s.tasks = Empty /\ s.queues = Empty => u.tasks = Empty /\ u.queues = Empty
<1> DEFINE dt == Del(s.tasks, c)
           pt == Put(s.tasks, c, "done")
           dq == Del(s.queues, c)
<1>1. /\ dt \in Partial(Conn, {"live", "done"}) /\ pt \in Partial(Conn, {"live", "done"})
      /\ dq \in Partial(Conn, Seq(Item))
  BY FieldTypes, DelType, PutType
<1>2. /\ DOMAIN dt = DOMAIN s.tasks \ {c}
      /\ \A e \in DOMAIN dt : dt[e] = s.tasks[e]
  BY DEF Del, Restrict
<1>3. /\ DOMAIN dq = DOMAIN s.queues \ {c}
      /\ \A e \in DOMAIN dq : dq[e] = s.queues[e]
  BY DEF Del, Restrict
<1>4. /\ DOMAIN pt = DOMAIN s.tasks \cup {c} /\ pt[c] = "done"
      /\ \A e \in DOMAIN s.tasks \ {c} : pt[e] = s.tasks[e]
  BY DEF Put, PutAll
<1>5. s.tasks = Empty => dt = Empty
  BY EmptyFacts
<1>6. s.queues = Empty => c \notin DOMAIN s.queues
  BY EmptyFacts
<1>7. CASE c \notin DOMAIN s.queues
  <2>1. u = Replaced(s, s.queues, dt)
    <3>1. u = [s EXCEPT !.tasks = dt] /\ s.queues = s.queues
      BY <1>7 DEF task_ends
    <3> HIDE DEF dt
    <3> QED
      BY <3>1 DEF ServerRecord, Replaced
  <2> HIDE DEF dt, pt, dq
  <2>2. s.queues \in Partial(Conn, Seq(Item))
    BY FieldTypes
  <2>3. /\ u \in ServerRecord /\ SameRoutes(s, u) /\ u.low = s.low /\ u.told = s.told
        /\ u.callback = s.callback /\ u.callbacks_running = s.callbacks_running
        /\ u.cancelled = s.cancelled /\ u.queues = s.queues /\ u.tasks = dt
    BY <1>1, <2>1, <2>2, QueueTaskFields
  <2>4. \A e \in DOMAIN u.tasks : u.tasks[e] = "live" =>
           e # c /\ e \in DOMAIN s.tasks /\ s.tasks[e] = "live"
    BY <1>2, <2>3
  <2>5. \A e \in DOMAIN s.tasks \ {c} : e \in DOMAIN u.tasks /\ u.tasks[e] = s.tasks[e]
    BY <1>2, <2>3
  <2>6. s.tasks = Empty /\ s.queues = Empty => u.tasks = Empty /\ u.queues = Empty
    BY <1>5, <2>3
  <2> QED
    BY <2>3, <2>4, <2>5, <2>6
<1>8. CASE c \in DOMAIN s.queues /\ s.queues[c] # <<>>
  <2>1. u = Replaced(s, s.queues, pt)
    <3>1. u = [s EXCEPT !.tasks = pt]
      BY <1>8 DEF task_ends
    <3> HIDE DEF pt
    <3> QED
      BY <3>1 DEF ServerRecord, Replaced
  <2> HIDE DEF dt, pt, dq
  <2>2. s.queues \in Partial(Conn, Seq(Item))
    BY FieldTypes
  <2>3. /\ u \in ServerRecord /\ SameRoutes(s, u) /\ u.low = s.low /\ u.told = s.told
        /\ u.callback = s.callback /\ u.callbacks_running = s.callbacks_running
        /\ u.cancelled = s.cancelled /\ u.queues = s.queues /\ u.tasks = pt
    BY <1>1, <2>1, <2>2, QueueTaskFields
  <2>4. ASSUME NEW e \in DOMAIN u.tasks, u.tasks[e] = "live"
        PROVE  e # c /\ e \in DOMAIN s.tasks /\ s.tasks[e] = "live"
    BY <1>4, <2>3, <2>4
  <2>5. \A e \in DOMAIN s.tasks \ {c} : e \in DOMAIN u.tasks /\ u.tasks[e] = s.tasks[e]
    BY <1>4, <2>3
  <2>6. ~(s.tasks = Empty /\ s.queues = Empty)
    BY <1>6, <1>8
  <2> QED
    BY <2>3, <2>4, <2>5, <2>6
<1>9. CASE c \in DOMAIN s.queues /\ s.queues[c] = <<>>
  <2>1. u = Replaced(s, dq, dt)
    BY <1>9 DEF task_ends, Replaced
  <2> HIDE DEF dt, pt, dq
  <2>2. /\ u \in ServerRecord /\ SameRoutes(s, u) /\ u.low = s.low /\ u.told = s.told
        /\ u.callback = s.callback /\ u.callbacks_running = s.callbacks_running
        /\ u.cancelled = s.cancelled /\ u.queues = dq /\ u.tasks = dt
    BY <1>1, <2>1, QueueTaskFields
  <2>3. /\ \A e \in DOMAIN u.queues : e \in DOMAIN s.queues /\ u.queues[e] = s.queues[e]
        /\ \A e \in DOMAIN s.queues \ {c} : e \in DOMAIN u.queues
    BY <1>3, <2>2
  <2>4. \A e \in DOMAIN u.tasks : u.tasks[e] = "live" =>
           e # c /\ e \in DOMAIN s.tasks /\ s.tasks[e] = "live"
    BY <1>2, <2>2
  <2>5. \A e \in DOMAIN s.tasks \ {c} : e \in DOMAIN u.tasks /\ u.tasks[e] = s.tasks[e]
    BY <1>2, <2>2
  <2>6. ~(s.tasks = Empty /\ s.queues = Empty)
    BY <1>6, <1>9
  <2> QED
    BY <2>2, <2>3, <2>4, <2>5, <2>6
<1> QED
  BY <1>7, <1>8, <1>9

(* The callback of c is over, and, when end says so, its task.             *)
Done(s, c, end) ==
    IF end THEN task_ends(after_callback(s, c), c) ELSE after_callback(s, c)

LEMMA DoneFields ==
    ASSUME NEW s \in ServerRecord, NEW c \in Conn, NEW S, Good(s, S),
           NEW end \in BOOLEAN, NEW u, u = Done(s, c, end)
    PROVE  /\ u \in ServerRecord /\ Good(u, S) /\ SameRoutes(s, u)
           /\ u.cancelled = s.cancelled
           /\ DOMAIN u.callback = DOMAIN s.callback \ {c}
           /\ \A e \in s.callbacks_running : e # c => e \in u.callbacks_running
           /\ \A e \in DOMAIN s.queues \ {c} : e \in DOMAIN u.queues
           /\ \A e \in DOMAIN u.tasks : u.tasks[e] = "live" =>
                 e \in DOMAIN s.tasks /\ s.tasks[e] = "live" /\ (end => e # c)
           /\ ~end => u.queues = s.queues
           /\ \A e \in DOMAIN s.tasks \ {c} : e \in DOMAIN u.tasks /\ u.tasks[e] = s.tasks[e]
           /\ s.tasks = Empty /\ s.queues = Empty => u.tasks = Empty /\ u.queues = Empty
<1> DEFINE t == after_callback(s, c)
<1>1. /\ t \in ServerRecord /\ SameRoutes(s, t) /\ t.low = s.low /\ t.told = s.told
      /\ t.queues = s.queues /\ t.tasks = s.tasks /\ t.cancelled = s.cancelled
      /\ DOMAIN t.callback = DOMAIN s.callback \ {c}
      /\ \A e \in DOMAIN t.callback : t.callback[e] = s.callback[e]
      /\ \A e \in s.callbacks_running : e # c => e \in t.callbacks_running
  BY AfterFields
<1>2. u = IF end THEN task_ends(t, c) ELSE t
  BY DEF Done
<1> HIDE DEF t
<1>3. Good(t, S)
  BY <1>1, QueueDropped
<1>4. CASE ~end
  BY <1>1, <1>2, <1>3, <1>4
<1>5. CASE end
  <2>1. u = task_ends(t, c)
    BY <1>2, <1>5
  <2>2. /\ u \in ServerRecord /\ SameRoutes(t, u) /\ u.low = t.low /\ u.told = t.told
        /\ u.callback = t.callback /\ u.callbacks_running = t.callbacks_running
        /\ u.cancelled = t.cancelled
        /\ \A e \in DOMAIN u.queues : e \in DOMAIN t.queues /\ u.queues[e] = t.queues[e]
        /\ \A e \in DOMAIN t.queues \ {c} : e \in DOMAIN u.queues
        /\ \A e \in DOMAIN u.tasks : u.tasks[e] = "live" =>
              e # c /\ e \in DOMAIN t.tasks /\ t.tasks[e] = "live"
        /\ \A e \in DOMAIN t.tasks \ {c} : e \in DOMAIN u.tasks /\ u.tasks[e] = t.tasks[e]
        /\ t.tasks = Empty /\ t.queues = Empty => u.tasks = Empty /\ u.queues = Empty
    BY <1>1, <2>1, EndsFields
  <2>3. Good(u, S)
    BY <1>1, <1>3, <2>2, QueueDropped
  <2>4. SameRoutes(s, u)
    BY <1>1, <2>2 DEF SameRoutes
  <2> QED
    BY <1>1, <1>5, <2>2, <2>3, <2>4, ZenonT(30)
<1> QED
  BY <1>4, <1>5

(* stop() keeps tasks from ending but for those it waits for, so the step  *)
(* happens while the server runs or when stop() is through.                *)
LEMMA Free ==
    ASSUME TypeOK, Inv, NEW c \in Conn, InCallback(c)
    PROVE  stopping.at \in {"no", "stopped"}
<1>1. /\ c \in DOMAIN srv.callback /\ c # stopping.caller
      /\ stopping.at = "tasks" => c \notin stopping.todo
  BY DEF InCallback, Cancelling
<1>2. Staged(srv, stopping) /\ stopping \in StopState
  BY InvParts
<1>3. stopping.at # "tasks"
  BY <1>1, <1>2 DEF Staged, Tasked
<1>4. stopping.at # "connections"
  BY <1>1, <1>2 DEF Staged
<1> QED
  BY <1>2, <1>3, <1>4 DEF StopState

LEMMA DoneStaged ==
    ASSUME NEW s \in ServerRecord, NEW c \in Conn, NEW S, Good(s, S),
           NEW end \in BOOLEAN, NEW u, u = Done(s, c, end),
           NEW st \in StopState, Staged(s, st), st.at \in {"no", "stopped"}
    PROVE  Staged(u, st)
<1>1. /\ SameRoutes(s, u) /\ u.cancelled = s.cancelled
      /\ DOMAIN u.callback = DOMAIN s.callback \ {c}
      /\ \A e \in s.callbacks_running : e # c => e \in u.callbacks_running
      /\ \A e \in DOMAIN s.queues \ {c} : e \in DOMAIN u.queues
      /\ \A e \in DOMAIN u.tasks : u.tasks[e] = "live" =>
            e \in DOMAIN s.tasks /\ s.tasks[e] = "live" /\ (end => e # c)
      /\ ~end => u.queues = s.queues
      /\ \A e \in DOMAIN s.tasks \ {c} : e \in DOMAIN u.tasks /\ u.tasks[e] = s.tasks[e]
      /\ s.tasks = Empty /\ s.queues = Empty => u.tasks = Empty /\ u.queues = Empty
  BY DoneFields
<1>2. CASE st.at = "no"
  <2>1. Tasked(s) /\ st.caller = None
    BY <1>2 DEF Staged
  <2>2. \A e \in DOMAIN u.tasks : u.tasks[e] = "live" => e \in DOMAIN u.queues
    BY <1>1, <2>1 DEF Tasked
  <2>3. \A e \in DOMAIN u.callback : e \in DOMAIN u.tasks /\ u.tasks[e] = "live"
    BY <1>1, <2>1 DEF Tasked
  <2>4. DOMAIN u.callback \subseteq u.callbacks_running
    BY <1>1, <2>1 DEF Tasked
  <2>5. Tasked(u)
    BY <1>1, <2>1, <2>2, <2>3, <2>4 DEF Tasked
  <2> QED
    BY <1>2, <2>1, <2>5 DEF Staged
<1>3. CASE st.at = "stopped"
  BY <1>1, <1>3 DEF Staged, SameRoutes
<1> QED
  BY <1>2, <1>3

LEMMA InvCallbackReturns ==
    ASSUME TypeOK, Inv, NEW c \in Conn, CallbackReturns(c)
    PROVE  TypeOK' /\ Inv'
<1> DEFINE end == srv.callback[c].event = "closed" \/ ~running
           S == sends \cup Sending
<1>1. InCallback(c) /\ UNCHANGED <<running, loop, sends, stopping>>
  BY DEF CallbackReturns
<1>2. srv' = Done(srv, c, end)
  BY DEF CallbackReturns, Done
<1>3. end \in BOOLEAN /\ Good(srv, S)
  BY InvParts
<1> HIDE DEF end, S
<1>4. srv' \in ServerRecord /\ Good(srv', S)
  BY <1>2, <1>3, InvParts, DoneFields
<1>5. Staged(srv', stopping)
  BY <1>1, <1>2, <1>3, InvParts, Free, DoneStaged
<1> QED
  BY <1>1, <1>4, <1>5, Calls DEF S, TypeOK

LEMMA InvCallbackRaises ==
    ASSUME TypeOK, Inv, NEW c \in Conn, CallbackRaises(c)
    PROVE  TypeOK' /\ Inv'
<1> DEFINE end == TRUE
           t == Done(srv, c, end)
           R == t.raised \cup {c}
           F == t.failed \cup {c}
           S == sends \cup Sending
<1>1. InCallback(c) /\ UNCHANGED <<running, loop, sends, stopping>>
  BY DEF CallbackRaises
<1>2. srv' = Noted(t, R, F)
  BY DEF CallbackRaises, Done, Noted
<1>3. Good(srv, S) /\ end \in BOOLEAN
  BY InvParts
<1> HIDE DEF S, end
<1>4. t \in ServerRecord /\ Good(t, S)
  BY <1>3, InvParts, DoneFields
<1>5. Staged(t, stopping)
  BY <1>1, <1>3, InvParts, Free, DoneStaged
<1> HIDE DEF t
<1>6. R \in SUBSET Conn /\ F \in SUBSET Conn
  BY <1>4 DEF ServerRecord
<1> HIDE DEF R, F
<1>7. srv' \in ServerRecord /\ Good(srv', S) /\ SameTasks(t, srv') /\ SameRoutes(t, srv')
  BY <1>2, <1>4, <1>6, FailedGood
<1>8. Staged(srv', stopping)
  BY <1>5, <1>7, StagedSame
<1> QED
  BY <1>1, <1>7, <1>8, Calls DEF S, TypeOK

-----------------------------------------------------------------------------
(* stop().                                                                 *)

(* run() stays where it is, and stop() goes on.                            *)
LEMMA Stops ==
    ASSUME TypeOK, Inv, UNCHANGED loop, running' = FALSE, sends' \subseteq Conn,
           stopping' \in StopState, stopping'.at # "no", srv' \in ServerRecord,
           Good(srv', sends' \cup Sending), Staged(srv', stopping')
    PROVE  TypeOK' /\ Inv'
<1>1. Sending' = Sending
  BY DEF Sending
<1>2. loop' \in LoopState
  BY DEF TypeOK
<1> QED
  BY <1>1, <1>2, Settled

LEMMA Invstop ==
    ASSUME TypeOK, Inv, NEW c \in Conn \cup {None}, stop(c)
    PROVE  TypeOK' /\ Inv'
<1> DEFINE D == {e \in DOMAIN srv.tasks : srv.tasks[e] = "live"} \ {c}
<1>1. /\ running /\ c \in DOMAIN srv.callback \cup {None}
      /\ running' = FALSE /\ UNCHANGED <<srv, loop, sends>>
      /\ stopping' = [stopping EXCEPT !.at = "tasks", !.caller = c, !.todo = D]
  BY DEF stop
<1>2. D \in SUBSET Conn /\ c \notin D
  BY InvParts, Domains
<1>3. \A e \in DOMAIN srv.tasks : srv.tasks[e] = "live" => e \in D \cup {c}
  OBVIOUS
<1> HIDE DEF D
<1>4. /\ stopping' \in StopState /\ stopping'.at = "tasks"
      /\ stopping'.caller = c /\ stopping'.todo = D
  BY <1>1, <1>2, InvParts DEF StopState
<1>5. Tasked(srv)
  BY <1>1, InvParts DEF Staged
<1>6. Staged(srv, stopping')
  BY <1>1, <1>2, <1>3, <1>4, <1>5 DEF Staged
<1>7. Staged(srv', stopping') /\ stopping'.at # "no"
  BY <1>1, <1>4, <1>6
<1>8. srv' \in ServerRecord /\ Good(srv', sends' \cup Sending) /\ sends' \subseteq Conn
  BY <1>1, InvParts DEF TypeOK
<1> QED
  BY <1>1, <1>4, <1>7, <1>8, Stops

(* stop() need no longer wait for the task of c.                           *)
LEMMA DoneWaited ==
    ASSUME NEW s \in ServerRecord, NEW c \in Conn, NEW S, Good(s, S),
           NEW end \in BOOLEAN, NEW u, u = Done(s, c, end),
           NEW st, Staged(s, st), st.at = "tasks", c \in st.todo,
           NEW sv, sv.at = "tasks", sv.caller = st.caller,
           \A e : e \in sv.todo <=> e \in st.todo /\ e # c
    PROVE  end => Staged(u, sv)
<1>1. /\ SameRoutes(s, u) /\ u.cancelled = s.cancelled
      /\ DOMAIN u.callback = DOMAIN s.callback \ {c}
      /\ \A e \in s.callbacks_running : e # c => e \in u.callbacks_running
      /\ \A e \in DOMAIN s.queues \ {c} : e \in DOMAIN u.queues
      /\ \A e \in DOMAIN u.tasks : u.tasks[e] = "live" =>
            e \in DOMAIN s.tasks /\ s.tasks[e] = "live" /\ (end => e # c)
      /\ ~end => u.queues = s.queues
      /\ \A e \in DOMAIN s.tasks \ {c} : e \in DOMAIN u.tasks /\ u.tasks[e] = s.tasks[e]
      /\ s.tasks = Empty /\ s.queues = Empty => u.tasks = Empty /\ u.queues = Empty
  BY DoneFields
<1> HAVE end
<1>2. Tasked(s)
  BY DEF Staged
<1>3. \A e \in DOMAIN u.tasks : u.tasks[e] = "live" => e \in DOMAIN u.queues
  BY <1>1, <1>2 DEF Tasked
<1>4. \A e \in DOMAIN u.callback : e \in DOMAIN u.tasks /\ u.tasks[e] = "live"
  BY <1>1, <1>2 DEF Tasked
<1>5. DOMAIN u.callback \subseteq u.callbacks_running /\ u.cancelled = {}
  BY <1>1, <1>2 DEF Tasked
<1>6. Tasked(u)
  BY <1>3, <1>4, <1>5 DEF Tasked
<1>7. /\ sv.caller \in DOMAIN u.callback \cup {None}
      /\ sv.caller \notin sv.todo
  BY <1>1 DEF Staged
<1>8. \A e \in DOMAIN u.tasks : u.tasks[e] = "live" => e \in sv.todo \cup {sv.caller}
  BY <1>1 DEF Staged
<1> QED
  BY <1>6, <1>7, <1>8 DEF Staged

LEMMA InvTaskStopped ==
    ASSUME TypeOK, Inv, NEW c \in Conn, TaskStopped(c)
    PROVE  TypeOK' /\ Inv'
<1> DEFINE D == stopping.todo \ {c}
           S == sends \cup Sending
           end == TRUE
<1>1. /\ UNCHANGED <<running, loop, sends>> /\ c \in Cancelling
      /\ stopping' = [stopping EXCEPT !.todo = D]
      /\ srv' = Done(srv, c, end)
  BY DEF TaskStopped, Done
<1>2. stopping.at = "tasks" /\ c \in stopping.todo
  BY <1>1 DEF Cancelling
<1>3. /\ stopping' \in StopState /\ stopping'.at = "tasks" /\ stopping'.todo = D
      /\ stopping'.caller = stopping.caller
  BY <1>1, <1>2, InvParts DEF StopState
<1>4. \A e : e \in stopping'.todo <=> e \in stopping.todo /\ e # c
  BY <1>3
<1>5. Good(srv, S) /\ end \in BOOLEAN
  BY InvParts
<1>9. end
  OBVIOUS
<1> HIDE DEF S, D, end
<1>6. srv' \in ServerRecord /\ Good(srv', S)
  BY <1>1, <1>5, InvParts, DoneFields
<1>7. Staged(srv', stopping')
  <2>1. end => Staged(srv', stopping')
    BY <1>1, <1>2, <1>3, <1>4, <1>5, InvParts, DoneWaited
  <2> QED
    BY <1>9, <2>1
<1>8. running' = FALSE /\ sends' \subseteq Conn /\ stopping'.at # "no"
  BY <1>1, <1>2, <1>3, InvParts DEF TypeOK
<1> QED
  BY <1>1, <1>3, <1>6, <1>7, <1>8, Stops DEF S

LEMMA InvTasksStopped ==
    ASSUME TypeOK, Inv, TasksStopped
    PROVE  TypeOK' /\ Inv'
<1> DEFINE D == Range(srv.connections)
           S == sends \cup Sending
<1>1. /\ UNCHANGED <<running, loop, sends>> /\ stopping.at = "tasks" /\ stopping.todo = {}
      /\ stopping' = [stopping EXCEPT !.at = "connections", !.todo = D]
      /\ srv' = Replaced(srv, Empty, Empty)
  BY DEF TasksStopped, Replaced
<1>2. D \in SUBSET Conn
  BY InvParts, Domains DEF Range
<1> HIDE DEF D
<1>3. /\ stopping' \in StopState /\ stopping'.at = "connections"
      /\ stopping'.caller = stopping.caller
  BY <1>1, <1>2, InvParts DEF StopState
<1>4. Good(srv, S)
  BY InvParts
<1> HIDE DEF S
<1>5. /\ srv' \in ServerRecord /\ SameRoutes(srv, srv') /\ srv'.low = srv.low
      /\ srv'.told = srv.told /\ srv'.callback = srv.callback
      /\ srv'.callbacks_running = srv.callbacks_running /\ srv'.cancelled = srv.cancelled
      /\ srv'.queues = Empty /\ srv'.tasks = Empty
  BY <1>1, InvParts, EmptyFacts, QueueTaskFields
<1>6. Good(srv', S)
  <2>1. \A e \in DOMAIN srv'.queues : e \in DOMAIN srv.queues /\ srv'.queues[e] = srv.queues[e]
    BY <1>5, EmptyFacts
  <2> QED
    BY <1>4, <1>5, <2>1, InvParts, QueueDropped
<1>7. Tasked(srv) /\ DOMAIN srv.callback \subseteq {stopping.caller}
  BY <1>1, InvParts DEF Staged, Tasked
<1>8. Staged(srv', stopping')
  BY <1>3, <1>5, <1>7 DEF Staged, Tasked
<1>9. running' = FALSE /\ sends' \subseteq Conn /\ stopping'.at # "no"
  BY <1>1, <1>3, InvParts DEF TypeOK
<1> QED
  BY <1>1, <1>3, <1>5, <1>6, <1>8, <1>9, Stops DEF S

LEMMA InvConnectionStopped ==
    ASSUME TypeOK, Inv, NEW c \in Conn, ConnectionStopped(c)
    PROVE  TypeOK' /\ Inv'
<1> DEFINE D == stopping.todo \ {c}
           S == sends \cup Sending
           T == sends' \cup Sending
           m == closed(srv.low[c])
<1>1. /\ UNCHANGED <<running, loop>> /\ stopping.at = "connections"
      /\ stopping' = [stopping EXCEPT !.todo = D, !.sent = {c}]
      /\ srv' = With(srv, c, m)
      /\ sends' = IF c \in DOMAIN srv.conn_addr THEN sends \cup {c} ELSE sends
  BY DEF ConnectionStopped, With
<1>2. D \in SUBSET Conn
  BY InvParts DEF StopState
<1> HIDE DEF D
<1>3. /\ stopping' \in StopState /\ stopping'.at = "connections"
      /\ stopping'.caller = stopping.caller
  BY <1>1, <1>2, InvParts DEF StopState
<1>4. Good(srv, S) /\ S \subseteq T /\ sends' \subseteq Conn
  BY <1>1, InvParts DEF TypeOK
<1>5. LowStep(c, srv.low[c], m) /\ m.cids = srv.low[c].cids
  BY InvParts, OwnLow, ClosedLow
<1> HIDE DEF S, T, m
<1>6. srv' \in ServerRecord /\ Good(srv', T) /\ SameRoutes(srv, srv') /\ SameTasks(srv, srv')
  BY <1>1, <1>4, <1>5, InvParts, LowGood
<1>7. Staged(srv', stopping)
  BY <1>6, InvParts, StagedSame
<1>8. Staged(srv', stopping')
  BY <1>1, <1>3, <1>7 DEF Staged
<1>9. running' = FALSE /\ stopping'.at # "no"
  BY <1>1, <1>3, InvParts DEF TypeOK
<1> QED
  BY <1>1, <1>3, <1>4, <1>6, <1>8, <1>9, Stops DEF T

(* Nothing is registered any more.                                         *)
Cleared(s) ==
    [s EXCEPT !.connections = Empty, !.conn_addr = Empty, !.dcid_index = Empty,
              !.conn_dcids = Empty, !.callbacks_running = {}]

LEMMA ClearedGood ==
    ASSUME NEW s \in ServerRecord, NEW S, Good(s, S), NEW u, u = Cleared(s)
    PROVE  /\ u \in ServerRecord /\ Good(u, S)
           /\ u.connections = Empty /\ u.conn_addr = Empty
           /\ u.dcid_index = Empty /\ u.conn_dcids = Empty
           /\ u.tasks = s.tasks /\ u.queues = s.queues /\ u.cancelled = s.cancelled
<1>1. /\ Empty \in Partial(Addr, Conn) /\ Empty \in Partial(Conn, Addr)
      /\ Empty \in Partial(Id, Conn) /\ Empty \in Partial(Conn, SUBSET Id)
      /\ DOMAIN Empty = {}
  BY EmptyFacts
<1>2. /\ u \in ServerRecord
      /\ u.connections = Empty /\ u.conn_addr = Empty
      /\ u.dcid_index = Empty /\ u.conn_dcids = Empty
      /\ u.tasks = s.tasks /\ u.queues = s.queues /\ u.cancelled = s.cancelled
      /\ u.told = s.told /\ u.low = s.low /\ u.callback = s.callback /\ u.home = s.home
  BY <1>1 DEF Cleared, ServerRecord
<1>3. Routes(u) /\ Mirrored(u) /\ Listed(u) /\ Fresh(u, S)
  BY <1>1, <1>2 DEF Good, Routes, Mirrored, Listed, Fresh
<1>4. ASSUME NEW e \in Conn PROVE Told(u, e) /\ Unlisted(u, e)
  <2>1. Told(s, e)
    BY DEF Good
  <2>2. Told(u, e)
    BY <1>2, <2>1 DEF Told, EndInQueue
  <2> QED
    BY <1>1, <1>2, <2>2 DEF Unlisted
<1> QED
  BY <1>2, <1>3, <1>4 DEF Good

LEMMA InvStopped ==
    ASSUME TypeOK, Inv, Stopped
    PROVE  TypeOK' /\ Inv'
<1> DEFINE S == sends \cup Sending
<1>1. /\ UNCHANGED <<running, loop, sends>> /\ stopping.at = "connections"
      /\ stopping' = [stopping EXCEPT !.at = "stopped", !.caller = None]
      /\ srv' = Cleared(srv)
  BY DEF Stopped, Cleared
<1>2. stopping' \in StopState /\ stopping'.at = "stopped" /\ stopping'.caller = None
  BY <1>1, InvParts DEF StopState
<1>3. Good(srv, S)
  BY InvParts
<1> HIDE DEF S
<1>4. /\ srv' \in ServerRecord /\ Good(srv', S)
      /\ srv'.connections = Empty /\ srv'.conn_addr = Empty
      /\ srv'.dcid_index = Empty /\ srv'.conn_dcids = Empty
      /\ srv'.tasks = srv.tasks /\ srv'.queues = srv.queues
      /\ srv'.cancelled = srv.cancelled
  BY <1>1, <1>3, InvParts, ClearedGood
<1>5. srv.tasks = Empty /\ srv.queues = Empty /\ srv.cancelled = {}
  BY <1>1, InvParts DEF Staged
<1>6. Staged(srv', stopping')
  BY <1>2, <1>4, <1>5 DEF Staged
<1>7. running' = FALSE /\ sends' \subseteq Conn /\ stopping'.at # "no"
  BY <1>1, <1>2, InvParts DEF TypeOK
<1> QED
  BY <1>1, <1>2, <1>4, <1>6, <1>7, Stops DEF S

-----------------------------------------------------------------------------
(* The theorems.                                                           *)

LEMMA InitInv ==
    ASSUME Init
    PROVE  TypeOK /\ Inv
<1>1. /\ srv = Server /\ running = TRUE /\ loop = [at |-> "wait"] /\ sends = {}
      /\ stopping = [at |-> "no", caller |-> None, todo |-> {}, sent |-> {}]
  BY DEF Init
<1>2. Unborn \in Low /\ Unborn.by = "unborn" /\ Unborn.events = <<>> /\ Unborn.cids = {}
  <2>1. <<>> \in Seq(Event) /\ {} \in SUBSET Id
    OBVIOUS
  <2> QED
    BY <2>1 DEF Unborn, Low
<1>3. /\ \A S, T : Empty \in Partial(S, T)
      /\ DOMAIN Empty = {}
  BY EmptyFacts
<1> DEFINE w == [c \in Conn |-> Unborn]
           td == [c \in Conn |-> 0]
           ho == [c \in Conn |-> None]
<1>4. w \in [Conn -> Low] /\ td \in [Conn -> Nat] /\ ho \in [Conn -> Addr \cup {None}]
  BY <1>2
<1>5. \A c \in Conn : w[c] = Unborn /\ td[c] = 0
  OBVIOUS
<1> HIDE DEF w, td, ho
<1>6. /\ srv.connections = Empty /\ srv.conn_addr = Empty /\ srv.dcid_index = Empty
      /\ srv.conn_dcids = Empty /\ srv.queues = Empty /\ srv.tasks = Empty
      /\ srv.callbacks_running = {} /\ srv.callback = Empty /\ srv.low = w
      /\ srv.told = td /\ srv.cancelled = {}
  BY <1>1 DEF Server, w, td
<1>7. srv \in ServerRecord
  <2>1. /\ Empty \in Partial(Addr, Conn) /\ Empty \in Partial(Conn, Addr)
        /\ Empty \in Partial(Id, Conn) /\ Empty \in Partial(Conn, SUBSET Id)
        /\ Empty \in Partial(Conn, Seq(Item)) /\ Empty \in Partial(Conn, {"live", "done"})
        /\ Empty \in Partial(Conn, Item)
    BY <1>3
  <2>2. srv = [connections |-> Empty, conn_addr |-> Empty, dcid_index |-> Empty,
               conn_dcids |-> Empty, queues |-> Empty, tasks |-> Empty,
               callbacks_running |-> {}, callback |-> Empty, failed |-> {},
               low |-> w, told |-> td, home |-> ho, raised |-> {},
               cancelled |-> {}, behind |-> {}]
    BY <1>1 DEF Server, w, td, ho
  <2> QED
    BY <1>4, <2>1, <2>2 DEF ServerRecord
<1>8. TypeOK
  <2>1. running \in BOOLEAN /\ loop \in LoopState /\ sends \subseteq Conn
    BY <1>1 DEF LoopState
  <2>2. stopping \in StopState
    BY <1>1 DEF StopState
  <2> QED
    BY <1>7, <2>1, <2>2 DEF TypeOK
<1>9. ASSUME NEW S PROVE Good(srv, S)
  <2>1. Routes(srv) /\ Listed(srv) /\ Fresh(srv, S)
    BY <1>3, <1>6 DEF Routes, Listed, Fresh
  <2>2. Mirrored(srv)
    BY <1>2, <1>3, <1>5, <1>6 DEF Mirrored
  <2>3. ASSUME NEW c \in Conn PROVE Told(srv, c) /\ Unlisted(srv, c)
    <3>1. srv.told[c] = 0 /\ srv.low[c].events = <<>>
      BY <1>2, <1>5, <1>6
    <3>2. ~EndIn(srv.low[c].events) /\ OneEnd(srv.low[c].events)
      BY <3>1 DEF EndIn, OneEnd
    <3>3. c \notin DOMAIN srv.queues /\ c \notin DOMAIN srv.callback /\ ~EndInQueue(srv, c)
      BY <1>3, <1>6 DEF EndInQueue
    <3> QED
      BY <3>1, <3>2, <3>3 DEF Told, Unlisted
  <2> QED
    BY <2>1, <2>2, <2>3 DEF Good
<1>10. Staged(srv, stopping)
  BY <1>1, <1>3, <1>6 DEF Staged, Tasked
<1> QED
  BY <1>1, <1>8, <1>9, <1>10 DEF Inv

LEMMA NextInv ==
    ASSUME TypeOK, Inv, [Next]_vars
    PROVE  TypeOK' /\ Inv'
<1>1. CASE UNCHANGED vars
  <2>1. TypeOK'
    BY <1>1 DEF vars, TypeOK
  <2>2. Sending' = Sending
    BY <1>1 DEF vars, Sending
  <2>3. Inv'
    BY <1>1, <2>2 DEF vars, Inv
  <2> QED
    BY <2>1, <2>3
<1>2. CASE \E a \in Addr : \/ FromKnownAddress(a)
                           \/ \E c \in Conn : Accept(a, c)
                           \/ \E x \in DOMAIN srv.dcid_index :
                                 Migrates(a, x) \/ EndsFromAfar(a, x)
                           \/ Send(a) \/ close(a)
  BY <1>2, InvFromKnownAddress, InvAccept, InvMigrates, InvEndsFromAfar, InvSend, Invclose
<1>3. CASE Discarded \/ Pass \/ TurnFails
  BY <1>3, InvDiscarded, InvStartPass, InvTurnSent, InvPassDone, InvTurn, InvTurnFails
     DEF Pass
<1>4. CASE \E c \in Conn : \/ TaskTakes(c) \/ CallbackReturns(c) \/ CallbackRaises(c)
                           \/ _on_connection_task_done(c)
  BY <1>4, InvTaskTakes, InvCallbackReturns, InvCallbackRaises, Inv_on_connection_task_done
<1>5. CASE \E c \in Conn : \/ SendDone(c) \/ SendFails(c)
                           \/ TaskStopped(c) \/ ConnectionStopped(c)
  BY <1>5, InvSendDone, InvSendFails, InvTaskStopped, InvConnectionStopped
<1>6. CASE (\E c \in Conn \cup {None} : stop(c)) \/ TasksStopped \/ Stopped
  BY <1>6, Invstop, InvTasksStopped, InvStopped
<1> QED
  BY <1>1, <1>2, <1>3, <1>4, <1>5, <1>6 DEF Next

(* The invariant holds in every state of the server.                       *)
THEOREM Invariance == Spec => [](TypeOK /\ Inv)
<1>1. Init => TypeOK /\ Inv
  BY InitInv
<1>2. TypeOK /\ Inv /\ [Next]_vars => TypeOK' /\ Inv'
  BY NextInv
<1> QED
  BY <1>1, <1>2, PTL DEF Spec

(* Every dictionary of the server, every queue and every history keeps its *)
(* type.                                                                   *)
THEOREM TypeCorrect == Spec => []TypeOK
  BY Invariance, PTL

(* _connections and _conn_addr are inverses of each other, the index of    *)
(* connection ids leads only to registered connections, under ids of their *)
(* own, and what stop() has cleared stays empty.                           *)
THEOREM AlwaysRegistered == Spec => []Registered
<1>1. TypeOK /\ Inv => Registered
  <2> SUFFICES ASSUME TypeOK, Inv PROVE Registered
    OBVIOUS
  <2>1. Routes(srv) /\ Mirrored(srv) /\ Listed(srv)
    BY InvParts
  <2>2. \A a \in DOMAIN srv.connections : Get(srv.conn_addr, srv.connections[a]) = a
    BY <2>1 DEF Routes, Get
  <2>3. \A c \in DOMAIN srv.conn_addr : Get(srv.connections, srv.conn_addr[c]) = c
    BY <2>1 DEF Routes, Get
  <2>4. \A x \in DOMAIN srv.dcid_index :
           srv.dcid_index[x] = x[1] /\ x[1] \in DOMAIN srv.conn_addr
    BY <2>1 DEF Mirrored, Listed
  <2>5. stopping.at = "stopped" =>
           srv.connections = Empty /\ srv.tasks = Empty /\ srv.queues = Empty
    BY InvParts DEF Staged
  <2> QED
    BY <2>1, <2>2, <2>3, <2>4, <2>5 DEF Registered, Listed
<1> QED
  BY <1>1, Invariance, PTL

(* When run() looks for datagrams, the index holds exactly the ids of each *)
(* registered connection, but for those with a send that is under way or   *)
(* has failed.                                                             *)
THEOREM AlwaysRoutesHome == Spec => []RoutesHome
<1>1. TypeOK /\ Inv => RoutesHome
  <2> SUFFICES ASSUME TypeOK, Inv, Receiving,
                      NEW c \in DOMAIN srv.conn_addr \ (sends \cup srv.behind)
               PROVE  {x \in DOMAIN srv.dcid_index : srv.dcid_index[x] = c} = srv.low[c].cids
    BY DEF RoutesHome
  <2>1. Sending = {}
    BY NotSending DEF Receiving
  <2>2. Mirrored(srv) /\ Listed(srv) /\ Fresh(srv, sends)
    BY <2>1, InvParts DEF Good
  <2>3. srv.conn_dcids[c] = srv.low[c].cids
    BY <2>2 DEF Fresh
  <2>4. \A x : x \in DOMAIN srv.dcid_index /\ srv.dcid_index[x] = c <=> x \in srv.conn_dcids[c]
    BY <2>2 DEF Mirrored, Listed
  <2> QED
    BY <2>3, <2>4
<1> QED
  BY <1>1, Invariance, PTL

(* _discard_connection never cancels the task of a callback that executes, *)
(* whichever callback closes its connection or calls stop().               *)
THEOREM AlwaysCallbackKept == Spec => []CallbackKept
<1>1. TypeOK /\ Inv => CallbackKept
  BY InvParts DEF CallbackKept, Staged, StopState, Tasked
<1> QED
  BY <1>1, Invariance, PTL

(* on_connection_closed is called at most once for a connection, with the  *)
(* address the connection had last.                                        *)
THEOREM AlwaysToldRight == Spec => []ToldRight
<1>1. TypeOK /\ Inv => ToldRight
  BY InvParts DEF ToldRight, Good, Told
<1> QED
  BY <1>1, Invariance, PTL

=============================================================================
