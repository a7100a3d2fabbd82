----------------------------- MODULE QuicServer -----------------------------
(***************************************************************************)
(* The asyncio QUIC server (src/webtransport/quic/server.py): how          *)
(* datagrams find their connection, by address or, after a migration, by   *)
(* connection id (src/webtransport/_dcid_index.py); how events reach the   *)
(* application, through one task per connection; and how connections are   *)
(* collected.                                                              *)
(*                                                                         *)
(* The tasks of the server share one thread.  run(), stop(), a task per    *)
(* connection and calls of the application interleave where one of them    *)
(* waits: run() at the socket or while a send is not accepted by it.  The  *)
(* steps of run() that do not wait keep all others out (Yielded).          *)
(*                                                                         *)
(* The dictionaries of the server are functions with changing domains, in  *)
(* the record srv, which the operators below take and return.              *)
(***************************************************************************)
EXTENDS Integers, Sequences, FiniteSets, FiniteSetsExt, Functions

CONSTANTS
    Conn,         \* connections that can be made
    Addr,         \* addresses of clients
    Bounds        \* bounds: how often what may happen only so often

Bound == [cids : Nat,       \* ids issued besides the first of each connection
          events : Nat,     \* events besides CONNECTION_CLOSED
          sends : Nat,      \* calls of the application that send
          failures : Nat,   \* sends the socket refuses
          raises : Nat,     \* callbacks that raise
          stops : Nat]      \* calls of stop()

ASSUME BoundAssumption == Bounds \subseteq Bound

None == "none"   \* no connection and no address

ASSUME NoneAssumption == None \notin Conn /\ None \notin Addr

VARIABLES
    srv,       \* the dictionaries of the server and the connections in them
    running,   \* _running
    loop,      \* where run() is
    sends,     \* connections a call of the application is sending for
    stopping,  \* where stop() is
    left       \* what is left of the bounds

vars == <<srv, running, loop, sends, stopping, left>>

Get(f, x) == IF x \in DOMAIN f THEN f[x] ELSE None
PutAll(f, S, v) == [x \in DOMAIN f \cup S |-> IF x \in S THEN v ELSE f[x]]
Put(f, x, v) == PutAll(f, {x}, v)
Del(f, x) == Restrict(f, DOMAIN f \ {x})
Empty == <<>>   \* the function with the empty domain

-----------------------------------------------------------------------------
(* Connections: QuicConnection as the server sees it.                      *)

Cid(c, k) == <<c, k>>

(* by: who ended it; events: not taken yet; cids: issued and not retired.  *)
Unborn == [by |-> "unborn", events |-> <<>>, pushed |-> 0, cids |-> {}, issued |-> 0]
Newborn(c) == [Unborn EXCEPT !.by = "nobody", !.cids = {Cid(c, 0)}]

is_closed(l) == l.by \in {"peer", "local"}

(* The connection ends by itself: draining, an error, an idle timeout.     *)
Ended(l) == [l EXCEPT !.by = "peer", !.events = Append(@, "closed")]

(* close(): no event.                                                      *)
closed(l) == IF is_closed(l) THEN l ELSE [l EXCEPT !.by = "local"]

Issued(c, l) ==
    IF MapThenSumSet(LAMBDA d : srv.low[d].issued, Conn) < left.cids
    THEN {[l EXCEPT !.cids = @ \cup {Cid(c, l.issued + 1)}, !.issued = @ + 1]}
    ELSE {}

(* What an accepted packet may do: bring an event, or retire an id.        *)
Accepted(c, l) ==
    IF is_closed(l) THEN {}
    ELSE {l} \cup {[l EXCEPT !.cids = @ \ {x}] : x \in l.cids \ {Cid(c, l.issued)}}
             \cup (IF MapThenSumSet(LAMBDA d : srv.low[d].pushed, Conn) < left.events
                   THEN {[l EXCEPT !.events = Append(@, "event"), !.pushed = @ + 1]}
                   ELSE {})

(* What a packet that ends the connection does, or one that comes later.   *)
Closing(l) == IF is_closed(l) THEN {l} ELSE {Ended(l)}

(* send() may issue an id.                                                 *)
Sent(c, l) == {l} \cup (IF is_closed(l) THEN {} ELSE Issued(c, l))

(* handle_timeout(), or a call for a stream, may end it.                   *)
MayEnd(l) == {l} \cup (IF is_closed(l) THEN {} ELSE {Ended(l)})

-----------------------------------------------------------------------------
Server ==
    [connections |-> Empty,        \* _connections: address -> connection
     conn_addr |-> Empty,          \* _conn_addr: connection -> address
     dcid_index |-> Empty,         \* _dcid_index: id -> connection
     conn_dcids |-> Empty,         \* _conn_dcids: connection -> ids
     queues |-> Empty,             \* _connection_queues: events, with addresses
     tasks |-> Empty,              \* _connection_tasks: "live" or "done"
     callbacks_running |-> {},     \* _callbacks_running
     callback |-> Empty,           \* connection -> event its task executes
     failed |-> {},                \* tasks whose done callback is scheduled
     low |-> [c \in Conn |-> Unborn],
     told |-> [c \in Conn |-> 0],  \* history: calls of on_connection_closed
     home |-> [c \in Conn |-> None],  \* history: its last address
     raised |-> {},                \* history: a callback raised
     cancelled |-> {},             \* history: a callback collected while it ran
     behind |-> {}]                \* history: the last send failed

Init ==
    /\ srv = Server
    /\ running = TRUE
    /\ loop = [at |-> "wait"]
    /\ sends = {}
    /\ stopping = [at |-> "no", caller |-> None, todo |-> {}, sent |-> {}]
    /\ left \in Bounds

Spend(what) == left[what] > 0 /\ left' = [left EXCEPT ![what] = @ - 1]

Yielded == loop.at \in {"wait", "sending", "ended"}

-----------------------------------------------------------------------------
(* _dcid_index.py.                                                         *)

(* Mutated form: ids that were retired stay.                               *)
refresh_dcid_index_KeepsRetired(s, c) ==
    LET current  == s.low[c].cids
        issued   == current \ (IF c \in DOMAIN s.conn_dcids THEN s.conn_dcids[c] ELSE {})
    IN  [s EXCEPT !.dcid_index = PutAll(@, issued, c),
                  !.conn_dcids = Put(@, c, current),
                  !.behind = @ \ {c}]

refresh_dcid_index(s, c) ==
    LET current  == s.low[c].cids
        previous == IF c \in DOMAIN s.conn_dcids THEN s.conn_dcids[c] ELSE {}
        retired  == {x \in previous \ current : Get(s.dcid_index, x) = c}
    IN  [s EXCEPT !.dcid_index = PutAll(Restrict(@, DOMAIN @ \ retired),
                                        current \ previous, c),
                  !.conn_dcids = Put(@, c, current),
                  !.behind = @ \ {c}]

drop_dcid_index(s, c) ==
    LET ids == IF c \in DOMAIN s.conn_dcids THEN s.conn_dcids[c] ELSE {}
    IN  [s EXCEPT !.dcid_index =
                      Restrict(@, {x \in DOMAIN @ : ~(x \in ids /\ @[x] = c)}),
                  !.conn_dcids = Del(@, c)]

-----------------------------------------------------------------------------
(* Registration.                                                           *)

_refresh_dcid_index(s, c) ==
    IF c \in DOMAIN s.conn_addr THEN refresh_dcid_index(s, c) ELSE s

_remove_connection(s, c) ==
    LET old == Get(s.conn_addr, c)
        t   == [s EXCEPT !.conn_addr = Del(@, c),
                         !.connections = IF Get(@, old) = c THEN Del(@, old) ELSE @]
    IN  drop_dcid_index(t, c)

(* task.cancel(): what the task is executing is interrupted.               *)
Cancel(s, c) ==
    [s EXCEPT !.tasks = Del(@, c),
              !.cancelled = IF c \in DOMAIN s.callback THEN @ \cup {c} ELSE @,
              !.callback = Del(@, c)]

(* Mutated form: the registration goes before the callback is looked at.   *)
_discard_connection_Early(s, c) ==
    LET t == _remove_connection(s, c)
    IN  IF c \in s.callbacks_running THEN t
        ELSE [Cancel(t, c) EXCEPT !.queues = Del(@, c)]

(* Mutated form: a callback is not waited for.                             *)
_discard_connection_Now(s, c) ==
    [Cancel(_remove_connection(s, c), c) EXCEPT !.queues = Del(@, c)]

_discard_connection(s, c) ==
    IF c \in s.callbacks_running THEN s
    ELSE [Cancel(_remove_connection(s, c), c) EXCEPT !.queues = Del(@, c)]

_ensure_connection_task(s, c) ==
    IF ~running \/ Get(s.tasks, c) = "live" THEN s
    ELSE [s EXCEPT !.tasks = Put(@, c, "live"),
                   !.queues = IF c \in DOMAIN @ THEN @ ELSE Put(@, c, <<>>)]

Queued(a, event) == [addr |-> a, event |-> event]

(* Events go to the queue of the connection; CONNECTION_CLOSED takes the   *)
(* connection out.                                                         *)
_enqueue_connection_events(s, a, c) ==
    LET t == _ensure_connection_task(s, c)
        events == t.low[c].events
        u == [t EXCEPT !.queues[c] = @ \o [i \in DOMAIN events |-> Queued(a, events[i])],
                       !.low[c].events = <<>>]
    IN  IF c \notin DOMAIN t.queues THEN t
        ELSE IF \E i \in DOMAIN events : events[i] = "closed"
        THEN _remove_connection(u, c)
        ELSE u

-----------------------------------------------------------------------------
(* _handle_datagram.  run() waits for one datagram and then reads what     *)
(* else is there.                                                          *)

Receiving == loop.at \in {"wait", "batch"}
Handled == loop' = [at |-> "batch"]

FromKnownAddress(a) ==
    /\ Receiving
    /\ a \in DOMAIN srv.connections
    /\ LET c == srv.connections[a]
       IN  \E l \in {srv.low[c]} \cup Accepted(c, srv.low[c]) \cup Closing(srv.low[c]) :
               srv' = _enqueue_connection_events(
                          _refresh_dcid_index([srv EXCEPT !.low[c] = l], c), a, c)
    /\ Handled
    /\ UNCHANGED <<running, sends, stopping, left>>

(* Mutated form: the old address stays registered.                         *)
moved_KeepsOld(s, c, a) ==
    [s EXCEPT !.connections = Put(@, a, c), !.conn_addr = Put(@, c, a),
              !.home[c] = a]

(* The connection is registered under the address of the packet.           *)
moved(s, c, a) ==
    LET old == Get(s.conn_addr, c)
    IN  [s EXCEPT !.connections =
                      Put(IF Get(@, old) = c THEN Del(@, old) ELSE @, a, c),
                  !.conn_addr = Put(@, c, a),
                  !.home[c] = a]

(* A short header from an address that is not known, with an id that is.   *)
(* Only a packet its connection accepts, which has the id of this packet   *)
(* still in use, moves it.                                                 *)
Migrates(a, x) ==
    /\ Receiving
    /\ a \notin DOMAIN srv.connections
    /\ x \in DOMAIN srv.dcid_index
    /\ LET c == srv.dcid_index[x]
       IN  /\ x \in srv.low[c].cids
           /\ \E l \in Accepted(c, srv.low[c]) :
                  srv' = _enqueue_connection_events(
                             _refresh_dcid_index(
                                 moved([srv EXCEPT !.low[c] = l], c, a), c), a, c)
    /\ Handled
    /\ UNCHANGED <<running, sends, stopping, left>>

(* Mutated form: the address of the packet is taken.                       *)
end_addr_OfPacket(s, c, a) == a

end_addr(s, c, a) == IF c \in DOMAIN s.conn_addr THEN s.conn_addr[c] ELSE a

(* The same, but the packet ends the connection, which is reported under   *)
(* the address it had.  The packet is then taken for a first one, which    *)
(* fails for a short header.                                               *)
EndsFromAfar(a, x) ==
    /\ Receiving
    /\ a \notin DOMAIN srv.connections
    /\ x \in DOMAIN srv.dcid_index
    /\ LET c == srv.dcid_index[x]
       IN  \E l \in Closing(srv.low[c]) :
               srv' = _enqueue_connection_events(
                          [srv EXCEPT !.low[c] = l], end_addr(srv, c, a), c)
    /\ loop' = [at |-> IF running THEN "batch" ELSE "ended"]
    /\ UNCHANGED <<running, sends, stopping, left>>

(* _accept_connection, from a long header.                                 *)
Accept(a, c) ==
    /\ Receiving
    /\ running
    /\ a \notin DOMAIN srv.connections
    /\ srv.low[c] = Unborn
    /\ \E l \in {Newborn(c), Ended(Newborn(c))} :
           srv' = _enqueue_connection_events(
                      _refresh_dcid_index(
                          [srv EXCEPT !.low[c] = l,
                                      !.connections = Put(@, a, c),
                                      !.conn_addr = Put(@, c, a),
                                      !.home[c] = a], c), a, c)
    /\ Handled
    /\ UNCHANGED <<running, sends, stopping, left>>

(* Anything else from an unknown address is discarded, or ends run() when  *)
(* the server is stopped.                                                  *)
Discarded ==
    /\ Receiving
    /\ \E a \in Addr : a \notin DOMAIN srv.connections
    /\ loop' = [at |-> IF running THEN "batch" ELSE "ended"]
    /\ UNCHANGED <<srv, running, sends, stopping, left>>

-----------------------------------------------------------------------------
(* The pass of run() over all connections.                                 *)

StartPass ==
    /\ Receiving
    /\ loop' = [at |-> "pass", todo |-> DOMAIN srv.conn_addr]
    /\ UNCHANGED <<srv, running, sends, stopping, left>>

(* What follows _send_to: the events, and the collection of a connection   *)
(* that ended without CONNECTION_CLOSED.                                   *)
after_send(s, c) ==
    LET t == _refresh_dcid_index(s, c)
        u == _enqueue_connection_events(t, t.conn_addr[c], c)
    IN  IF c \notin DOMAIN t.conn_addr THEN t
        ELSE IF is_closed(u.low[c]) /\ c \in DOMAIN u.conn_addr
        THEN _discard_connection(u, c)
        ELSE u

(* The turn of c: its timer, then what it has to send.  The socket may     *)
(* take it at once, or make the loop wait.                                 *)
Turn(c) ==
    /\ loop.at = "pass"
    /\ c \in loop.todo
    /\ IF c \notin DOMAIN srv.conn_addr
       THEN UNCHANGED srv /\ loop' = [loop EXCEPT !.todo = @ \ {c}]
       ELSE \E l \in MayEnd(srv.low[c]) : \E m \in Sent(c, l) :
                \/ /\ srv' = after_send([srv EXCEPT !.low[c] = m], c)
                   /\ loop' = [loop EXCEPT !.todo = @ \ {c}]
                \/ /\ m.by # "peer"
                   /\ srv' = [srv EXCEPT !.low[c] = m]
                   /\ loop' = [at |-> "sending", c |-> c, todo |-> loop.todo \ {c}]
    /\ UNCHANGED <<running, sends, stopping, left>>

TurnSent ==
    /\ loop.at = "sending"
    /\ srv' = after_send(srv, loop.c)
    /\ loop' = [at |-> "pass", todo |-> loop.todo]
    /\ UNCHANGED <<running, sends, stopping, left>>

(* OSError: the rest of the turn is skipped.                               *)
TurnFails ==
    /\ loop.at = "sending"
    /\ Spend("failures")
    /\ srv' = [srv EXCEPT !.behind = @ \cup {loop.c}]
    /\ loop' = [at |-> "pass", todo |-> loop.todo]
    /\ UNCHANGED <<running, sends, stopping>>

PassDone ==
    /\ loop.at = "pass"
    /\ loop.todo = {}
    /\ loop' = [at |-> IF running THEN "wait" ELSE "ended"]
    /\ UNCHANGED <<srv, running, sends, stopping, left>>

-----------------------------------------------------------------------------
(* The task of a connection: _run_connection_loop.                         *)

(* Tasks that stop() has cancelled and that have not ended yet.            *)
Cancelling == IF stopping.at = "tasks" THEN stopping.todo ELSE {}

InCallback(c) == /\ Yielded
                 /\ c \in DOMAIN srv.callback
                 /\ c \notin Cancelling
                 /\ c # stopping.caller

(* The address is looked up again: the connection may have moved.          *)
TaskTakes(c) ==
    LET item == Head(srv.queues[c])
        addr == IF c \in DOMAIN srv.conn_addr THEN srv.conn_addr[c] ELSE item.addr
    IN  /\ Yielded
        /\ Get(srv.tasks, c) = "live"
        /\ c \notin Cancelling
        /\ c \notin DOMAIN srv.callback
        /\ srv.queues[c] # <<>>
        /\ srv' = [srv EXCEPT !.queues[c] = Tail(@),
                              !.callbacks_running = @ \cup {c},
                              !.callback = Put(@, c, Queued(addr, item.event)),
                              !.told[c] = IF item.event = "closed" THEN @ + 1 ELSE @]
        /\ UNCHANGED <<running, loop, sends, stopping, left>>

(* The end of the callback, and, if there is nothing left to do, of the    *)
(* task; a queue that is not empty stays for the next task.                *)
after_callback(s, c) ==
    [s EXCEPT !.callbacks_running = @ \ {c}, !.callback = Del(@, c)]

task_ends(s, c) ==
    IF c \notin DOMAIN s.queues THEN [s EXCEPT !.tasks = Del(@, c)]
    ELSE IF s.queues[c] # <<>> THEN [s EXCEPT !.tasks = Put(@, c, "done")]
    ELSE [s EXCEPT !.queues = Del(@, c), !.tasks = Del(@, c)]

CallbackReturns(c) ==
    /\ InCallback(c)
    /\ srv' = IF srv.callback[c].event = "closed" \/ ~running
              THEN task_ends(after_callback(srv, c), c)
              ELSE after_callback(srv, c)
    /\ UNCHANGED <<running, loop, sends, stopping, left>>

CallbackRaises(c) ==
    /\ InCallback(c)
    /\ Spend("raises")
    /\ srv' = [task_ends(after_callback(srv, c), c) EXCEPT
                  !.raised = @ \cup {c}, !.failed = @ \cup {c}]
    /\ UNCHANGED <<running, loop, sends, stopping>>

(* _on_connection_task_done, in a later turn of the event loop.            *)
_on_connection_task_done(c) ==
    /\ Yielded
    /\ c \in srv.failed
    /\ srv' = [srv EXCEPT !.failed = @ \ {c}, !.low[c] = closed(@)]
    /\ UNCHANGED <<running, loop, sends, stopping, left>>

-----------------------------------------------------------------------------
(* Calls of the application, from a callback or any other task.            *)

(* send_stream_data, send_datagram, shutdown_stream, reset_stream and      *)
(* stop_sending: a call on the connection, which may end it, and _send_to. *)
Send(a) ==
    /\ Yielded
    /\ a \in DOMAIN srv.connections
    /\ LET c == srv.connections[a]
       IN  /\ c \notin sends
           /\ \E l \in MayEnd(srv.low[c]) : \E m \in Sent(c, l) :
                  srv' = [srv EXCEPT !.low[c] = m]
           /\ sends' = sends \cup {c}
    /\ Spend("sends")
    /\ UNCHANGED <<running, loop, stopping>>

close(a) ==
    /\ Yielded
    /\ a \in DOMAIN srv.connections
    /\ LET c == srv.connections[a]
       IN  /\ c \notin sends
           /\ srv' = [srv EXCEPT !.low[c] = closed(@)]
           /\ sends' = sends \cup {c}
    /\ Spend("sends")
    /\ UNCHANGED <<running, loop, stopping>>

SendDone(c) ==
    /\ Yielded
    /\ c \in sends
    /\ sends' = sends \ {c}
    /\ srv' = _refresh_dcid_index(srv, c)
    /\ UNCHANGED <<running, loop, stopping, left>>

SendFails(c) ==
    /\ Yielded
    /\ c \in sends
    /\ Spend("failures")
    /\ sends' = sends \ {c}
    /\ srv' = [srv EXCEPT !.behind = @ \cup {c}]
    /\ UNCHANGED <<running, loop, stopping>>

-----------------------------------------------------------------------------
(* stop(), called by the callback of a connection or by another task.      *)

stop(caller) ==
    /\ Yielded
    /\ running
    /\ caller \in DOMAIN srv.callback \cup {None}
    /\ running' = FALSE
    /\ stopping' = [stopping EXCEPT
                       !.at = "tasks", !.caller = caller,
                       !.todo = {c \in DOMAIN srv.tasks : srv.tasks[c] = "live"}
                                    \ {caller}]
    /\ Spend("stops")
    /\ UNCHANGED <<srv, loop, sends>>

(* A task ends, with the callback it executes.                             *)
TaskStopped(c) ==
    /\ Yielded
    /\ c \in Cancelling
    /\ stopping' = [stopping EXCEPT !.todo = @ \ {c}]
    /\ srv' = task_ends(after_callback(srv, c), c)
    /\ UNCHANGED <<running, loop, sends, left>>

TasksStopped ==
    /\ Yielded
    /\ stopping.at = "tasks"
    /\ stopping.todo = {}
    /\ srv' = [srv EXCEPT !.tasks = Empty, !.queues = Empty]
    /\ stopping' = [stopping EXCEPT !.at = "connections",
                                    !.todo = Range(srv.connections)]
    /\ UNCHANGED <<running, loop, sends, left>>

(* One after the other, connections are closed and CONNECTION_CLOSE sent;  *)
(* it makes no difference to stop() whether that fails.                    *)
ConnectionStopped(c) ==
    /\ Yielded
    /\ stopping.at = "connections"
    /\ c \in stopping.todo
    /\ stopping.sent \cap sends = {}
    /\ c \notin sends
    /\ stopping' = [stopping EXCEPT !.todo = @ \ {c}, !.sent = {c}]
    /\ srv' = [srv EXCEPT !.low[c] = closed(@)]
    /\ sends' = IF c \in DOMAIN srv.conn_addr THEN sends \cup {c} ELSE sends
    /\ UNCHANGED <<running, loop, left>>

Stopped ==
    /\ Yielded
    /\ stopping.at = "connections"
    /\ stopping.todo = {}
    /\ stopping.sent \cap sends = {}
    /\ stopping' = [stopping EXCEPT !.at = "stopped", !.caller = None]
    /\ srv' = [srv EXCEPT !.connections = Empty, !.conn_addr = Empty,
                          !.dcid_index = Empty, !.conn_dcids = Empty,
                          !.callbacks_running = {}]
    /\ UNCHANGED <<running, loop, sends, left>>

-----------------------------------------------------------------------------
Pass == \/ StartPass \/ TurnSent \/ PassDone
        \/ \E c \in Conn : Turn(c)

Next ==
    \/ \E a \in Addr : \/ FromKnownAddress(a)
                       \/ \E c \in Conn : Accept(a, c)
                       \/ \E x \in DOMAIN srv.dcid_index :
                             Migrates(a, x) \/ EndsFromAfar(a, x)
                       \/ Send(a) \/ close(a)
    \/ Discarded \/ Pass \/ TurnFails
    \/ \E c \in Conn : \/ TaskTakes(c) \/ CallbackReturns(c) \/ CallbackRaises(c)
                       \/ _on_connection_task_done(c)
                       \/ SendDone(c) \/ SendFails(c)
                       \/ TaskStopped(c) \/ ConnectionStopped(c)
    \/ \E c \in Conn \cup {None} : stop(c)
    \/ TasksStopped \/ Stopped

Spec == Init /\ [][Next]_vars

(* The event loop gives tasks that can go on a turn whenever run() waits,  *)
(* which it does again and again; a send ends, and so do callbacks.        *)
TaskStep == \E c \in Conn : TaskTakes(c) \/ CallbackReturns(c) \/ CallbackRaises(c)

Fairness == WF_vars(Pass) /\ SF_vars(TaskStep)

FairSpec == Spec /\ Fairness

-----------------------------------------------------------------------------
(* Properties.                                                             *)

(* The dictionaries agree: an address leads to a connection exactly when   *)
(* the connection has that address; the index holds only connections that  *)
(* are registered, under ids of their own; and once stop() is through,     *)
(* nothing that was waiting in it enters anything again.                   *)
Registered ==
    /\ \A a \in DOMAIN srv.connections : Get(srv.conn_addr, srv.connections[a]) = a
    /\ \A c \in DOMAIN srv.conn_addr : Get(srv.connections, srv.conn_addr[c]) = c
    /\ \A x \in DOMAIN srv.dcid_index :
          srv.dcid_index[x] = x[1] /\ x[1] \in DOMAIN srv.conn_addr
    /\ DOMAIN srv.conn_dcids = DOMAIN srv.conn_addr
    /\ stopping.at = "stopped" =>
          /\ srv.connections = Empty /\ srv.tasks = Empty /\ srv.queues = Empty

(* When run() looks for datagrams, the index holds exactly the ids each    *)
(* registered connection has issued and not retired, unless a send for the *)
(* connection is under way or has failed: a client that migrates is found. *)
RoutesHome ==
    Receiving =>
        \A c \in DOMAIN srv.conn_addr \ (sends \cup srv.behind) :
            {x \in DOMAIN srv.dcid_index : srv.dcid_index[x] = c} = srv.low[c].cids

(* Collecting a connection never cancels a callback that is executing, not *)
(* even one that closed its own connection or that called stop().          *)
CallbackKept == srv.cancelled = {}

(* on_connection_closed is called at most once for a connection, and with  *)
(* the address it was last registered under, wherever the packet that      *)
(* ended it came from and whatever happened while the event was queued.    *)
ToldRight ==
    \A c \in Conn :
        /\ srv.told[c] <= 1
        /\ c \in DOMAIN srv.callback /\ srv.callback[c].event = "closed" =>
              srv.callback[c].addr = srv.home[c]

Gone(c) == c \notin DOMAIN srv.conn_addr \cup DOMAIN srv.queues \cup DOMAIN srv.tasks

(* A connection that is over is done with, while the server runs and its   *)
(* callbacks do not raise: on_connection_closed is called if the           *)
(* application did not close it itself, and its entries, its queue and its *)
(* task go away.                                                           *)
Concluded ==
    []<>(\A c \in Conn :
            \/ ~is_closed(srv.low[c])
            \/ Gone(c) /\ (srv.low[c].by = "peer" => srv.told[c] = 1)
            \/ ~running
            \/ c \in srv.raised)

=============================================================================
