-------------------------------- MODULE Pool --------------------------------
(***************************************************************************)
(* The connection pool of the vendored MySQL Connector/Python: threads ask *)
(* connect(pool_size=...) for a pooled connection, use it, and close() it, *)
(* which resets the session and queues the connection again.  What a       *)
(* connection does when rows are unread or the server is gone is that of   *)
(* module Connector, in the terms that the pool can tell apart.            *)
(***************************************************************************)
EXTENDS Naturals, FiniteSets, Sequences

CONSTANTS
    Threads,        \* the threads of the program
    Sizes,          \* the pool sizes the program asks for
    Conns,          \* connection objects: as many as the instance may make
    MaxVersion,     \* bound: the configurations given to the pool
    ResetSession,   \* pool_reset_session
    None            \* no connection

ASSUME PoolAssumption ==
    /\ Sizes \subseteq Nat \ {0}
    /\ MaxVersion \in Nat \ {0}
    /\ ResetSession \in BOOLEAN
    /\ None \notin Conns

VARIABLES
    up,         \* the server can be reached
    pool,       \* [size, version] of the pool, size 0 before it is made
    queue,      \* _cnx_queue
    made,       \* the connection objects made so far
    conn,       \* [Conns -> the state of the connection object]
    handle,     \* [Threads -> _cnx of the thread's PooledMySQLConnection]
    pc,         \* [Threads -> where the thread is]
    cnx,        \* [Threads -> the local cnx of close()]
    result      \* [Threads -> how the latest pool call ended]

vars == <<up, pool, queue, made, conn, handle, pc, cnx, result>>

(* live: the socket; unread: _unread_result; used: the session has a       *)
(* transaction or variables of a borrower; label: pool_config_version;     *)
(* opened: the configuration the session was opened with.                  *)
NewConn(v) == [live |-> TRUE, unread |-> FALSE, used |-> FALSE, label |-> v, opened |-> v]
DeadConn   == [NewConn(0) EXCEPT !.live = FALSE]

Init ==
    /\ up = TRUE
    /\ pool = [size |-> 0, version |-> 0]
    /\ queue = <<>> /\ made = {}
    /\ conn = [c \in Conns |-> DeadConn]
    /\ handle = [t \in Threads |-> None]
    /\ pc = [t \in Threads |-> "free"]
    /\ cnx = [t \in Threads |-> None]
    /\ result = [t \in Threads |-> "none"]

Goes(t, place, res) ==
    /\ pc' = [pc EXCEPT ![t] = place]
    /\ result' = [result EXCEPT ![t] = res]

-----------------------------------------------------------------------------
(* _get_pooled_connection: the pool is made, or its size compared, under   *)
(* CONNECTION_POOL_LOCK; get_connection() takes the lock again.            *)
Connect(t, n) ==
    /\ pc[t] = "free"
    /\ UNCHANGED <<up, handle, cnx>>
    /\ \/ /\ pool.size = 0 /\ ~up
          /\ Goes(t, "free", "unreachable")
          /\ UNCHANGED <<pool, queue, made, conn>>
       \/ /\ pool.size = 0 /\ up
          /\ \E q \in [1..n -> Conns] :
                /\ \A i, j \in 1..n : q[i] = q[j] => i = j
                /\ queue' = q
                /\ made' = {q[i] : i \in 1..n}
          /\ pool' = [size |-> n, version |-> 1]
          /\ conn' = [c \in Conns |-> IF c \in made' THEN NewConn(1) ELSE conn[c]]
          /\ Goes(t, "get", "none")
       \/ /\ pool.size # 0
          /\ IF pool.size = n THEN Goes(t, "get", "none") ELSE Goes(t, "free", "size")
          /\ UNCHANGED <<pool, queue, made, conn>>

(* reconnect() of c, after config(): close, connect, _post_connection; the *)
(* SET commands of the last are refused while unread_result is TRUE.       *)
Reconnected(c, live) ==
    [conn EXCEPT ![c].live = live, ![c].used = FALSE, ![c].opened = pool.version]

(* Faulty: the connection is not given back when the reconnect fails.      *)
Faulty_GiveBack(c) == queue' = Tail(queue)

(* "Failed to reconnect, give connection back to pool"                     *)
GiveBack(c) == queue' = Append(Tail(queue), c)

(* is_connected(), and the configuration is the current one.               *)
Usable(c) == conn[c].live /\ ~conn[c].unread /\ conn[c].label = pool.version

(* MySQLConnectionPool.get_connection(), under the lock.                   *)
GetConnection(t) ==
    /\ pc[t] = "get"
    /\ UNCHANGED <<up, pool, made, cnx>>
    /\ IF queue = <<>>
         THEN Goes(t, "free", "exhausted") /\ UNCHANGED <<queue, conn, handle>>
         ELSE LET c == Head(queue)
                  HandOut == /\ queue' = Tail(queue)
                             /\ handle' = [handle EXCEPT ![t] = c]
                             /\ Goes(t, "using", "none")
                  Refuse  == /\ GiveBack(c)
                             /\ Goes(t, "free", "not reconnected")
                             /\ UNCHANGED handle
              IN
              \/ Usable(c) /\ HandOut /\ UNCHANGED conn
              \/ /\ ~Usable(c) /\ up /\ ~conn[c].unread
                 /\ HandOut
                 /\ \E live \in BOOLEAN :   \* is_connected() may fail after all
                       conn' = [Reconnected(c, live) EXCEPT ![c].label = pool.version]
              \/ /\ ~Usable(c) /\ (~up \/ conn[c].unread)
                 /\ Refuse
                 /\ conn' = Reconnected(c, up)

(* The borrower works, and perhaps leaves rows unread; its socket may have *)
(* to be found dead first.                                                 *)
Work(t) ==
    LET c == handle[t] IN
    /\ pc[t] = "using" /\ c # None
    /\ conn[c].live
    /\ \E rows \in BOOLEAN :
          conn' = [conn EXCEPT ![c].used = TRUE, ![c].unread = rows]
    /\ UNCHANGED <<up, pool, queue, made, handle, pc, cnx, result>>

-----------------------------------------------------------------------------
(* PooledMySQLConnection.close().  With _cnx None reset_session() is an    *)
(* AttributeError, and the finally part runs all the same.                 *)
CloseBegin(t) ==
    /\ pc[t] = "using"
    /\ cnx' = [cnx EXCEPT ![t] = handle[t]]
    /\ Goes(t, IF ResetSession THEN "reset" ELSE "add", "none")
    /\ UNCHANGED <<up, pool, queue, made, conn, handle>>

(* Faulty: the session is not reset.                                       *)
Faulty_Reset(t) ==
    /\ pc[t] = "reset"
    /\ Goes(t, "add", "none")
    /\ UNCHANGED <<up, pool, queue, made, conn, handle, cnx>>

(* reset_session(): refused when is_connected() is FALSE.                  *)
Reset(t) ==
    LET c == cnx[t] IN
    /\ pc[t] = "reset"
    /\ IF c # None /\ conn[c].live /\ ~conn[c].unread
         THEN Goes(t, "add", "none") /\ conn' = [conn EXCEPT ![c].used = FALSE]
         ELSE Goes(t, "add", "not reset") /\ UNCHANGED conn
    /\ UNCHANGED <<up, pool, queue, made, handle, cnx>>

(* Faulty: the queue is not asked whether it is full.                      *)
Faulty_AddConnection(t) ==
    /\ pc[t] = "add"
    /\ \E c \in (IF cnx[t] = None THEN Conns \ made ELSE {cnx[t]}) :
          /\ queue' = Append(queue, c)
          /\ made' = made \cup {c}
          /\ conn' = IF cnx[t] = None THEN [conn EXCEPT ![c] = NewConn(pool.version)] ELSE conn
    /\ Goes(t, "forget", result[t])
    /\ UNCHANGED <<up, pool, handle, cnx>>

(* add_connection(cnx), under the lock; without a cnx it makes one.  When  *)
(* it raises, _cnx keeps the connection.                                   *)
AddConnection(t) ==
    /\ pc[t] = "add"
    /\ UNCHANGED <<up, pool, handle, cnx>>
    /\ \/ /\ Len(queue) = pool.size
          /\ Goes(t, "using", "full")
          /\ UNCHANGED <<queue, made, conn>>
       \/ /\ Len(queue) < pool.size /\ cnx[t] # None
          /\ queue' = Append(queue, cnx[t])
          /\ Goes(t, "forget", result[t])
          /\ UNCHANGED <<made, conn>>
       \/ /\ Len(queue) < pool.size /\ cnx[t] = None /\ ~up
          /\ Goes(t, "using", "unreachable")
          /\ UNCHANGED <<queue, made, conn>>
       \/ /\ Len(queue) < pool.size /\ cnx[t] = None /\ up
          /\ \E c \in Conns \ made :
                /\ made' = made \cup {c}
                /\ conn' = [conn EXCEPT ![c] = NewConn(pool.version)]
                /\ queue' = Append(queue, c)
          /\ Goes(t, "forget", result[t])

(* Faulty: the pooled connection does not forget what it gave back.        *)
Faulty_Forget(t) ==
    /\ pc[t] = "forget"
    /\ \E place \in {"free", "using"} : Goes(t, place, result[t])
    /\ UNCHANGED <<up, pool, queue, made, conn, handle, cnx>>

(* self._cnx = None; the thread keeps the PooledMySQLConnection or drops   *)
(* it.                                                                     *)
Forget(t) ==
    /\ pc[t] = "forget"
    /\ handle' = [handle EXCEPT ![t] = None]
    /\ cnx' = [cnx EXCEPT ![t] = None]
    /\ \E place \in {"free", "using"} : Goes(t, place, result[t])
    /\ UNCHANGED <<up, pool, queue, made, conn>>

(* set_config(), under the lock.                                           *)
SetConfig ==
    /\ pool.size # 0 /\ pool.version < MaxVersion
    /\ pool' = [pool EXCEPT !.version = @ + 1]
    /\ UNCHANGED <<up, queue, made, conn, handle, pc, cnx, result>>

(* The server goes away with all its sessions, and comes back; a single    *)
(* session is closed by its wait_timeout.                                  *)
ServerStops ==
    /\ up /\ up' = FALSE
    /\ conn' = [c \in Conns |-> [conn[c] EXCEPT !.live = FALSE, !.used = FALSE]]
    /\ UNCHANGED <<pool, queue, made, handle, pc, cnx, result>>

ServerStarts ==
    /\ ~up /\ up' = TRUE
    /\ UNCHANGED <<pool, queue, made, conn, handle, pc, cnx, result>>

Expires(c) ==
    /\ conn[c].live
    /\ conn' = [conn EXCEPT ![c].live = FALSE, ![c].used = FALSE]
    /\ UNCHANGED <<up, pool, queue, made, handle, pc, cnx, result>>

Thread(t) ==
    \/ \E n \in Sizes : Connect(t, n)
    \/ GetConnection(t) \/ Work(t)
    \/ CloseBegin(t) \/ Reset(t) \/ AddConnection(t) \/ Forget(t)

Next ==
    \/ \E t \in Threads : Thread(t)
    \/ SetConfig \/ ServerStops \/ ServerStarts
    \/ \E c \in Conns : Expires(c)

Spec == Init /\ [][Next]_vars

-----------------------------------------------------------------------------
Queued == {queue[i] : i \in DOMAIN queue}

(* The handle of t still has its connection: close() has not queued it.    *)
Holds(t) == handle[t] # None /\ pc[t] # "forget"
Held     == {handle[t] : t \in {u \in Threads : Holds(u)}}

PoolState == [size : Sizes \cup {0}, version : 0..MaxVersion]
ConnState == [live : BOOLEAN, unread : BOOLEAN, used : BOOLEAN,
              label : 0..MaxVersion, opened : 0..MaxVersion]
Labels    == {"free", "get", "using", "reset", "add", "forget"}
Outcomes  == {"none", "unreachable", "size", "exhausted", "not reconnected", "not reset", "full"}

(* Every variable holds values of its type, and the queue has room.        *)
TypeOK ==
    /\ up \in BOOLEAN /\ made \subseteq Conns
    /\ pool \in PoolState
    /\ queue \in Seq(Conns) /\ Len(queue) <= pool.size
    /\ conn \in [Conns -> ConnState]
    /\ handle \in [Threads -> Conns \cup {None}]
    /\ cnx \in [Threads -> Conns \cup {None}]
    /\ pc \in [Threads -> Labels]
    /\ result \in [Threads -> Outcomes]

(* A connection is in the queue once, or with one thread, never both.      *)
ExclusiveUse ==
    /\ \A i, j \in DOMAIN queue : queue[i] = queue[j] => i = j
    /\ \A t, u \in Threads :
          Holds(t) /\ Holds(u) /\ handle[t] = handle[u] => t = u
    /\ Held \cap Queued = {}

(* No connection gets lost: all that were made are in the queue or with a  *)
(* thread, whatever failed in between, and they are no fewer than asked for.*)
Conserved == made = Queued \cup Held /\ Cardinality(made) >= pool.size

(* A thread that gets a connection gets one opened with the latest         *)
(* configuration and without the transaction of another borrower.          *)
CleanHandover ==
    [][\A t \in Threads : pc[t] = "get" /\ pc'[t] = "using" =>
          /\ conn'[handle'[t]].opened = pool'.version
          /\ ~conn'[handle'[t]].used]_vars
=============================================================================
