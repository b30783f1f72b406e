----------------------------- MODULE PoolProofs -----------------------------
(***************************************************************************)
(* Proofs about the connection pool, for any number of threads, any pool   *)
(* sizes and any order of failures: its types, that a connection has one   *)
(* owner, that none gets lost, and that a borrower gets a clean session.   *)
(***************************************************************************)
EXTENDS Pool, FiniteSetTheorems, TLAPS

(* No connection is twice in the queue.                                    *)
Distinct(q) == \A i, j \in DOMAIN q : q[i] = q[j] => i = j
InQueue(q)  == {q[i] : i \in DOMAIN q}

(* Where a thread is decides what its handle and its cnx are; before the   *)
(* pool is made no thread is anywhere.                                     *)
Places ==
    \A t \in Threads :
        /\ pc[t] \in {"free", "get"} => handle[t] = None
        /\ pc[t] \in {"reset", "add"} => cnx[t] = handle[t]
        /\ pool.size = 0 => pc[t] = "free"

(* One owner for each connection, and an owner for each connection made.   *)
Owners ==
    /\ Distinct(queue)
    /\ \A t, u \in Threads :
          Holds(t) /\ Holds(u) /\ handle[t] = handle[u] => t = u
    /\ \A t \in Threads : Holds(t) => handle[t] \in made /\ handle[t] \notin Queued
    /\ \A c \in Conns : c \in made <=> c \in Queued \/ \E t \in Threads : Holds(t) /\ handle[t] = c
    /\ pool.size = 0 => queue = <<>>

(* The pool has as many connections as it was made with.                   *)
Enough == IsFiniteSet(made) /\ Cardinality(made) >= pool.size

(* A borrower's marks are on live sessions only; the label of the latest   *)
(* configuration is not on a session opened with an earlier one; a session *)
(* that was not reset on its way to the queue has unread rows, and will be *)
(* opened anew before it is handed out.                                    *)
Sessions ==
    /\ pool.size = 0 => pool.version = 0
    /\ \A c \in Conns : conn[c].used => conn[c].live
    /\ \A c \in Conns :
          /\ conn[c].label <= pool.version
          /\ conn[c].label = pool.version => conn[c].opened = pool.version
    /\ \A c \in Queued : conn[c].used => conn[c].unread
    /\ \A t \in Threads : pc[t] = "add" /\ cnx[t] # None =>
          (conn[cnx[t]].used => conn[cnx[t]].unread)

-----------------------------------------------------------------------------
(* What taking the first connection does to a queue.                       *)
LEMMA TakeFirst ==
    ASSUME NEW S, NEW q \in Seq(S), q # <<>>, Distinct(q)
    PROVE  /\ Head(q) \in S /\ Head(q) \in InQueue(q)
           /\ Tail(q) \in Seq(S) /\ Len(Tail(q)) = Len(q) - 1
           /\ Distinct(Tail(q))
           /\ InQueue(Tail(q)) = InQueue(q) \ {Head(q)}
<1>1. /\ Len(q) \in Nat \ {0} /\ DOMAIN q = 1..Len(q)
      /\ Head(q) = q[1] /\ 1 \in DOMAIN q /\ q[1] \in S
  OBVIOUS
<1>2. /\ Tail(q) \in Seq(S) /\ Len(Tail(q)) = Len(q) - 1
      /\ DOMAIN Tail(q) = 1..(Len(q) - 1)
      /\ \A i \in 1..(Len(q) - 1) : Tail(q)[i] = q[i + 1]
  BY <1>1
<1>3. Distinct(Tail(q))
  BY <1>1, <1>2 DEF Distinct
<1>4. ASSUME NEW x \in InQueue(Tail(q))
      PROVE  x \in InQueue(q) \ {Head(q)}
  <2>1. PICK i \in 1..(Len(q) - 1) : x = q[i + 1]
    BY <1>2 DEF InQueue
  <2>2. i + 1 \in DOMAIN q /\ i + 1 # 1
    BY <1>1
  <2>3. QED
    BY <1>1, <2>1, <2>2 DEF InQueue, Distinct
<1>5. ASSUME NEW x \in InQueue(q) \ {Head(q)}
      PROVE  x \in InQueue(Tail(q))
  <2>1. PICK i \in 1..Len(q) : x = q[i]
    BY <1>1 DEF InQueue
  <2>2. i # 1
    BY <1>1, <1>5, <2>1
  <2>3. i - 1 \in 1..(Len(q) - 1) /\ (i - 1) + 1 = i
    BY <1>1, <2>2
  <2>4. QED
    BY <1>2, <2>1, <2>3 DEF InQueue
<1>6. QED
  BY <1>1, <1>2, <1>3, <1>4, <1>5 DEF InQueue

(* The elements of a queue after an append.                                *)
LEMMA LastIsNew ==
    ASSUME NEW S, NEW q \in Seq(S), NEW c \in S
    PROVE  InQueue(Append(q, c)) = InQueue(q) \cup {c}
<1>1. /\ Len(q) \in Nat /\ DOMAIN q = 1..Len(q)
      /\ DOMAIN Append(q, c) = 1..(Len(q) + 1)
      /\ \A i \in 1..Len(q) : Append(q, c)[i] = q[i]
      /\ Append(q, c)[Len(q) + 1] = c
  OBVIOUS
<1>2. \A i \in 1..(Len(q) + 1) : i \in 1..Len(q) \/ i = Len(q) + 1
  BY <1>1
<1>3. QED
  BY <1>1, <1>2 DEF InQueue

(* What putting a connection at the end of a queue does to it.             *)
LEMMA PutLast ==
    ASSUME NEW S, NEW q \in Seq(S), NEW c \in S, Distinct(q), c \notin InQueue(q)
    PROVE  /\ Append(q, c) \in Seq(S) /\ Len(Append(q, c)) = Len(q) + 1
           /\ Distinct(Append(q, c))
           /\ InQueue(Append(q, c)) = InQueue(q) \cup {c}
<1>1. /\ Len(q) \in Nat /\ DOMAIN q = 1..Len(q)
      /\ Append(q, c) \in Seq(S) /\ Len(Append(q, c)) = Len(q) + 1
      /\ DOMAIN Append(q, c) = 1..(Len(q) + 1)
      /\ \A i \in 1..Len(q) : Append(q, c)[i] = q[i]
      /\ Append(q, c)[Len(q) + 1] = c
  OBVIOUS
<1>2. \A i \in 1..(Len(q) + 1) : i \in 1..Len(q) \/ i = Len(q) + 1
  BY <1>1
<1>3. Distinct(Append(q, c))
  BY <1>1, <1>2 DEF Distinct, InQueue
<1>4. QED
  BY <1>1, <1>3, LastIsNew

(* Taking the first and putting it last changes the order only.            *)
LEMMA Rotate ==
    ASSUME NEW S, NEW q \in Seq(S), q # <<>>, Distinct(q)
    PROVE  /\ Distinct(Append(Tail(q), Head(q)))
           /\ InQueue(Append(Tail(q), Head(q))) = InQueue(q)
<1> DEFINE c == Head(q)
           rest == Tail(q)
<1>1. /\ c \in S /\ rest \in Seq(S) /\ Distinct(rest) /\ c \in InQueue(q)
      /\ InQueue(rest) = InQueue(q) \ {c}
  BY TakeFirst
<1> HIDE DEF c, rest
<1>2. Distinct(Append(rest, c)) /\ InQueue(Append(rest, c)) = InQueue(rest) \cup {c}
  BY <1>1, PutLast
<1>3. QED
  BY <1>1, <1>2 DEF c, rest

-----------------------------------------------------------------------------
(* A thread goes from one place to another.                                *)
LEMMA Moves ==
    ASSUME TypeOK, NEW t \in Threads, \/ \E n \in Sizes : Connect(t, n)
                                      \/ GetConnection(t) \/ CloseBegin(t)
                                      \/ Reset(t) \/ AddConnection(t) \/ Forget(t)
    PROVE  pc' \in [Threads -> Labels] /\ result' \in [Threads -> Outcomes]
<1>1. pc \in [Threads -> Labels] /\ result \in [Threads -> Outcomes]
  BY DEF TypeOK
<1>2. ASSUME NEW n \in Sizes, Connect(t, n)
      PROVE  pc' \in [Threads -> Labels] /\ result' \in [Threads -> Outcomes]
  BY <1>1, <1>2 DEF Connect, Goes, Labels, Outcomes
<1>3. CASE GetConnection(t)
  BY <1>1, <1>3 DEF GetConnection, Goes, Labels, Outcomes
<1>4. CASE CloseBegin(t)
  BY <1>1, <1>4 DEF CloseBegin, Goes, Labels, Outcomes
<1>5. CASE Reset(t)
  BY <1>1, <1>5 DEF Reset, Goes, Labels, Outcomes
<1>6. CASE AddConnection(t)
  <2>1. pc' \in [Threads -> Labels]
    BY <1>1, <1>6 DEF AddConnection, Goes, Labels
  <2>2. result' \in [Threads -> Outcomes]
    BY <1>1, <1>6 DEF AddConnection, Goes, Outcomes
  <2>3. QED
    BY <2>1, <2>2
<1>7. CASE Forget(t)
  BY <1>1, <1>7 DEF Forget, Goes, Labels, Outcomes
<1>8. QED
  BY <1>2, <1>3, <1>4, <1>5, <1>6, <1>7

(* What a method leaves in a connection object is the state of one.        *)
LEMMA ConnTypes ==
    ASSUME TypeOK, NEW c \in Conns
    PROVE  /\ \A b \in BOOLEAN : [conn[c] EXCEPT !.used = b] \in ConnState
           /\ [conn[c] EXCEPT !.live = FALSE, !.used = FALSE] \in ConnState
           /\ \A v \in 0..MaxVersion : NewConn(v) \in ConnState
           /\ \A live \in BOOLEAN : Reconnected(c, live) \in [Conns -> ConnState]
<1>1. conn[c] \in ConnState /\ pool.version \in 0..MaxVersion
  BY DEF TypeOK, PoolState
<1>2. \A live \in BOOLEAN :
         [[[conn[c] EXCEPT !.live = live] EXCEPT !.used = FALSE]
             EXCEPT !.opened = pool.version] \in ConnState
  BY <1>1 DEF ConnState
<1>3. \A live \in BOOLEAN : Reconnected(c, live) \in [Conns -> ConnState]
  BY <1>2 DEF TypeOK, Reconnected
<1>4. /\ \A b \in BOOLEAN : [conn[c] EXCEPT !.used = b] \in ConnState
      /\ [conn[c] EXCEPT !.live = FALSE, !.used = FALSE] \in ConnState
  BY <1>1 DEF ConnState
<1>5. \A v \in 0..MaxVersion : NewConn(v) \in ConnState
  BY DEF NewConn, ConnState
<1>6. QED
  BY <1>3, <1>4, <1>5

(* Every variable keeps its type in every step.                            *)
LEMMA TypesInductive == TypeOK /\ [Next]_vars => TypeOK'
<1> SUFFICES ASSUME TypeOK, [Next]_vars PROVE TypeOK'
  OBVIOUS
<1>1. /\ Len(queue) \in Nat /\ pool.size \in Nat /\ pool.version \in 0..MaxVersion
      /\ 1 \in 0..MaxVersion /\ \A n \in Sizes : n \in Nat
  <2>1. (\A n \in Sizes : n \in Nat) /\ MaxVersion \in Nat \ {0}
    BY PoolAssumption DEF PoolAssumption
  <2>2. pool.size \in Sizes \cup {0} /\ pool.version \in 0..MaxVersion
    BY DEF TypeOK, PoolState
  <2>3. Len(queue) \in Nat
    BY DEF TypeOK
  <2>4. QED
    <3>1. pool.size \in Nat
      BY <2>1, <2>2
    <3>2. 1 \in 0..MaxVersion
      BY <2>1
    <3>3. QED
      BY <2>1, <2>2, <2>3, <3>1, <3>2
<1>2. ASSUME NEW t \in Threads, NEW n \in Sizes, Connect(t, n) PROVE TypeOK'
  <2>1. pc' \in [Threads -> Labels] /\ result' \in [Threads -> Outcomes]
    BY <1>2, Moves
  <2>2. CASE UNCHANGED <<pool, queue, made, conn>>
    BY <1>2, <2>1, <2>2 DEF TypeOK, Connect
  <2>3. ASSUME NEW q \in [1..n -> Conns], queue' = q, made' = {q[i] : i \in 1..n},
               pool' = [size |-> n, version |-> 1],
               conn' = [c \in Conns |-> IF c \in made' THEN NewConn(1) ELSE conn[c]]
        PROVE  TypeOK'
    <3>1. q \in Seq(Conns) /\ Len(q) = n
      BY <1>1
    <3>2. pool' \in PoolState /\ pool'.size = n
      BY <1>1, <2>3 DEF PoolState
    <3>3. conn' \in [Conns -> ConnState]
      BY <1>1, <2>3, ConnTypes DEF TypeOK
    <3>4. made' \subseteq Conns /\ Len(queue') <= pool'.size
      BY <1>1, <2>3, <3>1, <3>2
    <3>5. QED
      BY <1>2, <2>1, <2>3, <3>1, <3>2, <3>3, <3>4 DEF TypeOK, Connect
  <2>4. QED
    BY <1>2, <2>2, <2>3 DEF Connect
<1>3. ASSUME NEW t \in Threads, GetConnection(t) PROVE TypeOK'
  <2>1. pc' \in [Threads -> Labels] /\ result' \in [Threads -> Outcomes]
    BY <1>3, Moves
  <2>2. CASE queue = <<>>
    BY <1>3, <2>1, <2>2 DEF TypeOK, GetConnection
  <2>3. CASE queue # <<>>
    <3> DEFINE c == Head(queue)
    <3>1. /\ c \in Conns /\ Tail(queue) \in Seq(Conns)
          /\ Len(Tail(queue)) <= pool.size
          /\ Append(Tail(queue), c) \in Seq(Conns)
          /\ Len(Append(Tail(queue), c)) <= pool.size
      BY <1>1, <2>3 DEF TypeOK
    <3>2. /\ UNCHANGED <<up, pool, made, cnx>>
          /\ queue' \in {Tail(queue), Append(Tail(queue), c)}
      BY <1>3, <2>3 DEF GetConnection, GiveBack
    <3>3. handle' = handle \/ handle' = [handle EXCEPT ![t] = c]
      BY <1>3, <2>3 DEF GetConnection
    <3>4. ASSUME NEW live \in BOOLEAN
          PROVE  /\ Reconnected(c, live) \in [Conns -> ConnState]
                 /\ [Reconnected(c, live) EXCEPT ![c].label = pool.version]
                       \in [Conns -> ConnState]
      <4> DEFINE f == Reconnected(c, live)
      <4>1. f \in [Conns -> ConnState]
        BY <3>1, ConnTypes
      <4>2. [f[c] EXCEPT !.label = pool.version] \in ConnState
        BY <1>1, <3>1, <4>1 DEF ConnState
      <4> HIDE DEF f
      <4>3. [f EXCEPT ![c].label = pool.version] \in [Conns -> ConnState]
        BY <3>1, <4>1, <4>2
      <4>4. QED
        BY <4>1, <4>3 DEF f
    <3>5. \/ conn' = conn
          \/ \E live \in BOOLEAN :
                conn' \in {[Reconnected(c, live) EXCEPT ![c].label = pool.version],
                           Reconnected(c, live)}
      BY <1>3, <2>3 DEF GetConnection, TypeOK
    <3>6. conn' \in [Conns -> ConnState]
      BY <3>4, <3>5 DEF TypeOK
    <3>7. QED
      BY <2>1, <3>1, <3>2, <3>3, <3>6 DEF TypeOK
  <2>4. QED
    BY <2>2, <2>3
<1>4. ASSUME NEW t \in Threads, Work(t) PROVE TypeOK'
  <2> DEFINE c == handle[t]
  <2>1. PICK rows \in BOOLEAN : conn' = [conn EXCEPT ![c].used = TRUE, ![c].unread = rows]
    BY <1>4 DEF Work
  <2>2. c \in Conns
    BY <1>4 DEF Work, TypeOK
  <2>3. [conn[c] EXCEPT !.used = TRUE, !.unread = rows] \in ConnState
    BY <2>2 DEF TypeOK, ConnState
  <2>4. conn' \in [Conns -> ConnState]
    BY <2>1, <2>2, <2>3 DEF TypeOK
  <2>5. QED
    BY <1>4, <2>4 DEF TypeOK, Work
<1>5. ASSUME NEW t \in Threads, CloseBegin(t) PROVE TypeOK'
  <2>1. pc' \in [Threads -> Labels] /\ result' \in [Threads -> Outcomes]
    BY <1>5, Moves
  <2>2. QED
    BY <1>5, <2>1 DEF TypeOK, CloseBegin
<1>6. ASSUME NEW t \in Threads, Reset(t) PROVE TypeOK'
  <2>1. pc' \in [Threads -> Labels] /\ result' \in [Threads -> Outcomes]
    BY <1>6, Moves
  <2>2. cnx[t] \in Conns => [conn[cnx[t]] EXCEPT !.used = FALSE] \in ConnState
    BY ConnTypes
  <2>3. conn' \in [Conns -> ConnState]
    BY <1>6, <2>2 DEF Reset, TypeOK
  <2>4. QED
    BY <1>6, <2>1, <2>3 DEF TypeOK, Reset
<1>7. ASSUME NEW t \in Threads, AddConnection(t) PROVE TypeOK'
  <2>1. pc' \in [Threads -> Labels] /\ result' \in [Threads -> Outcomes]
    BY <1>7, Moves
  <2>2. ASSUME NEW c \in Conns, Len(queue) < pool.size
        PROVE  Append(queue, c) \in Seq(Conns) /\ Len(Append(queue, c)) <= pool.size
    BY <1>1, <2>2 DEF TypeOK
  <2>3. CASE UNCHANGED <<queue, made, conn>>
    BY <1>7, <2>1, <2>3 DEF TypeOK, AddConnection
  <2>4. CASE /\ Len(queue) < pool.size /\ cnx[t] # None
             /\ queue' = Append(queue, cnx[t])
             /\ UNCHANGED <<made, conn>>
    BY <1>7, <2>1, <2>2, <2>4 DEF TypeOK, AddConnection
  <2>5. ASSUME NEW c \in Conns \ made, Len(queue) < pool.size,
               made' = made \cup {c}, queue' = Append(queue, c),
               conn' = [conn EXCEPT ![c] = NewConn(pool.version)]
        PROVE  TypeOK'
    <3>1. conn' \in [Conns -> ConnState]
      BY <1>1, <2>5, ConnTypes DEF TypeOK
    <3>2. QED
      BY <1>7, <2>1, <2>2, <2>5, <3>1 DEF TypeOK, AddConnection
  <2>6. QED
    BY <1>7, <2>3, <2>4, <2>5 DEF AddConnection
<1>8. ASSUME NEW t \in Threads, Forget(t) PROVE TypeOK'
  <2>1. pc' \in [Threads -> Labels] /\ result' \in [Threads -> Outcomes]
    BY <1>8, Moves
  <2>2. QED
    BY <1>8, <2>1 DEF TypeOK, Forget
<1>9. CASE SetConfig
  <2>1. pool' \in PoolState /\ pool'.size = pool.size
    BY <1>1, <1>9, PoolAssumption DEF SetConfig, TypeOK, PoolState, PoolAssumption
  <2>2. QED
    BY <1>9, <2>1 DEF SetConfig, TypeOK
<1>10. CASE ServerStops
  <2>1. conn' \in [Conns -> ConnState]
    BY <1>10, ConnTypes DEF ServerStops
  <2>2. QED
    BY <1>10, <2>1 DEF ServerStops, TypeOK
<1>11. CASE ServerStarts
  BY <1>11 DEF ServerStarts, TypeOK
<1>12. ASSUME NEW c \in Conns, Expires(c) PROVE TypeOK'
  <2>1. conn' \in [Conns -> ConnState]
    BY <1>12, ConnTypes DEF Expires, TypeOK
  <2>2. QED
    BY <1>12, <2>1 DEF Expires, TypeOK
<1>13. CASE UNCHANGED vars
  BY <1>13 DEF vars, TypeOK
<1>14. QED
  BY <1>2, <1>3, <1>4, <1>5, <1>6, <1>7, <1>8, <1>9, <1>10, <1>11, <1>12, <1>13
     DEF Next, Thread

(* The initial state has the types.                                        *)
LEMMA InitTypes == Init => TypeOK
<1> SUFFICES ASSUME Init PROVE TypeOK
  OBVIOUS
<1>1. DeadConn \in ConnState
  <2>1. 0 \in 0..MaxVersion
    BY PoolAssumption DEF PoolAssumption
  <2>2. QED
    BY <2>1 DEF DeadConn, NewConn, ConnState
<1>2. [size |-> 0, version |-> 0] \in PoolState
  BY PoolAssumption DEF PoolAssumption, PoolState
<1>3. pc \in [Threads -> Labels] /\ result \in [Threads -> Outcomes]
  BY DEF Init, Labels, Outcomes
<1>4. Len(queue) <= pool.size /\ queue \in Seq(Conns)
  BY DEF Init
<1>5. QED
  BY <1>1, <1>2, <1>3, <1>4 DEF Init, TypeOK

(* The types hold in every state the pool can reach.                       *)
THEOREM PoolTypes == Spec => []TypeOK
  BY InitTypes, TypesInductive, PTL DEF Spec

-----------------------------------------------------------------------------
(* Where the threads are goes on deciding their handles.                   *)
LEMMA PlacesInductive == TypeOK /\ Places /\ [Next]_vars => Places'
<1> SUFFICES ASSUME TypeOK, Places, [Next]_vars PROVE Places'
  OBVIOUS
<1>1. /\ pc \in [Threads -> Labels] /\ handle \in [Threads -> Conns \cup {None}]
      /\ cnx \in [Threads -> Conns \cup {None}]
  BY DEF TypeOK
<1>2. ASSUME NEW t \in Threads, NEW n \in Sizes, Connect(t, n) PROVE Places'
  <2>1. n # 0
    BY PoolAssumption DEF PoolAssumption
  <2>2. pool'.size = 0 => pc'[t] = "free" /\ pool.size = 0
    BY <1>1, <1>2, <2>1 DEF Connect, Goes
  <2>3. QED
    BY <1>1, <1>2, <2>2 DEF Places, Connect, Goes
<1>3. ASSUME NEW t \in Threads, GetConnection(t) PROVE Places'
  BY <1>1, <1>3 DEF Places, GetConnection, Goes
<1>4. ASSUME NEW t \in Threads, Work(t) PROVE Places'
  BY <1>4 DEF Places, Work
<1>5. ASSUME NEW t \in Threads, CloseBegin(t) PROVE Places'
  BY <1>1, <1>5 DEF Places, CloseBegin, Goes
<1>6. ASSUME NEW t \in Threads, Reset(t) PROVE Places'
  BY <1>1, <1>6 DEF Places, Reset, Goes
<1>7. ASSUME NEW t \in Threads, AddConnection(t) PROVE Places'
  BY <1>1, <1>7 DEF Places, AddConnection, Goes
<1>8. ASSUME NEW t \in Threads, Forget(t) PROVE Places'
  BY <1>1, <1>8 DEF Places, Forget, Goes
<1>9. CASE SetConfig
  <2>1. pool'.size = pool.size
    BY <1>9 DEF SetConfig, TypeOK, PoolState
  <2>2. QED
    BY <1>9, <2>1 DEF Places, SetConfig
<1>10. CASE ServerStops
  BY <1>10 DEF Places, ServerStops
<1>11. CASE ServerStarts
  BY <1>11 DEF Places, ServerStarts
<1>12. ASSUME NEW c \in Conns, Expires(c) PROVE Places'
  BY <1>12 DEF Places, Expires
<1>13. CASE UNCHANGED vars
  BY <1>13 DEF Places, vars
<1>14. QED
  BY <1>2, <1>3, <1>4, <1>5, <1>6, <1>7, <1>8, <1>9, <1>10, <1>11, <1>12, <1>13
     DEF Next, Thread

(* A step that moves no connection between the queue and the threads.      *)
LEMMA SameOwners ==
    ASSUME Owners, queue' = queue, made' = made, pool'.size = pool.size,
           \A u \in Threads : Holds(u)' = Holds(u) /\ handle'[u] = handle[u]
    PROVE  Owners'
  BY DEF Owners, Distinct, Queued

(* No step gives a connection a second owner, or leaves one without.       *)
LEMMA OwnersInductive == TypeOK /\ Places /\ Owners /\ [Next]_vars => Owners'
<1> SUFFICES ASSUME TypeOK, Places, Owners, [Next]_vars PROVE Owners'
  OBVIOUS
<1>1. /\ pc \in [Threads -> Labels] /\ handle \in [Threads -> Conns \cup {None}]
      /\ queue \in Seq(Conns) /\ made \subseteq Conns
      /\ None \notin Conns
  BY PoolAssumption DEF TypeOK, PoolAssumption
<1>2. ASSUME NEW t \in Threads, NEW n \in Sizes, Connect(t, n) PROVE Owners'
  <2>1. \A u \in Threads : pc[u] = "free" => ~Holds(u)
    BY DEF Places, Holds
  <2>2. CASE UNCHANGED <<pool, queue, made, conn>>
    <3>1. ~Holds(t) /\ handle[t] = None
      BY <1>2, <2>1 DEF Connect, Places
    <3>2. \A u \in Threads : Holds(u)' = Holds(u) /\ handle'[u] = handle[u]
      BY <1>1, <1>2, <2>2, <3>1 DEF Connect, Goes, Holds
    <3>3. QED
      BY <2>2, <3>2, SameOwners
  <2>3. ASSUME NEW q \in [1..n -> Conns], pool.size = 0,
               \A i, j \in 1..n : q[i] = q[j] => i = j,
               queue' = q, made' = {q[i] : i \in 1..n},
               pool' = [size |-> n, version |-> 1]
        PROVE  Owners'
    <3>1. n # 0
      BY PoolAssumption DEF PoolAssumption
    <3>2. \A u \in Threads : handle[u] = None
      BY <2>3 DEF Places
    <3>3. \A u \in Threads : ~Holds(u)'
      BY <1>2, <3>2 DEF Connect, Holds
    <3>4. DOMAIN queue' = 1..n /\ Distinct(queue)' /\ Queued' = made' /\ made' \subseteq Conns
      BY <2>3 DEF Distinct, Queued
    <3>5. pool'.size # 0
      BY <2>3, <3>1
    <3>6. QED
      BY <3>3, <3>4, <3>5 DEF Owners
  <2>4. QED
    BY <1>2, <2>2, <2>3 DEF Connect
<1>3. ASSUME NEW t \in Threads, GetConnection(t) PROVE Owners'
  <2>1. ~Holds(t) /\ handle[t] = None /\ UNCHANGED <<pool, made>> /\ pc[t] = "get"
    BY <1>3 DEF GetConnection, Places, Holds
  <2>2. CASE queue = <<>>
    <3>1. \A u \in Threads : Holds(u)' = Holds(u) /\ handle'[u] = handle[u]
      BY <1>1, <1>3, <2>1, <2>2 DEF GetConnection, Goes, Holds
    <3>2. QED
      BY <1>3, <2>1, <2>2, <3>1, SameOwners DEF GetConnection
  <2>3. CASE queue # <<>>
    <3> DEFINE c == Head(queue)
    <3>1. Distinct(queue)
      BY DEF Owners
    <3>2. /\ c \in Conns /\ c \in Queued
          /\ Tail(queue) \in Seq(Conns)
          /\ Distinct(Tail(queue)) /\ InQueue(Tail(queue)) = Queued \ {c}
      BY <1>1, <2>3, <3>1, TakeFirst DEF Queued, InQueue
    <3>3. pool.size # 0
      BY <2>3 DEF Owners
    <3>4. CASE queue' = Tail(queue) /\ handle' = [handle EXCEPT ![t] = c] /\ Goes(t, "using", "none")
      <4>1. /\ Holds(t)' /\ handle'[t] = c
            /\ \A u \in Threads \ {t} : Holds(u)' = Holds(u) /\ handle'[u] = handle[u]
        BY <1>1, <3>2, <3>4 DEF Goes, Holds
      <4>2. Distinct(queue)' /\ Queued' = Queued \ {c}
        BY <3>2, <3>4 DEF Queued, InQueue, Distinct
      <4>3. c \in made /\ \A u \in Threads : ~(Holds(u) /\ handle[u] = c)
        BY <3>2 DEF Owners
      <4>4. QED
        BY <2>1, <3>3, <4>1, <4>2, <4>3 DEF Owners
    <3>5. CASE GiveBack(c) /\ Goes(t, "free", "not reconnected") /\ handle' = handle
      <4>1. \A u \in Threads : Holds(u)' = Holds(u) /\ handle'[u] = handle[u]
        BY <1>1, <2>1, <3>5 DEF Goes, Holds
      <4>2. Distinct(queue)' /\ Queued' = Queued
        <5>1. /\ Distinct(Append(Tail(queue), c))
              /\ InQueue(Append(Tail(queue), c)) = Queued
          BY <1>1, <2>3, <3>1, Rotate DEF Queued, InQueue
        <5>2. queue' = Append(Tail(queue), c)
          BY <3>5 DEF GiveBack
        <5>3. QED
          BY <5>1, <5>2 DEF Queued, InQueue, Distinct
      <4>3. QED
        BY <2>1, <3>3, <4>1, <4>2 DEF Owners
    <3>6. QED
      BY <1>3, <2>3, <3>4, <3>5 DEF GetConnection
  <2>4. QED
    BY <2>2, <2>3
<1>4. ASSUME NEW t \in Threads, Work(t) PROVE Owners'
  <2>1. \A u \in Threads : Holds(u)' = Holds(u) /\ handle'[u] = handle[u]
    BY <1>4 DEF Work, Holds
  <2>2. QED
    BY <1>4, <2>1, SameOwners DEF Work
<1>5. ASSUME NEW t \in Threads, CloseBegin(t) PROVE Owners'
  <2>1. \A u \in Threads : Holds(u)' = Holds(u) /\ handle'[u] = handle[u]
    BY <1>1, <1>5 DEF CloseBegin, Goes, Holds
  <2>2. QED
    BY <1>5, <2>1, SameOwners DEF CloseBegin
<1>6. ASSUME NEW t \in Threads, Reset(t) PROVE Owners'
  <2>1. \A u \in Threads : Holds(u)' = Holds(u) /\ handle'[u] = handle[u]
    BY <1>1, <1>6 DEF Reset, Goes, Holds
  <2>2. QED
    BY <1>6, <2>1, SameOwners DEF Reset
<1>7. ASSUME NEW t \in Threads, AddConnection(t) PROVE Owners'
  <2>1. pc[t] = "add" /\ cnx[t] = handle[t] /\ pool.size # 0 /\ UNCHANGED <<pool, handle>>
    BY <1>7 DEF AddConnection, Places
  <2>2. CASE UNCHANGED <<queue, made>> /\ (Goes(t, "using", "full") \/ Goes(t, "using", "unreachable"))
    <3>1. \A u \in Threads : Holds(u)' = Holds(u) /\ handle'[u] = handle[u]
      BY <1>1, <2>1, <2>2 DEF Goes, Holds
    <3>2. QED
      BY <2>1, <2>2, <3>1, SameOwners
  <2>3. CASE /\ cnx[t] # None /\ queue' = Append(queue, cnx[t])
             /\ Goes(t, "forget", result[t]) /\ made' = made
    <3> DEFINE c == cnx[t]
    <3>1. /\ Holds(t) /\ ~Holds(t)' /\ handle[t] = c /\ c \in Conns
          /\ \A u \in Threads \ {t} : Holds(u)' = Holds(u) /\ handle'[u] = handle[u]
      BY <1>1, <2>1, <2>3 DEF Goes, Holds
    <3>2. c \in made /\ c \notin Queued /\ Distinct(queue)
      BY <3>1 DEF Owners
    <3>3. Distinct(queue)' /\ Queued' = Queued \cup {c}
      BY <1>1, <2>3, <3>1, <3>2, PutLast DEF Queued, InQueue, Distinct
    <3>4. QED
      BY <2>1, <2>3, <3>1, <3>2, <3>3 DEF Owners
  <2>4. ASSUME NEW c \in Conns \ made, cnx[t] = None,
               made' = made \cup {c}, queue' = Append(queue, c),
               Goes(t, "forget", result[t])
        PROVE  Owners'
    <3>1. \A u \in Threads : Holds(u)' = Holds(u) /\ handle'[u] = handle[u]
      BY <1>1, <2>1, <2>4 DEF Goes, Holds
    <3>2. c \notin Queued /\ Distinct(queue)
      BY <2>4 DEF Owners
    <3>3. Distinct(queue)' /\ Queued' = Queued \cup {c}
      BY <1>1, <2>4, <3>2, PutLast DEF Queued, InQueue, Distinct
    <3>4. \A u \in Threads : ~(Holds(u) /\ handle[u] = c)
      BY <2>4 DEF Owners
    <3>5. QED
      BY <2>1, <2>4, <3>1, <3>2, <3>3, <3>4 DEF Owners
  <2>5. QED
    BY <1>7, <2>2, <2>3, <2>4 DEF AddConnection
<1>8. ASSUME NEW t \in Threads, Forget(t) PROVE Owners'
  <2>1. ~Holds(t) /\ ~Holds(t)'
    BY <1>1, <1>8 DEF Forget, Holds
  <2>2. \A u \in Threads \ {t} : Holds(u)' = Holds(u) /\ handle'[u] = handle[u]
    BY <1>1, <1>8 DEF Forget, Goes, Holds
  <2>3. queue' = queue /\ made' = made /\ pool' = pool
    BY <1>8 DEF Forget
  <2>4. QED
    BY <2>1, <2>2, <2>3 DEF Owners, Distinct, Queued
<1>9. CASE SetConfig
  <2>1. pool'.size = pool.size
    BY <1>9 DEF SetConfig, TypeOK, PoolState
  <2>2. QED
    BY <1>9, <2>1, SameOwners DEF SetConfig, Holds
<1>10. CASE ServerStops
  BY <1>10, SameOwners DEF ServerStops, Holds
<1>11. CASE ServerStarts
  BY <1>11, SameOwners DEF ServerStarts, Holds
<1>12. ASSUME NEW c \in Conns, Expires(c) PROVE Owners'
  BY <1>12, SameOwners DEF Expires, Holds
<1>13. CASE UNCHANGED vars
  BY <1>13, SameOwners DEF vars, Holds
<1>14. QED
  BY <1>2, <1>3, <1>4, <1>5, <1>6, <1>7, <1>8, <1>9, <1>10, <1>11, <1>12, <1>13
     DEF Next, Thread

-----------------------------------------------------------------------------
(* The pool is never short of the connections it was made with.            *)
LEMMA EnoughInductive == TypeOK /\ Enough /\ [Next]_vars => Enough'
<1> SUFFICES ASSUME TypeOK, Enough, [Next]_vars PROVE Enough'
  OBVIOUS
<1>1. ASSUME made' = made, pool'.size = pool.size PROVE Enough'
  BY <1>1 DEF Enough
<1>2. ASSUME NEW t \in Threads, NEW n \in Sizes, Connect(t, n) PROVE Enough'
  <2>1. CASE UNCHANGED <<pool, made>>
    BY <1>1, <2>1
  <2>2. ASSUME NEW q \in [1..n -> Conns], \A i, j \in 1..n : q[i] = q[j] => i = j,
               made' = {q[i] : i \in 1..n}, pool' = [size |-> n, version |-> 1]
        PROVE  Enough'
    <3>1. n \in Nat
      BY PoolAssumption DEF PoolAssumption
    <3>2. q \in Bijection(1..n, made')
      BY <2>2 DEF Bijection, Injection, Surjection, IsInjective
    <3>3. ExistsBijection(1..n, made')
      BY <3>2 DEF ExistsBijection
    <3>4. IsFiniteSet(made') /\ Cardinality(made') = n
      BY <3>1, <3>3, FS_CountingElements, FS_NatBijection
    <3>5. QED
      BY <2>2, <3>1, <3>4 DEF Enough
  <2>3. QED
    BY <1>2, <2>1, <2>2 DEF Connect
<1>3. ASSUME NEW t \in Threads, AddConnection(t) PROVE Enough'
  <2>1. CASE UNCHANGED <<pool, made>>
    BY <1>1, <2>1
  <2>2. ASSUME NEW c \in Conns \ made, made' = made \cup {c}, pool' = pool
        PROVE  Enough'
    <3>1. IsFiniteSet(made') /\ Cardinality(made') = Cardinality(made) + 1
      BY <2>2, FS_AddElement DEF Enough
    <3>2. Cardinality(made) \in Nat
      BY FS_CardinalityType DEF Enough
    <3>3. pool.size \in Nat
      <4>1. \A n \in Sizes : n \in Nat
        BY PoolAssumption DEF PoolAssumption
      <4>2. pool.size \in Sizes \cup {0}
        BY DEF TypeOK, PoolState
      <4>3. QED
        BY <4>1, <4>2
    <3>4. QED
      BY <2>2, <3>1, <3>2, <3>3 DEF Enough
  <2>3. QED
    BY <1>3, <2>1, <2>2 DEF AddConnection
<1>4. ASSUME NEW t \in Threads,
             GetConnection(t) \/ Work(t) \/ CloseBegin(t) \/ Reset(t) \/ Forget(t)
      PROVE  Enough'
  BY <1>1, <1>4 DEF GetConnection, Work, CloseBegin, Reset, Forget
<1>5. CASE SetConfig
  <2>1. pool'.size = pool.size
    BY <1>5 DEF SetConfig, TypeOK, PoolState
  <2>2. QED
    BY <1>1, <1>5, <2>1 DEF SetConfig
<1>6. CASE \/ ServerStops \/ ServerStarts \/ \E c \in Conns : Expires(c)
           \/ UNCHANGED vars
  BY <1>1, <1>6 DEF ServerStops, ServerStarts, Expires, vars
<1>7. QED
  BY <1>2, <1>3, <1>4, <1>5, <1>6 DEF Next, Thread

(* With pool_reset_session the marks of a borrower do not reach the queue  *)
(* on a session that could be handed out as it is.                         *)
LEMMA SessionsInductive ==
    ResetSession /\ TypeOK /\ Places /\ Owners /\ Sessions /\ [Next]_vars => Sessions'
<1> SUFFICES ASSUME ResetSession, TypeOK, Places, Owners, Sessions, [Next]_vars
             PROVE  Sessions'
  OBVIOUS
<1>1. /\ pc \in [Threads -> Labels] /\ handle \in [Threads -> Conns \cup {None}]
      /\ cnx \in [Threads -> Conns \cup {None}]
      /\ queue \in Seq(Conns) /\ conn \in [Conns -> ConnState]
      /\ None \notin Conns
  BY PoolAssumption DEF TypeOK, PoolAssumption
<1>2. /\ pool.version \in Nat
      /\ \A c \in Conns : conn[c].label \in Nat /\ conn[c].opened \in Nat
  BY <1>1 DEF TypeOK, PoolState, ConnState
<1>3. ASSUME NEW t \in Threads, NEW n \in Sizes, Connect(t, n) PROVE Sessions'
  <2>1. pc' = [pc EXCEPT ![t] = "get"] \/ pc' = [pc EXCEPT ![t] = "free"]
    BY <1>3 DEF Connect, Goes
  <2>2. CASE UNCHANGED <<pool, queue, made, conn>>
    BY <1>1, <1>3, <2>1, <2>2 DEF Connect, Sessions, Queued
  <2>3. ASSUME NEW q \in [1..n -> Conns], pool.size = 0,
               queue' = q, made' = {q[i] : i \in 1..n},
               pool' = [size |-> n, version |-> 1],
               conn' = [c \in Conns |-> IF c \in made' THEN NewConn(1) ELSE conn[c]]
        PROVE  Sessions'
    <3>1. /\ ~NewConn(1).used /\ NewConn(1).label = 1 /\ NewConn(1).opened = 1
          /\ pool'.version = 1 /\ pool.version = 0
      BY <2>3 DEF NewConn, Sessions
    <3>2. n # 0 /\ pool'.size = n
      BY <2>3, PoolAssumption DEF PoolAssumption
    <3>3. \A c \in Conns : conn'[c] = NewConn(1) \/ (conn'[c] = conn[c] /\ c \notin made')
      BY <2>3
    <3>4. \A u \in Threads : pc'[u] # "add"
      BY <1>1, <2>1, <2>3 DEF Places
    <3>5. \A c \in Queued' : c \in Conns /\ conn'[c] = NewConn(1)
      BY <2>3 DEF Queued
    <3>6. \A c \in Conns : /\ conn'[c].used => conn'[c].live
                           /\ conn'[c].label <= 1
                           /\ conn'[c].label = 1 => conn'[c].opened = 1
      BY <1>2, <3>1, <3>3 DEF Sessions
    <3>7. QED
      BY <3>1, <3>2, <3>4, <3>5, <3>6 DEF Sessions
  <2>4. QED
    BY <1>3, <2>2, <2>3 DEF Connect
<1>4. ASSUME NEW t \in Threads, GetConnection(t) PROVE Sessions'
  <2>1. UNCHANGED <<up, pool, made, cnx>> /\ \A u \in Threads : pc'[u] = "add" => pc[u] = "add"
    BY <1>1, <1>4 DEF GetConnection, Goes
  <2>2. CASE queue = <<>>
    BY <1>4, <2>1, <2>2 DEF GetConnection, Sessions, Queued
  <2>3. CASE queue # <<>>
    <3> DEFINE c == Head(queue)
    <3>1. Distinct(queue)
      BY DEF Owners
    <3>2. /\ c \in Conns /\ c \in Queued
          /\ Tail(queue) \in Seq(Conns)
          /\ Distinct(Tail(queue)) /\ InQueue(Tail(queue)) = Queued \ {c}
      BY <1>1, <2>3, <3>1, TakeFirst DEF Queued, InQueue
    <3>3. InQueue(Append(Tail(queue), c)) = Queued
      <4>1. InQueue(Append(Tail(queue), c)) = InQueue(queue)
        BY <1>1, <2>3, <3>1, Rotate
      <4>2. QED
        BY <4>1 DEF Queued, InQueue
    <3>4. queue' = Tail(queue) \/ queue' = Append(Tail(queue), c)
      BY <1>4, <2>3 DEF GetConnection, GiveBack
    <3>5. Queued' \subseteq Queued
      BY <3>2, <3>3, <3>4 DEF Queued, InQueue
    <3>6. \/ conn' = conn
          \/ \E live \in BOOLEAN :
                \/ conn' = [Reconnected(c, live) EXCEPT ![c].label = pool.version]
                \/ conn' = Reconnected(c, live)
      BY <1>4, <2>3 DEF GetConnection, TypeOK
    <3>7. \/ conn' = conn
          \/ /\ \A d \in Conns \ {c} : conn'[d] = conn[d]
             /\ ~conn'[c].used /\ conn'[c].opened = pool.version
             /\ conn'[c].label \in {conn[c].label, pool.version}
      <4>1. ASSUME NEW live \in BOOLEAN
            PROVE  LET f == Reconnected(c, live)
                       g == [f EXCEPT ![c].label = pool.version]
                   IN  /\ \A d \in Conns \ {c} : f[d] = conn[d] /\ g[d] = conn[d]
                       /\ ~f[c].used /\ f[c].opened = pool.version
                       /\ ~g[c].used /\ g[c].opened = pool.version
                       /\ f[c].label = conn[c].label /\ g[c].label = pool.version
        <5> DEFINE f == Reconnected(c, live)
        <5>1. f \in [Conns -> ConnState] /\ \A d \in Conns \ {c} : f[d] = conn[d]
          BY <1>1, <3>2, ConnTypes DEF Reconnected
        <5>2. ~f[c].used /\ f[c].opened = pool.version /\ f[c].label = conn[c].label
          BY <1>1, <3>2 DEF Reconnected, ConnState
        <5> HIDE DEF f
        <5>3. [f EXCEPT ![c].label = pool.version][c] = [f[c] EXCEPT !.label = pool.version]
          BY <3>2, <5>1
        <5>4. \A d \in Conns \ {c} : [f EXCEPT ![c].label = pool.version][d] = f[d]
          BY <3>2, <5>1
        <5>5. LET r == [f[c] EXCEPT !.label = pool.version]
              IN  r.used = f[c].used /\ r.opened = f[c].opened /\ r.label = pool.version
          BY <3>2, <5>1 DEF ConnState
        <5>6. QED
          BY <5>1, <5>2, <5>3, <5>4, <5>5 DEF f
      <4>2. CASE conn' = conn
        BY <4>2
      <4>3. ASSUME NEW live \in BOOLEAN, conn' = Reconnected(c, live)
            PROVE  /\ \A d \in Conns \ {c} : conn'[d] = conn[d]
                   /\ ~conn'[c].used /\ conn'[c].opened = pool.version
                   /\ conn'[c].label = conn[c].label
        BY <4>1, <4>3
      <4>4. ASSUME NEW live \in BOOLEAN,
                   conn' = [Reconnected(c, live) EXCEPT ![c].label = pool.version]
            PROVE  /\ \A d \in Conns \ {c} : conn'[d] = conn[d]
                   /\ ~conn'[c].used /\ conn'[c].opened = pool.version
                   /\ conn'[c].label = pool.version
        BY <4>1, <4>4
      <4>5. QED
        BY <3>6, <4>2, <4>3, <4>4
    <3>8. /\ \A d \in Conns : conn'[d].used => conn'[d].live /\ conn'[d] = conn[d]
          /\ \A d \in Conns : /\ conn'[d].label <= pool.version
                              /\ conn'[d].label = pool.version => conn'[d].opened = pool.version
      BY <1>2, <3>2, <3>7 DEF Sessions
    <3>9. \A d \in Queued : d \in Conns
      BY <1>1 DEF Queued
    <3>10. QED
      BY <1>1, <2>1, <3>5, <3>8, <3>9 DEF Sessions
  <2>4. QED
    BY <2>2, <2>3
<1>5. ASSUME NEW t \in Threads, Work(t) PROVE Sessions'
  <2> DEFINE c == handle[t]
  <2>1. /\ c \in Conns /\ c \in made /\ c \notin Queued /\ conn[c].live /\ Holds(t)
        /\ UNCHANGED <<pool, queue, pc, cnx>> /\ pc[t] = "using"
    BY <1>1, <1>5 DEF Work, Holds, Owners
  <2>2. /\ \A d \in Conns \ {c} : conn'[d] = conn[d]
        /\ conn'[c].live /\ conn'[c].label = conn[c].label /\ conn'[c].opened = conn[c].opened
    BY <1>1, <1>5, <2>1 DEF Work, ConnState
  <2>3. \A u \in Threads : pc[u] = "add" /\ cnx[u] # None => cnx[u] # c /\ cnx[u] \in Conns
    <3>1. SUFFICES ASSUME NEW u \in Threads, pc[u] = "add", cnx[u] # None
                   PROVE  cnx[u] # c /\ cnx[u] \in Conns
      OBVIOUS
    <3>2. cnx[u] = handle[u] /\ Holds(u) /\ u # t
      BY <2>1, <3>1 DEF Places, Holds
    <3>3. QED
      BY <1>1, <2>1, <3>1, <3>2 DEF Owners
  <2>4. \A d \in Queued : d \in Conns
    BY <1>1 DEF Queued
  <2>5. QED
    BY <2>1, <2>2, <2>3, <2>4 DEF Sessions, Queued
<1>6. ASSUME NEW t \in Threads, CloseBegin(t) PROVE Sessions'
  <2>1. pc' = [pc EXCEPT ![t] = "reset"] /\ cnx' = [cnx EXCEPT ![t] = handle[t]]
    BY <1>6 DEF CloseBegin, Goes
  <2>2. \A u \in Threads : pc'[u] = "add" => pc[u] = "add" /\ cnx'[u] = cnx[u]
    BY <1>1, <2>1
  <2>3. QED
    BY <1>6, <2>2 DEF CloseBegin, Sessions, Queued
<1>7. ASSUME NEW t \in Threads, Reset(t) PROVE Sessions'
  <2> DEFINE c == cnx[t]
  <2>1. UNCHANGED <<pool, queue, cnx>> /\ \A u \in Threads \ {t} : pc'[u] = pc[u]
    BY <1>1, <1>7 DEF Reset, Goes
  <2>2. \A d \in Conns : conn'[d] = conn[d] \/ conn'[d] = [conn[d] EXCEPT !.used = FALSE]
    BY <1>1, <1>7 DEF Reset
  <2>3. \A d \in Conns : /\ conn'[d].used => conn[d].used
                         /\ conn'[d].live = conn[d].live /\ conn'[d].unread = conn[d].unread
                         /\ conn'[d].label = conn[d].label /\ conn'[d].opened = conn[d].opened
    <3>1. \A r \in ConnState :
             LET w == [r EXCEPT !.used = FALSE]
             IN  /\ ~w.used /\ w.live = r.live /\ w.unread = r.unread
                 /\ w.label = r.label /\ w.opened = r.opened
      BY DEF ConnState
    <3>2. ASSUME NEW d \in Conns, conn'[d] = [conn[d] EXCEPT !.used = FALSE]
          PROVE  /\ ~conn'[d].used
                 /\ conn'[d].live = conn[d].live /\ conn'[d].unread = conn[d].unread
                 /\ conn'[d].label = conn[d].label /\ conn'[d].opened = conn[d].opened
      <4>1. conn[d] \in ConnState
        BY <1>1
      <4>2. QED
        BY <3>1, <3>2, <4>1
    <3>3. QED
      BY <2>2, <3>2
  <2>4. c # None => (conn'[c].used => conn'[c].unread)
    <3>1. SUFFICES ASSUME c \in Conns PROVE conn'[c].used => conn'[c].unread
      BY <1>1
    <3>2. CASE conn[c].live /\ ~conn[c].unread
      BY <1>1, <1>7, <3>1, <3>2 DEF Reset, ConnState
    <3>3. CASE ~conn[c].live \/ conn[c].unread
      BY <2>3, <3>1, <3>3 DEF Sessions
    <3>4. QED
      BY <3>2, <3>3
  <2>5. \A d \in Queued : d \in Conns
    BY <1>1 DEF Queued
  <2>6. QED
    BY <1>1, <2>1, <2>3, <2>4, <2>5 DEF Sessions, Queued
<1>8. ASSUME NEW t \in Threads, AddConnection(t) PROVE Sessions'
  <2>1. /\ UNCHANGED <<pool, cnx>> /\ pc[t] = "add"
        /\ \A u \in Threads : pc'[u] = "add" => pc[u] = "add"
    BY <1>1, <1>8 DEF AddConnection, Goes
  <2>2. CASE UNCHANGED <<queue, conn>>
    BY <2>1, <2>2 DEF Sessions, Queued
  <2>3. CASE cnx[t] # None /\ queue' = Append(queue, cnx[t]) /\ conn' = conn
    <3>1. \A d \in Queued' : d \in Queued \/ d = cnx[t]
      <4>1. cnx[t] \in Conns
        BY <1>1, <2>3
      <4>2. QED
        BY <1>1, <2>3, <4>1, LastIsNew DEF Queued, InQueue
    <3>2. QED
      BY <2>1, <2>3, <3>1 DEF Sessions
  <2>4. ASSUME NEW c \in Conns \ made, queue' = Append(queue, c),
               conn' = [conn EXCEPT ![c] = NewConn(pool.version)]
        PROVE  Sessions'
    <3>1. \A d \in Queued' : d \in Queued \/ d = c
      BY <1>1, <2>4, LastIsNew DEF Queued, InQueue
    <3>2. /\ ~NewConn(pool.version).used
          /\ NewConn(pool.version).label = pool.version
          /\ NewConn(pool.version).opened = pool.version
      BY DEF NewConn
    <3>3. /\ conn'[c] = NewConn(pool.version)
          /\ \A d \in Conns : d # c => conn'[d] = conn[d]
      BY <1>1, <2>4
    <3>4. \A d \in Queued : d \in Conns
      BY <1>1 DEF Queued
    <3>5. QED
      <4>1. \A d \in Conns : /\ conn'[d].used => conn'[d].live /\ conn'[d] = conn[d]
                             /\ conn'[d].label <= pool.version
                             /\ conn'[d].label = pool.version => conn'[d].opened = pool.version
        BY <1>2, <3>2, <3>3 DEF Sessions
      <4>2. \A d \in Queued' : conn'[d].used => conn'[d].unread
        BY <2>4, <3>1, <3>2, <3>3, <3>4 DEF Sessions
      <4>3. QED
        BY <1>1, <2>1, <4>1, <4>2 DEF Sessions
  <2>5. QED
    BY <1>8, <2>2, <2>3, <2>4 DEF AddConnection
<1>9. ASSUME NEW t \in Threads, Forget(t) PROVE Sessions'
  <2>1. \A u \in Threads : pc'[u] = "add" => pc[u] = "add" /\ cnx'[u] = cnx[u]
    BY <1>1, <1>9 DEF Forget, Goes
  <2>2. QED
    BY <1>9, <2>1 DEF Forget, Sessions, Queued
<1>10. CASE SetConfig
  <2>1. pool'.version = pool.version + 1 /\ pool'.size = pool.size /\ pool.size # 0
    BY <1>10 DEF SetConfig, TypeOK, PoolState
  <2>2. \A c \in Conns : conn[c].label <= pool.version + 1 /\ conn[c].label # pool.version + 1
    BY <1>2 DEF Sessions
  <2>3. QED
    BY <1>10, <2>1, <2>2 DEF SetConfig, Sessions, Queued
<1>11. ASSUME UNCHANGED <<pool, queue, pc, cnx>>,
              \A d \in Conns : /\ conn'[d].label = conn[d].label
                               /\ conn'[d].opened = conn[d].opened
                               /\ conn'[d].used => conn'[d] = conn[d]
       PROVE  Sessions'
  <2>1. \A d \in Queued : d \in Conns
    BY <1>1 DEF Queued
  <2>2. QED
    BY <1>1, <1>11, <2>1 DEF Sessions, Queued
<1>12. CASE ServerStops
  BY <1>1, <1>11, <1>12 DEF ServerStops, ConnState
<1>13. ASSUME NEW c \in Conns, Expires(c) PROVE Sessions'
  BY <1>1, <1>11, <1>13 DEF Expires, ConnState
<1>14. CASE ServerStarts \/ UNCHANGED vars
  BY <1>11, <1>14 DEF ServerStarts, vars
<1>15. QED
  BY <1>3, <1>4, <1>5, <1>6, <1>7, <1>8, <1>9, <1>10, <1>12, <1>13, <1>14
     DEF Next, Thread

-----------------------------------------------------------------------------
(* The pool starts with nothing made and nobody anywhere.                  *)
LEMMA StartsEmpty == Init => TypeOK /\ Places /\ Owners /\ Enough /\ Sessions
<1> SUFFICES ASSUME Init PROVE TypeOK /\ Places /\ Owners /\ Enough /\ Sessions
  OBVIOUS
<1>1. TypeOK
  BY InitTypes
<1>2. Places
  BY DEF Init, Places
<1>3. Owners
  BY DEF Init, Owners, Distinct, Holds, Queued
<1>4. Enough
  BY FS_EmptySet DEF Init, Enough
<1>5. Sessions
  BY DEF Init, Sessions, Queued, DeadConn, NewConn
<1>6. QED
  BY <1>1, <1>2, <1>3, <1>4, <1>5

(* A connection is in the queue once, or with one thread, never both: no   *)
(* two threads are given the same session by get_connection().             *)
THEOREM OneOwner == Spec => []ExclusiveUse
<1>1. Places /\ Owners => ExclusiveUse
  BY DEF Owners, Distinct, ExclusiveUse, Held
<1>2. QED
  BY <1>1, StartsEmpty, TypesInductive, PlacesInductive, OwnersInductive, PTL DEF Spec

(* close(), however it fails, and a refused reconnect lose no connection:  *)
(* all that were made are in the queue or with a thread.                   *)
THEOREM NothingLost == Spec => []Conserved
<1>1. TypeOK /\ Owners /\ Enough => Conserved
  <2> SUFFICES ASSUME TypeOK, Owners, Enough PROVE Conserved
    OBVIOUS
  <2>1. Queued \subseteq Conns
    BY DEF TypeOK, Queued
  <2>2. Held \subseteq made
    BY DEF Owners, Held
  <2>3. \A c \in Conns : c \in made => c \in Queued \cup Held
    BY DEF Owners, Held
  <2>4. \A c \in Queued : c \in made
    BY <2>1 DEF Owners
  <2>5. made \subseteq Conns
    BY DEF TypeOK
  <2>6. made = Queued \cup Held
    BY <2>2, <2>3, <2>4, <2>5
  <2>7. QED
    BY <2>6 DEF Conserved, Enough
<1>2. QED
  BY <1>1, StartsEmpty, TypesInductive, PlacesInductive, OwnersInductive,
     EnoughInductive, PTL DEF Spec

(* What get_connection() hands out is clean, when every session is.        *)
LEMMA HandsOutClean ==
    ASSUME TypeOK, Owners, Sessions, NEW t \in Threads, GetConnection(t), pc'[t] = "using"
    PROVE  conn'[handle'[t]].opened = pool'.version /\ ~conn'[handle'[t]].used
<1> DEFINE c == Head(queue)
<1>1. /\ pc \in [Threads -> Labels] /\ handle \in [Threads -> Conns \cup {None}]
      /\ queue \in Seq(Conns) /\ conn \in [Conns -> ConnState]
  BY DEF TypeOK
<1>2. /\ \A place : \A res : Goes(t, place, res) => place = "using"
      /\ pool' = pool
  BY <1>1 DEF GetConnection, Goes
<1>3. queue # <<>>
  BY <1>2 DEF GetConnection
<1>4. c \in Conns /\ c \in Queued
  BY <1>1, <1>3, TakeFirst DEF Owners, Queued, InQueue
<1>5. /\ handle' = [handle EXCEPT ![t] = c]
      /\ \/ Usable(c) /\ conn' = conn
         \/ \E live \in BOOLEAN :
               conn' = [Reconnected(c, live) EXCEPT ![c].label = pool.version]
  BY <1>2, <1>3 DEF GetConnection
<1>6. handle'[t] = c
  BY <1>1, <1>5
<1>7. CASE Usable(c) /\ conn' = conn
  BY <1>2, <1>4, <1>6, <1>7 DEF Usable, Sessions
<1>8. ASSUME NEW live \in BOOLEAN,
             conn' = [Reconnected(c, live) EXCEPT ![c].label = pool.version]
      PROVE  conn'[c].opened = pool.version /\ ~conn'[c].used
  <2> DEFINE f == Reconnected(c, live)
  <2>1. f \in [Conns -> ConnState]
    BY <1>4, ConnTypes
  <2>2. ~f[c].used /\ f[c].opened = pool.version
    BY <1>1, <1>4 DEF Reconnected, ConnState
  <2> HIDE DEF f
  <2>3. conn'[c] = [f[c] EXCEPT !.label = pool.version]
    BY <1>4, <1>8, <2>1 DEF f
  <2>4. f[c] \in ConnState
    BY <1>4, <2>1
  <2>5. QED
    BY <2>2, <2>3, <2>4 DEF ConnState
<1>9. QED
  BY <1>2, <1>5, <1>6, <1>7, <1>8

(* With pool_reset_session a thread is given a session opened with the     *)
(* latest configuration and without the transaction of another borrower,   *)
(* although close() queues sessions it could not reset.                    *)
THEOREM CleanSessions == ResetSession => (Spec => CleanHandover)
<1> SUFFICES ASSUME ResetSession PROVE Spec => CleanHandover
  OBVIOUS
<1> DEFINE Clean(t) == /\ conn'[handle'[t]].opened = pool'.version
                       /\ ~conn'[handle'[t]].used
           SInv == TypeOK /\ Places /\ Owners /\ Sessions
<1>1. SInv /\ [Next]_vars => \A t \in Threads : pc[t] = "get" /\ pc'[t] = "using" => Clean(t)
  <2> SUFFICES ASSUME TypeOK, Owners, Sessions, [Next]_vars, NEW t \in Threads,
                      pc[t] = "get", pc'[t] = "using"
               PROVE  Clean(t)
    OBVIOUS
  <2>1. pc \in [Threads -> Labels]
    BY DEF TypeOK
  <2>2. ASSUME NEW u \in Threads, Thread(u), u # t PROVE FALSE
    <3>1. pc'[t] = pc[t]
      BY <2>1, <2>2 DEF Thread, Connect, GetConnection, Work, CloseBegin, Reset,
                        AddConnection, Forget, Goes
    <3>2. QED
      BY <3>1
  <2>3. ~(SetConfig \/ ServerStops \/ ServerStarts \/ (\E c \in Conns : Expires(c)) \/ UNCHANGED vars)
    BY DEF SetConfig, ServerStops, ServerStarts, Expires, vars
  <2>4. GetConnection(t)
    BY <2>2, <2>3 DEF Next, Thread, Connect, Work, CloseBegin, Reset, AddConnection, Forget
  <2>5. QED
    BY <2>4, HandsOutClean
<1>2. Init => SInv
  BY StartsEmpty
<1>3. SInv /\ [Next]_vars => SInv'
  BY TypesInductive, PlacesInductive, OwnersInductive, SessionsInductive
<1> HIDE DEF SInv
<1>4. QED
  BY <1>1, <1>2, <1>3, PTL DEF Spec, CleanHandover
=============================================================================
