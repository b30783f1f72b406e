-------------------------- MODULE ConnectorProofs ---------------------------
(***************************************************************************)
(* Theorems about Connector, for any cursors, any number of commands and   *)
(* any length of a result.  The proof goes in three steps, each with an    *)
(* invariant that holds the one before it:                                 *)
(*   Inv1  the types, and what a cursor has read ahead is a row;           *)
(*   Inv2  while the link is up, what is on its way is the one command of  *)
(*         the waiting method, its answer, or the rest of a result whose   *)
(*         reading unread_result announces, and a transaction that holds   *)
(*         rows is known to the client;                                    *)
(*   Inv3  the rows a cursor has got, those read ahead and those on the    *)
(*         wire are together all rows of its result, in order.             *)
(* The second half is about AppSession, the application on one connection; *)
(* what the first half shows holds of it as well, since every behaviour of *)
(* AppSession is one of Connector.                                         *)
(***************************************************************************)
EXTENDS AppSession, WellFoundedInduction, TLAPS

(* The methods that can wait for an answer, and the commands they send.    *)
Ops == {"none", "commit", "rollback", "start", "cursor", "execute", "ping", "get"}
Kinds == {"ping", "end", "start", "write", "select", "selectone"}

(* A command on its way, and what a cursor keeps.                          *)
Request == [id : 1..MaxCommands, kind : Kinds]

Cursor == [open : BOOLEAN, command : 0..MaxCommands,
           ahead : Seq(Packets), got : Seq(Packets)]

(* Every variable holds values of its type.                                *)
Types ==
    /\ link \in {"up", "late", "down"} /\ trans \in {"none", "clean", "dirty"}
    /\ requests \in Seq(Request) /\ wire \in Seq(Packets)
    /\ commands \in 0..MaxCommands
    /\ unread \in BOOLEAN /\ inTrans \in BOOLEAN
    /\ cursors \in [Cursors -> Cursor]
    /\ pending \in [op : Ops, cursor : Cursors \cup {None}, id : 0..MaxCommands]

(* A closed cursor keeps nothing, and what is read ahead is a row.         *)
CursorReady(k) ==
    /\ cursors[k].open \/ cursors[k] = Closed
    /\ cursors[k].ahead = <<>> \/ \E p \in Packets : cursors[k].ahead = <<p>> /\ p.kind = "row"

(* The method that waits sent the latest command, for its cursor.          *)
PendingReady ==
    /\ pending # NoCall => pending.op # "none" /\ pending.id = commands /\ commands > 0
    /\ pending.op \in {"cursor", "execute"} => pending.cursor \in Cursors

Inv1 == Types /\ (\A k \in Cursors : CursorReady(k)) /\ PendingReady

-----------------------------------------------------------------------------

(* A set of numbers that is not empty has a least one.                     *)
LEMMA LeastNumber ==
    ASSUME NEW S \in SUBSET Nat, S # {}
    PROVE  Min(S) \in S /\ \A n \in S : Min(S) <= n
<1>1. \E m \in S : \A n \in S : m <= n
  <2> DEFINE R == {p \in Nat \X Nat : p[1] < p[2]}
  <2>1. IsWellFoundedOn(R, Nat)
    BY NatLessThanWellFounded DEF OpToRel
  <2>2. \A n, m \in Nat : n < m => <<n, m>> \in R
    OBVIOUS
  <2> HIDE DEF R
  <2>3. PICK m \in S : \A n \in S : <<n, m>> \notin R
    BY <2>1, WFMin
  <2>4. ASSUME NEW n \in S PROVE m <= n
    <3>1. n \in Nat /\ m \in Nat
      OBVIOUS
    <3>2. ~(n < m)
      BY <2>2, <2>3, <3>1
    <3>3. QED
      BY <3>1, <3>2
  <2>5. QED
    BY <2>4
<1>2. QED
  BY <1>1 DEF Min

(* Where the rows end.                                                     *)
LEMMA EofPlace ==
    ASSUME NEW S, wire \in Seq(S)
    PROVE  /\ EofAt \in 0..Len(wire)
           /\ EofAt # 0 => wire[EofAt].kind = "eof"
           /\ \A i \in 1..Len(wire) : wire[i].kind = "eof" => EofAt # 0 /\ EofAt <= i
<1> DEFINE I == {i \in 1..Len(wire) : wire[i].kind = "eof"}
<1>1. EofAt = IF I # {} THEN Min(I) ELSE 0
  BY DEF EofAt, SelectInSeq
<1>2. I \in SUBSET Nat
  OBVIOUS
<1>3. CASE I = {}
  BY <1>1, <1>3
<1>4. CASE I # {}
  <2>1. Min(I) \in I /\ \A n \in I : Min(I) <= n
    BY <1>2, <1>4, LeastNumber
  <2>2. PICK m : m = Min(I)
    OBVIOUS
  <2>3. m \in I /\ \A n \in I : m <= n
    BY <2>1, <2>2
  <2>4. EofAt = m
    BY <1>1, <1>4, <2>2
  <2>5. QED
    BY <2>3, <2>4
<1>5. QED
  BY <1>3, <1>4

(* The rest of a sequence, from place n on.                                *)
LEMMA TheRest ==
    ASSUME NEW S, NEW q \in Seq(S), NEW n \in 0..Len(q)
    PROVE  /\ SubSeq(q, n + 1, Len(q)) \in Seq(S)
           /\ Len(SubSeq(q, n + 1, Len(q))) = Len(q) - n
           /\ \A i \in 1..Len(q) - n : SubSeq(q, n + 1, Len(q))[i] = q[n + i]
           /\ SubSeq(q, 1, n) \in Seq(S)
<1>1. Len(q) \in Nat /\ n \in Nat /\ \A i \in 1..Len(q) : q[i] \in S
  OBVIOUS
<1>2. QED
  BY <1>1

(* A sequence that is not empty.                                           *)
LEMMA FirstOf ==
    ASSUME NEW S, NEW q \in Seq(S), q # <<>>
    PROVE  /\ Head(q) \in S /\ Head(q) = q[1] /\ Tail(q) \in Seq(S)
           /\ Len(q) \in Nat \ {0} /\ Len(Tail(q)) = Len(q) - 1
           /\ \A i \in 1..Len(Tail(q)) : Tail(q)[i] = q[i + 1]
  OBVIOUS

(* One sequence after the other.                                           *)
LEMMA Joined ==
    ASSUME NEW S, NEW p \in Seq(S), NEW q \in Seq(S)
    PROVE  /\ p \o q \in Seq(S) /\ Len(p \o q) = Len(p) + Len(q)
           /\ \A i \in 1..Len(p) : (p \o q)[i] = p[i]
           /\ \A i \in 1..Len(q) : (p \o q)[Len(p) + i] = q[i]
<1>1. Len(p) \in Nat /\ Len(q) \in Nat
  OBVIOUS
<1>2. QED
  BY <1>1

(* A packet.                                                               *)
LEMMA PacketType ==
    ASSUME NEW id \in 1..MaxCommands, NEW i \in 0..MaxRows, NEW b \in BOOLEAN,
           NEW kind \in {"ok", "err", "columns", "row", "eof"}
    PROVE  Packet(id, kind, i, b) \in Packets
  BY DEF Packet, Packets

(* What the server answers to a SELECT.                                    *)
LEMMA ResultPackets ==
    ASSUME NEW id \in 1..MaxCommands, NEW n \in 0..MaxRows
    PROVE  /\ Result(id, n) \in Seq(Packets) /\ Len(Result(id, n)) = n + 2
           /\ Result(id, n)[1] = Packet(id, "columns", 0, TRUE)
           /\ \A i \in 1..n : Result(id, n)[i + 1] = Packet(id, "row", i, TRUE)
           /\ Result(id, n)[n + 2] = Packet(id, "eof", n, TRUE)
<1> DEFINE rows == [i \in 1..n |-> Packet(id, "row", i, TRUE)]
           first == Packet(id, "columns", 0, TRUE)
           end == Packet(id, "eof", n, TRUE)
<1>0. MaxRows \in Nat /\ MaxCommands \in Nat /\ n \in Nat /\ 0 \in 0..MaxRows
  BY ConnectorAssumption DEF ConnectorAssumption
<1>1. first \in Packets /\ end \in Packets
  BY <1>0, PacketType
<1>2. rows \in Seq(Packets) /\ Len(rows) = n
  <2>1. ASSUME NEW i \in 1..n PROVE Packet(id, "row", i, TRUE) \in Packets
    <3>1. i \in 0..MaxRows
      BY <1>0
    <3>2. QED
      BY <3>1, PacketType
  <2>2. rows \in [1..n -> Packets]
    BY <2>1
  <2> HIDE DEF rows
  <2>3. QED
    BY <1>0, <2>2
<1>3. \A i \in 1..n : rows[i] = Packet(id, "row", i, TRUE)
  OBVIOUS
<1>4. Result(id, n) = (<<first>> \o rows) \o <<end>>
  BY DEF Result
<1> HIDE DEF rows, first, end
<1>5. /\ <<first>> \o rows \in Seq(Packets) /\ Len(<<first>> \o rows) = n + 1
      /\ (<<first>> \o rows)[1] = first
      /\ \A i \in 1..n : (<<first>> \o rows)[i + 1] = rows[i]
  BY <1>0, <1>1, <1>2
<1>6. PICK p \in Seq(Packets) : p = <<first>> \o rows
  BY <1>5
<1>7. /\ p \o <<end>> \in Seq(Packets) /\ Len(p \o <<end>>) = n + 2
      /\ \A i \in 1..n + 1 : (p \o <<end>>)[i] = p[i]
      /\ (p \o <<end>>)[n + 2] = end
  <2>1. Len(p) = n + 1 /\ end \in Packets /\ n \in Nat
    BY <1>0, <1>1, <1>5, <1>6, Zenon
  <2>2. QED
    BY <2>1
<1>8. PICK result : result = Result(id, n)
  OBVIOUS
<1>9. /\ result \in Seq(Packets) /\ Len(result) = n + 2 /\ result[n + 2] = end
      /\ \A i \in 1..n + 1 : result[i] = p[i]
  BY <1>4, <1>6, <1>7, <1>8
<1>10. result[1] = first /\ \A i \in 1..n : result[i + 1] = rows[i]
  BY <1>0, <1>5, <1>6, <1>9
<1>11. QED
  BY <1>3, <1>8, <1>9, <1>10 DEF first, end

-----------------------------------------------------------------------------
(* A command is sent, or the broken socket raises.                         *)
LEMMA TransmitTypes ==
    ASSUME Inv1, NEW op \in Ops \ {"none"}, NEW k \in Cursors \cup {None}, NEW kind \in Kinds,
           op \in {"cursor", "execute"} => k \in Cursors, Transmit(op, k, kind)
    PROVE  /\ link' = link /\ requests' \in Seq(Request)
           /\ commands' = commands + 1 /\ commands' \in 1..MaxCommands
           /\ pending' \in [op : Ops, cursor : Cursors \cup {None}, id : 0..MaxCommands]
           /\ PendingReady'
<1>1. commands \in Nat /\ MaxCommands \in Nat /\ commands < MaxCommands
      /\ commands' = commands + 1 /\ link' = link
  BY ConnectorAssumption DEF Inv1, Types, Transmit, ConnectorAssumption
<1>2. commands' \in 1..MaxCommands /\ commands' > 0
  BY <1>1
<1>3. CASE link # "down"
  <2>1. /\ requests' = Append(requests, [id |-> commands', kind |-> kind])
        /\ pending' = [op |-> op, cursor |-> k, id |-> commands']
    BY <1>3 DEF Transmit
  <2>2. [id |-> commands', kind |-> kind] \in Request
    BY <1>2 DEF Request
  <2>3. requests' \in Seq(Request)
    BY <2>1, <2>2 DEF Inv1, Types
  <2>4. QED
    BY <1>1, <1>2, <2>1, <2>3 DEF PendingReady
<1>4. CASE link = "down"
  <2>1. requests' = requests /\ pending' = NoCall
    BY <1>4 DEF Transmit, Finish
  <2>2. NoCall \in [op : Ops, cursor : Cursors \cup {None}, id : 0..MaxCommands]
    BY <1>1 DEF NoCall, Ops
  <2>3. QED
    BY <1>1, <1>2, <2>1, <2>2 DEF PendingReady, NoCall, Inv1, Types
<1>5. QED
  BY <1>3, <1>4

(* A method returns.                                                       *)
LEMMA FinishTypes ==
    ASSUME NEW op, NEW error, Finish(op, error)
    PROVE  /\ pending' \in [op : Ops, cursor : Cursors \cup {None}, id : 0..MaxCommands]
           /\ PendingReady' /\ pending' = NoCall
  BY ConnectorAssumption DEF ConnectorAssumption, Finish, NoCall, Ops, PendingReady

(* Nothing but the method that waits has changed.                          *)
LEMMA ReturnTypes ==
    ASSUME Inv1, NEW op, NEW error, Finish(op, error),
           UNCHANGED <<link, server, commands, flags, cursors>>
    PROVE  Inv1'
<1>1. /\ pending' \in [op : Ops, cursor : Cursors \cup {None}, id : 0..MaxCommands]
      /\ PendingReady'
  BY FinishTypes
<1>2. QED
  BY <1>1 DEF Inv1, Types, CursorReady, server, flags

(* A new socket, with the old cursors or new ones.                         *)
LEMMA ReopenTypes ==
    ASSUME Inv1, Reopen \/ Reconnect("ping")
    PROVE  Inv1' /\ pending' = NoCall
<1>1. /\ pending' \in [op : Ops, cursor : Cursors \cup {None}, id : 0..MaxCommands]
      /\ PendingReady' /\ pending' = NoCall
  BY FinishTypes DEF Reopen, Reconnect
<1>2. /\ link' \in {"up", "down"} /\ requests' = <<>> /\ wire' = <<>> /\ trans' = "none"
      /\ UNCHANGED commands
  BY DEF Reopen, Reconnect, NewSession
<1>3. requests' \in Seq(Request) /\ wire' \in Seq(Packets)
  BY <1>2
<1>4. unread' \in BOOLEAN /\ inTrans' \in BOOLEAN
  BY DEF Inv1, Types, Reopen, Reconnect, flags
<1>5. cursors' = cursors \/ cursors' = [k \in Cursors |-> Closed]
  BY DEF Reopen, Reconnect
<1>6. Closed \in Cursor /\ Closed.ahead = <<>>
  BY ConnectorAssumption DEF Closed, Cursor, ConnectorAssumption
<1>7. cursors' \in [Cursors -> Cursor] /\ \A k \in Cursors : CursorReady(k)'
  <2>1. CASE cursors' = cursors
    BY <2>1 DEF Inv1, Types, CursorReady
  <2>2. CASE cursors' = [k \in Cursors |-> Closed]
    BY <1>6, <2>2 DEF CursorReady
  <2>3. QED
    BY <1>5, <2>1, <2>2
<1>8. Types'
  BY <1>1, <1>2, <1>3, <1>4, <1>7 DEF Inv1, Types
<1>9. QED
  BY <1>1, <1>7, <1>8 DEF Inv1

(* The pending method fails.                                               *)
LEMMA FailedTypes ==
    ASSUME Inv1, NEW error, NEW rest \in Seq(Packets), Failed(error, rest)
    PROVE  Inv1'
<1>1. CASE pending.op \in {"get", "ping"}
  BY <1>1, ReopenTypes DEF Failed
<1>2. CASE pending.op \notin {"get", "ping"}
  <2>1. /\ wire' = rest /\ Finish(pending.op, error)
        /\ link' = IF error = "timeout" THEN "late" ELSE link
        /\ UNCHANGED <<requests, trans, commands, flags, cursors>>
    BY <1>2 DEF Failed
  <2>2. /\ pending' \in [op : Ops, cursor : Cursors \cup {None}, id : 0..MaxCommands]
        /\ PendingReady'
    BY <2>1, FinishTypes
  <2>3. QED
    BY <2>1, <2>2 DEF Inv1, Types, CursorReady, flags
<1>3. QED
  BY <1>1, <1>2

(* A packet and the end of a result carry a status.                        *)
LEMMA WireEnd ==
    ASSUME Inv1
    PROVE  /\ EofAt \in 0..Len(wire)
           /\ EofAt # 0 => wire[EofAt] \in Packets /\ wire[EofAt].status \in BOOLEAN
           /\ EofAt # 0 => SubSeq(wire, 1, EofAt - 1) \in Seq(Packets)
           /\ SubSeq(wire, EofAt + 1, Len(wire)) \in Seq(Packets)
<1>1. wire \in Seq(Packets)
  BY DEF Inv1, Types
<1>2. PICK m : m = EofAt
  OBVIOUS
<1>3. m \in 0..Len(wire) /\ Len(wire) \in Nat
  BY <1>1, <1>2, EofPlace
<1>4. m # 0 => wire[m] \in Packets /\ SubSeq(wire, 1, m - 1) \in Seq(Packets)
  BY <1>1, <1>3
<1>5. \A p \in Packets : p.status \in BOOLEAN
  BY DEF Packets
<1>6. SubSeq(wire, m + 1, Len(wire)) \in Seq(Packets)
  BY <1>1, <1>3, TheRest
<1>7. QED
  BY <1>2, <1>3, <1>4, <1>5, <1>6

(* commit(), start_transaction(), rollback().                              *)
LEMMA TransactionTypes ==
    ASSUME Inv1, Commit \/ Start \/ Rollback
    PROVE  Inv1'
<1>1. ASSUME NEW op, RefuseUnread(op) PROVE Inv1'
  BY <1>1, ReturnTypes DEF RefuseUnread
<1>2. ASSUME NEW op \in {"commit", "start", "rollback"}, NEW kind \in {"end", "start"},
             Transmit(op, None, kind), UNCHANGED <<cursors, trans>>,
             wire' \in Seq(Packets), unread' \in BOOLEAN, inTrans' \in BOOLEAN
      PROVE  Inv1'
  <2>1. /\ link' = link /\ requests' \in Seq(Request)
        /\ commands' = commands + 1 /\ commands' \in 1..MaxCommands
        /\ pending' \in [op : Ops, cursor : Cursors \cup {None}, id : 0..MaxCommands]
        /\ PendingReady'
    BY <1>2, TransmitTypes DEF Ops, Kinds
  <2>2. QED
    BY <1>2, <2>1 DEF Inv1, Types, CursorReady
<1>3. ASSUME NEW op \in {"commit", "start", "rollback"}, NEW kind \in {"end", "start"},
             Send(op, None, kind), UNCHANGED <<flags, cursors>>
      PROVE  Inv1'
  BY <1>2, <1>3 DEF Send, flags, Inv1, Types
<1>4. CASE Commit
  BY <1>1, <1>3, <1>4 DEF Commit
<1>5. CASE Start
  BY <1>1, <1>3, <1>5, ReturnTypes DEF Start
<1>6. CASE Rollback
  <2>1. CASE Send("rollback", None, "end") /\ UNCHANGED <<flags, cursors>>
    BY <1>3, <2>1
  <2>2. CASE /\ EofAt # 0 /\ unread' = FALSE /\ inTrans' = wire[EofAt].status
             /\ wire' = SubSeq(wire, EofAt + 1, Len(wire))
             /\ Transmit("rollback", None, "end") /\ UNCHANGED <<trans, cursors>>
    BY <1>2, <2>2, WireEnd
  <2>3. CASE /\ unread' = FALSE /\ wire' = <<>> /\ Finish("rollback", "lost")
             /\ UNCHANGED <<link, requests, trans, commands, inTrans, cursors>>
    <3>1. /\ pending' \in [op : Ops, cursor : Cursors \cup {None}, id : 0..MaxCommands]
          /\ PendingReady'
      BY <2>3, FinishTypes
    <3>2. wire' \in Seq(Packets)
      BY <2>3
    <3>3. QED
      BY <2>3, <3>1, <3>2 DEF Inv1, Types, CursorReady
  <2>4. QED
    BY <1>6, <2>1, <2>2, <2>3 DEF Rollback
<1>7. QED
  BY <1>4, <1>5, <1>6

(* cursor(), execute() and close() of a cursor.                            *)
LEMMA CursorTypes ==
    ASSUME Inv1, NEW k \in Cursors,
           \/ NewCursor(k) \/ CloseCursor(k)
           \/ \E kind \in {"select", "selectone", "write"} : Execute(k, kind)
    PROVE  Inv1'
<1>1. ASSUME NEW op, RefuseUnread(op) PROVE Inv1'
  BY <1>1, ReturnTypes DEF RefuseUnread
<1>2. CASE NewCursor(k)
  <2>1. CASE Send("cursor", k, "ping") /\ UNCHANGED <<flags, cursors>>
    <3>1. /\ link' = link /\ requests' \in Seq(Request)
          /\ commands' = commands + 1 /\ commands' \in 1..MaxCommands
          /\ pending' \in [op : Ops, cursor : Cursors \cup {None}, id : 0..MaxCommands]
          /\ PendingReady'
      BY <2>1, TransmitTypes DEF Ops, Kinds, Send
    <3>2. QED
      BY <2>1, <3>1 DEF Send, flags, Inv1, Types, CursorReady
  <2>2. QED
    BY <1>1, <1>2, <2>1 DEF NewCursor
<1>3. ASSUME NEW kind \in {"select", "selectone", "write"}, Execute(k, kind)
      PROVE  Inv1'
  <2>1. CASE /\ Send("execute", k, kind) /\ UNCHANGED flags
             /\ cursors' = [cursors EXCEPT ![k] = [Fresh EXCEPT !.command = commands']]
    <3>1. /\ link' = link /\ requests' \in Seq(Request)
          /\ commands' = commands + 1 /\ commands' \in 1..MaxCommands
          /\ pending' \in [op : Ops, cursor : Cursors \cup {None}, id : 0..MaxCommands]
          /\ PendingReady'
      BY <2>1, TransmitTypes DEF Ops, Kinds, Send
    <3>2. PICK new : new = [Fresh EXCEPT !.command = commands']
      OBVIOUS
    <3>3. new \in Cursor /\ new.open /\ new.ahead = <<>>
      <4>1. new = [open |-> TRUE, command |-> commands', ahead |-> <<>>, got |-> <<>>]
        BY <3>2 DEF Fresh, Closed
      <4>2. commands' \in 0..MaxCommands /\ <<>> \in Seq(Packets)
        BY <3>1
      <4>3. QED
        BY <4>1, <4>2 DEF Cursor
    <3>4. cursors' \in [Cursors -> Cursor] /\ \A c \in Cursors : CursorReady(c)'
      BY <2>1, <3>2, <3>3 DEF Inv1, Types, CursorReady
    <3>5. QED
      BY <2>1, <3>1, <3>4 DEF Send, flags, Inv1, Types
  <2>2. QED
    BY <1>1, <1>3, <2>1 DEF Execute
<1>4. CASE CloseCursor(k)
  <2>1. CASE /\ cursors' = [cursors EXCEPT ![k] = Closed] /\ Finish("close", "none")
             /\ UNCHANGED <<link, server, commands, flags>>
    <3>1. /\ pending' \in [op : Ops, cursor : Cursors \cup {None}, id : 0..MaxCommands]
          /\ PendingReady'
      BY <2>1, FinishTypes
    <3>2. Closed \in Cursor /\ Closed.ahead = <<>>
      BY ConnectorAssumption DEF Closed, Cursor, ConnectorAssumption
    <3>3. cursors' \in [Cursors -> Cursor] /\ \A c \in Cursors : CursorReady(c)'
      BY <2>1, <3>2 DEF Inv1, Types, CursorReady
    <3>4. QED
      BY <2>1, <3>1, <3>3 DEF Inv1, Types, server, flags
  <2>2. QED
    BY <1>1, <1>4, <2>1 DEF CloseCursor
<1>5. QED
  BY <1>2, <1>3, <1>4

(* ping(), and the application's get_connection().                         *)
LEMMA LinkTypes ==
    ASSUME Inv1, Ping \/ GetConnection
    PROVE  Inv1'
<1>1. CASE Reopen \/ Reconnect("ping")
  BY <1>1, ReopenTypes
<1>2. ASSUME NEW op \in {"ping", "get"}, Send(op, None, "ping"), UNCHANGED <<flags, cursors>>
      PROVE  Inv1'
  <2>1. /\ link' = link /\ requests' \in Seq(Request)
        /\ commands' = commands + 1 /\ commands' \in 1..MaxCommands
        /\ pending' \in [op : Ops, cursor : Cursors \cup {None}, id : 0..MaxCommands]
        /\ PendingReady'
    BY <1>2, TransmitTypes DEF Ops, Kinds, Send
  <2>2. QED
    BY <1>2, <2>1 DEF Send, flags, Inv1, Types, CursorReady
<1>3. QED
  BY <1>1, <1>2 DEF Ping, GetConnection

(* A packet arrives, or none will.                                         *)
LEMMA ReceiveTypes ==
    ASSUME Inv1, Receive \/ Lost \/ TimeOut
    PROVE  Inv1'
<1>1. CASE Lost \/ TimeOut
  <2>1. <<>> \in Seq(Packets)
    OBVIOUS
  <2>2. QED
    BY <1>1, <2>1, FailedTypes DEF Lost, TimeOut
<1>2. CASE Receive
  <2>1. PICK p \in Packets : p = Head(wire)
    BY <1>2 DEF Receive, Inv1, Types
  <2>2. Tail(wire) \in Seq(Packets) /\ pending # NoCall /\ p.status \in BOOLEAN
    BY <1>2, <2>1 DEF Receive, Inv1, Types, Packets
  <2>3. CASE \E error : Failed(error, Tail(wire))
    BY <2>2, <2>3, FailedTypes
  <2>4. CASE /\ wire' = Tail(wire) /\ HandleOk(p)
             /\ cursors' = IF pending.op = "cursor"
                             THEN [cursors EXCEPT ![pending.cursor] = Fresh] ELSE cursors
             /\ Finish(pending.op, "none") /\ UNCHANGED <<link, requests, trans, commands>>
    <3>1. /\ pending' \in [op : Ops, cursor : Cursors \cup {None}, id : 0..MaxCommands]
          /\ PendingReady'
      BY <2>4, FinishTypes
    <3>2. Fresh \in Cursor /\ Fresh.open /\ Fresh.ahead = <<>>
      <4>1. 0 \in 0..MaxCommands /\ <<>> \in Seq(Packets)
        BY ConnectorAssumption DEF ConnectorAssumption
      <4>2. QED
        BY <4>1 DEF Cursor, Fresh, Closed
    <3>3. cursors' \in [Cursors -> Cursor] /\ \A k \in Cursors : CursorReady(k)'
      <4>1. CASE pending.op = "cursor"
        BY <2>4, <3>2, <4>1 DEF Inv1, Types, CursorReady
      <4>2. CASE pending.op # "cursor"
        BY <2>4, <4>2 DEF Inv1, Types, CursorReady
      <4>3. QED
        BY <4>1, <4>2
    <3>4. unread' \in BOOLEAN /\ inTrans' \in BOOLEAN
      BY <2>2, <2>4 DEF HandleOk, Inv1, Types
    <3>5. QED
      BY <2>2, <2>4, <3>1, <3>3, <3>4 DEF Inv1, Types
  <2>5. CASE /\ wire' = Tail(wire) /\ unread' = TRUE /\ inTrans' = p.status
             /\ Finish(pending.op, "none")
             /\ UNCHANGED <<link, requests, trans, commands, cursors>>
    <3>1. /\ pending' \in [op : Ops, cursor : Cursors \cup {None}, id : 0..MaxCommands]
          /\ PendingReady'
      BY <2>5, FinishTypes
    <3>2. QED
      BY <2>2, <2>5, <3>1 DEF Inv1, Types, CursorReady
  <2>6. CASE /\ wire' = Tail(wire) /\ inTrans' = p.status
             /\ \E error : Finish(pending.op, error)
             /\ UNCHANGED <<link, requests, trans, commands, unread, cursors>>
    <3>1. /\ pending' \in [op : Ops, cursor : Cursors \cup {None}, id : 0..MaxCommands]
          /\ PendingReady'
      BY <2>6, FinishTypes
    <3>2. QED
      BY <2>2, <2>6, <3>1 DEF Inv1, Types, CursorReady
  <2>7. QED
    BY <1>2, <2>1, <2>3, <2>4, <2>5, <2>6 DEF Receive
<1>3. QED
  BY <1>1, <1>2

(* The server answers, or the connection breaks.                           *)
LEMMA ServerTypes ==
    ASSUME Inv1, Answer \/ Break
    PROVE  Inv1'
<1>1. CASE Answer
  <2>0. requests # <<>>
    BY <1>1 DEF Answer
  <2>1. Head(requests) \in Request /\ Tail(requests) \in Seq(Request)
    BY <2>0, FirstOf DEF Inv1, Types
  <2>2. PICK id \in 1..MaxCommands : id = Head(requests).id
    BY <2>1 DEF Request
  <2>3. ASSUME NEW packets \in Seq(Packets), NEW after \in {"none", "clean", "dirty"},
               Reply(packets, after)
        PROVE  Inv1'
    <3>1. wire' \in Seq(Packets)
      BY <2>3, Joined DEF Reply, Inv1, Types
    <3>2. QED
      <4>1. /\ requests' = Tail(requests) /\ trans' = after
            /\ UNCHANGED <<link, commands, flags, cursors, pending>>
        BY <1>1, <2>3 DEF Answer, Reply
      <4>2. QED
        BY <2>1, <3>1, <4>1 DEF Inv1, Types, CursorReady, PendingReady, flags
  <2>4. \A kind \in {"ok", "err"}, b \in BOOLEAN : <<Packet(id, kind, 0, b)>> \in Seq(Packets)
    <3>1. 0 \in 0..MaxRows
      BY ConnectorAssumption DEF ConnectorAssumption
    <3>2. QED
      BY <3>1, PacketType
  <2>5. PICK packets, after :
          /\ Reply(packets, after) /\ after \in {"none", "clean", "dirty"}
          /\ \/ \E kind \in {"ok", "err"}, b \in BOOLEAN : packets = <<Packet(id, kind, 0, b)>>
             \/ \E n \in 0..MaxRows : packets = Result(id, n)
    <3>1. PICK opened : opened = IF trans = "none" THEN "clean" ELSE trans
      OBVIOUS
    <3>2. 0 \in 0..MaxRows /\ 1 \in 0..MaxRows
      BY ConnectorAssumption DEF ConnectorAssumption
    <3>3. trans \in {"none", "clean", "dirty"} /\ opened \in {"none", "clean", "dirty"}
      BY <3>1 DEF Inv1, Types
    <3>4. \/ \E after \in {trans, "none", "clean", "dirty", opened} :
                Reply(<<Packet(id, "ok", 0, after # "none")>>, after)
          \/ \E n \in 0..MaxRows : Reply(Result(id, n), opened)
          \/ \E n \in {0, 1} : Reply(Result(id, n), opened)
          \/ \E after \in {opened, "none"} : Reply(<<Packet(id, "err", 0, FALSE)>>, after)
      BY <1>1, <2>2, <3>1 DEF Answer
    <3>5. QED
      BY <3>2, <3>3, <3>4
  <2>6. packets \in Seq(Packets)
    BY <2>4, <2>5, ResultPackets
  <2>7. QED
    BY <2>3, <2>5, <2>6
<1>2. CASE Break
  <2>1. PICK n \in 0..Len(wire) : wire' = SubSeq(wire, 1, n)
    BY <1>2 DEF Break
  <2>2. wire' \in Seq(Packets)
    BY <2>1, TheRest DEF Inv1, Types
  <2>3. requests' \in Seq(Request)
    BY <1>2 DEF Break
  <2>4. QED
    BY <1>2, <2>2, <2>3 DEF Break, Inv1, Types, CursorReady, PendingReady, flags
<1>3. QED
  BY <1>1, <1>2

(* The three ways fetchone() can go on, and its failure.                   *)
Avail(k) == cursors[k].ahead \o wire

LastRow(k) ==
    /\ Len(Avail(k)) >= 1 /\ Avail(k)[1].kind # "row"
    /\ wire' = SubSeq(Avail(k), 2, Len(Avail(k))) /\ Finish("fetchone", "none")
    /\ EndOfRows(Avail(k)[1]) /\ cursors' = cursors

TwoRows(k) ==
    /\ Len(Avail(k)) >= 2 /\ Avail(k)[1].kind = "row" /\ Avail(k)[2].kind = "row"
    /\ wire' = SubSeq(Avail(k), 3, Len(Avail(k))) /\ Finish("fetchone", "none")
    /\ cursors' = Delivered(k, Avail(k)[1], <<Avail(k)[2]>>) /\ UNCHANGED flags

RowAndEnd(k) ==
    /\ Len(Avail(k)) >= 2 /\ Avail(k)[1].kind = "row" /\ Avail(k)[2].kind # "row"
    /\ wire' = SubSeq(Avail(k), 3, Len(Avail(k))) /\ Finish("fetchone", "none")
    /\ cursors' = Delivered(k, Avail(k)[1], <<>>) /\ EndOfRows(Avail(k)[2])

(* What a cursor has read ahead and what waits on the wire.                *)
LEMMA AvailPackets ==
    ASSUME Inv1, NEW k \in Cursors
    PROVE  /\ Avail(k) \in Seq(Packets) /\ Len(Avail(k)) \in Nat
           /\ Len(Avail(k)) = Len(cursors[k].ahead) + Len(wire)
           /\ cursors[k].ahead \in Seq(Packets) /\ cursors[k].got \in Seq(Packets)
           /\ \A i \in 1..Len(cursors[k].ahead) : Avail(k)[i] = cursors[k].ahead[i]
           /\ \A i \in 1..Len(wire) : Avail(k)[Len(cursors[k].ahead) + i] = wire[i]
<1>1. cursors[k].ahead \in Seq(Packets) /\ wire \in Seq(Packets)
      /\ cursors[k].got \in Seq(Packets)
  BY DEF Inv1, Types, Cursor
<1>2. QED
  BY <1>1, Joined DEF Avail

(* fetchone() goes on in one of them.                                      *)
LEMMA FetchReadsCases ==
    ASSUME Inv1, NEW k \in Cursors, FetchReads(k)
    PROVE  LastRow(k) \/ TwoRows(k) \/ RowAndEnd(k) \/ FetchLost("fetchone")
<1>1. Avail(k) \in Seq(Packets) /\ Len(Avail(k)) \in Nat /\ DOMAIN Avail(k) = 1..Len(Avail(k))
  BY AvailPackets
<1>2. PICK a : a = Avail(k)
  OBVIOUS
<1>3. /\ 1 \in DOMAIN a <=> Len(a) >= 1
      /\ 2 \in DOMAIN a <=> Len(a) >= 2
  BY <1>1, <1>2
<1>4. a = cursors[k].ahead \o wire
  BY <1>2 DEF Avail
<1>5. CASE 1 \in DOMAIN a /\ a[1].kind # "row"
  <2>1. /\ wire' = SubSeq(a, 2, Len(a)) /\ Finish("fetchone", "none")
        /\ EndOfRows(a[1]) /\ cursors' = cursors
    BY <1>4, <1>5 DEF FetchReads
  <2>2. QED
    BY <1>2, <1>3, <1>5, <2>1 DEF LastRow
<1>6. CASE /\ 1 \in DOMAIN a /\ a[1].kind = "row"
           /\ 2 \in DOMAIN a /\ a[2].kind = "row"
  <2>1. /\ wire' = SubSeq(a, 3, Len(a)) /\ Finish("fetchone", "none")
        /\ cursors' = Delivered(k, a[1], <<a[2]>>) /\ UNCHANGED flags
    BY <1>4, <1>6 DEF FetchReads
  <2>2. QED
    BY <1>2, <1>3, <1>6, <2>1 DEF TwoRows
<1>7. CASE /\ 1 \in DOMAIN a /\ a[1].kind = "row"
           /\ 2 \in DOMAIN a /\ a[2].kind # "row"
  <2>1. /\ wire' = SubSeq(a, 3, Len(a)) /\ Finish("fetchone", "none")
        /\ cursors' = Delivered(k, a[1], <<>>) /\ EndOfRows(a[2])
    BY <1>4, <1>7 DEF FetchReads
  <2>2. QED
    BY <1>2, <1>3, <1>7, <2>1 DEF RowAndEnd
<1>8. CASE \/ 1 \notin DOMAIN a
           \/ a[1].kind = "row" /\ 2 \notin DOMAIN a
  <2>1. FetchLost("fetchone")
    BY <1>4, <1>8 DEF FetchReads
  <2>2. QED
    BY <2>1
<1>9. QED
  BY <1>5, <1>6, <1>7, <1>8

(* fetchone() and fetchall()                                               *)
LEMMA FetchTypes ==
    ASSUME Inv1, NEW k \in Cursors, FetchOne(k) \/ FetchAll(k)
    PROVE  Inv1'
<1>0. /\ pending' \in [op : Ops, cursor : Cursors \cup {None}, id : 0..MaxCommands]
      /\ PendingReady' /\ UNCHANGED <<link, requests, trans, commands>>
  <2>1. \E op, error : Finish(op, error)
    BY FetchReadsCases DEF FetchOne, FetchAll, LastRow, TwoRows, RowAndEnd, FetchLost,
                           FetchReadsAll
  <2>2. QED
    BY <2>1, FinishTypes DEF FetchOne, FetchAll
<1>1. CASE UNCHANGED <<wire, flags, cursors>>
  BY <1>0, <1>1 DEF Inv1, Types, CursorReady, flags
<1>2. ASSUME NEW op, FetchLost(op) PROVE Inv1'
  <2>1. wire' \in Seq(Packets)
    BY <1>2 DEF FetchLost
  <2>2. QED
    BY <1>0, <1>2, <2>1 DEF FetchLost, Inv1, Types, CursorReady
<1>3. ASSUME NEW ahead \in Seq(Packets), NEW got \in Seq(Packets), wire' \in Seq(Packets),
             cursors' = [cursors EXCEPT ![k].got = got, ![k].ahead = ahead],
             ahead = <<>> \/ \E p \in Packets : ahead = <<p>> /\ p.kind = "row",
             unread' \in BOOLEAN, inTrans' \in BOOLEAN, cursors[k].open
      PROVE  Inv1'
  <2>1. PICK new : new = [cursors[k] EXCEPT !.got = got, !.ahead = ahead]
    OBVIOUS
  <2>2. new \in Cursor /\ new.open /\ new.ahead = ahead
    BY <1>3, <2>1 DEF Inv1, Types, Cursor
  <2>3. cursors' = [cursors EXCEPT ![k] = new]
    BY <1>3, <2>1 DEF Inv1, Types
  <2>4. cursors' \in [Cursors -> Cursor] /\ \A c \in Cursors : CursorReady(c)'
    <3>1. cursors' \in [Cursors -> Cursor] /\ cursors'[k] = new
      BY <2>2, <2>3 DEF Inv1, Types
    <3>2. \A c \in Cursors \ {k} : cursors'[c] = cursors[c]
      BY <2>3 DEF Inv1, Types
    <3>3. CursorReady(k)'
      BY <1>3, <2>2, <3>1 DEF CursorReady
    <3>4. \A c \in Cursors \ {k} : CursorReady(c)'
      BY <3>2 DEF Inv1, CursorReady
    <3>5. QED
      BY <3>1, <3>3, <3>4
  <2>5. QED
    BY <1>0, <1>3, <2>4 DEF Inv1, Types
<1>4. \A p \in Packets : p.status \in BOOLEAN
  BY DEF Packets
<1>5. ASSUME NEW n \in Nat, n <= Len(Avail(k))
      PROVE  SubSeq(Avail(k), n + 1, Len(Avail(k))) \in Seq(Packets)
  BY <1>5, AvailPackets, TheRest
<1>6. ASSUME NEW n \in Nat \ {0}, n <= Len(Avail(k)) PROVE Avail(k)[n] \in Packets
  BY <1>6, AvailPackets
<1>7. CASE LastRow(k)
  <2>1. Len(Avail(k)) >= 1 /\ wire' = SubSeq(Avail(k), 1 + 1, Len(Avail(k)))
        /\ cursors' = cursors /\ unread' = FALSE /\ inTrans' = Avail(k)[1].status
    BY <1>7 DEF LastRow, EndOfRows
  <2>2. wire' \in Seq(Packets) /\ inTrans' \in BOOLEAN
    BY <1>4, <1>5, <1>6, <2>1, AvailPackets
  <2>3. QED
    BY <1>0, <2>1, <2>2 DEF Inv1, Types, CursorReady
<1>8. CASE (TwoRows(k) \/ RowAndEnd(k)) /\ cursors[k].open
  <2>1. PICK row, next \in Packets : row = Avail(k)[1] /\ next = Avail(k)[2]
    <3>1. Len(Avail(k)) >= 2
      BY <1>8 DEF TwoRows, RowAndEnd
    <3>2. QED
      BY <1>6, <3>1, AvailPackets
  <2>2. wire' \in Seq(Packets)
    <3>1. Len(Avail(k)) >= 2 /\ wire' = SubSeq(Avail(k), 2 + 1, Len(Avail(k)))
      BY <1>8 DEF TwoRows, RowAndEnd
    <3>2. QED
      BY <1>5, <3>1, AvailPackets
  <2>3. PICK got \in Seq(Packets) : got = Append(cursors[k].got, row)
    <3>1. cursors[k].got \in Seq(Packets)
      BY AvailPackets
    <3>2. Append(cursors[k].got, row) \in Seq(Packets)
      BY <3>1
    <3>3. QED
      BY <3>2
  <2>4. CASE TwoRows(k)
    <3>1. /\ cursors' = [cursors EXCEPT ![k].got = got, ![k].ahead = <<next>>]
          /\ next.kind = "row" /\ <<next>> \in Seq(Packets)
          /\ unread' = unread /\ inTrans' = inTrans
      BY <2>1, <2>3, <2>4 DEF TwoRows, Delivered, flags
    <3>2. unread' \in BOOLEAN /\ inTrans' \in BOOLEAN
      BY <3>1 DEF Inv1, Types
    <3>3. QED
      BY <1>3, <1>8, <2>1, <2>2, <2>3, <3>1, <3>2
  <2>5. CASE RowAndEnd(k)
    <3>1. /\ cursors' = [cursors EXCEPT ![k].got = got, ![k].ahead = <<>>]
          /\ <<>> \in Seq(Packets)
          /\ unread' = FALSE /\ inTrans' = next.status
      BY <2>1, <2>3, <2>5 DEF RowAndEnd, Delivered, EndOfRows
    <3>2. unread' \in BOOLEAN /\ inTrans' \in BOOLEAN
      BY <1>4, <2>1, <3>1
    <3>3. QED
      BY <1>3, <1>8, <2>1, <2>2, <2>3, <3>1, <3>2
  <2>6. QED
    BY <1>8, <2>4, <2>5
<1>9. CASE FetchReadsAll(k) /\ cursors[k].open
  <2>1. /\ SubSeq(wire, 1, EofAt - 1) \in Seq(Packets) /\ wire[EofAt].status \in BOOLEAN
        /\ wire' \in Seq(Packets) /\ unread' = FALSE /\ inTrans' = wire[EofAt].status
    BY <1>9, WireEnd DEF FetchReadsAll, EndOfRows
  <2>2. PICK got \in Seq(Packets) :
          got = cursors[k].got \o cursors[k].ahead \o SubSeq(wire, 1, EofAt - 1)
    BY <2>1, AvailPackets, Joined
  <2>3. cursors' = [cursors EXCEPT ![k].got = got, ![k].ahead = <<>>]
    BY <1>9, <2>2 DEF FetchReadsAll
  <2>4. <<>> \in Seq(Packets)
    OBVIOUS
  <2>5. QED
    BY <1>3, <1>9, <2>1, <2>2, <2>3, <2>4
<1>10. QED
  BY <1>1, <1>2, <1>7, <1>8, <1>9, FetchReadsCases DEF FetchOne, FetchAll

(* The connection starts so.                                               *)
LEMMA InitTypes ==
    ASSUME Init
    PROVE  Inv1
<1>1. Closed \in Cursor /\ Closed.ahead = <<>> /\ Closed = Closed
  BY ConnectorAssumption DEF Closed, Cursor, ConnectorAssumption
<1>2. cursors \in [Cursors -> Cursor] /\ \A k \in Cursors : CursorReady(k)
  BY <1>1 DEF Init, CursorReady
<1>3. NoCall \in [op : Ops, cursor : Cursors \cup {None}, id : 0..MaxCommands]
  BY ConnectorAssumption DEF ConnectorAssumption, NoCall, Ops
<1>4. requests \in Seq(Request) /\ wire \in Seq(Packets) /\ commands \in 0..MaxCommands
  BY ConnectorAssumption DEF ConnectorAssumption, Init
<1>5. QED
  BY <1>2, <1>3, <1>4 DEF Init, Inv1, Types, PendingReady, NoCall

(* A method gives up on its rows.                                          *)
LEMMA RowsTimeOutTypes ==
    ASSUME Inv1, RowsTimeOut
    PROVE  Inv1' /\ link' # "up" /\ pending' = NoCall /\ last'.error = "timeout"
<1>1. PICK op \in {"rollback", "fetchall", "fetchone"}, read \in 0..MaxRows :
        StopReading(op, read)
  <2>1. 0 \in 0..MaxRows /\ 1 \in 0..MaxRows
    BY ConnectorAssumption DEF ConnectorAssumption
  <2>2. QED
    BY <2>1 DEF RowsTimeOut
<1>2. wire \in Seq(Packets) /\ Len(wire) \in Nat
  BY DEF Inv1, Types
<1>3. read \in 0..Len(wire)
  BY <1>1, <1>2, ConnectorAssumption DEF StopReading, ConnectorAssumption
<1>4. wire' \in Seq(Packets)
  BY <1>1, <1>2, <1>3, TheRest DEF StopReading
<1>5. /\ pending' \in [op : Ops, cursor : Cursors \cup {None}, id : 0..MaxCommands]
      /\ PendingReady'
  BY <1>1, FinishTypes DEF StopReading
<1>6. QED
  BY <1>1, <1>4, <1>5 DEF StopReading, Finish, Inv1, Types, CursorReady

(* Every step keeps the types.                                             *)
LEMMA StepTypes ==
    ASSUME Inv1, [Next]_vars
    PROVE  Inv1'
<1>1. CASE UNCHANGED vars
  BY <1>1 DEF vars, server, flags, Inv1, Types, CursorReady, PendingReady
<1>2. CASE Commit \/ Rollback \/ Start
  BY <1>2, TransactionTypes
<1>3. CASE Ping \/ GetConnection
  BY <1>3, LinkTypes
<1>4. ASSUME NEW k \in Cursors, CursorCall(k) PROVE Inv1'
  BY <1>4, CursorTypes, FetchTypes DEF CursorCall
<1>5. CASE Receive \/ Lost \/ TimeOut
  BY <1>5, ReceiveTypes
<1>6. CASE Answer \/ Break
  BY <1>6, ServerTypes
<1>7. CASE RowsTimeOut
  BY <1>7, RowsTimeOutTypes
<1>8. QED
  BY <1>1, <1>2, <1>3, <1>4, <1>5, <1>6, <1>7 DEF Next, Client

(* Every variable always holds values of its type: of a result at most one *)
(* row is read ahead, and a closed cursor keeps nothing.                   *)
THEOREM ConnectorTypes == Spec => []TypeOK
<1>1. Inv1 => TypeOK
  <2> SUFFICES ASSUME Inv1 PROVE TypeOK
    OBVIOUS
  <2>1. \A k \in Cursors : Len(cursors[k].ahead) <= 1
    <3> SUFFICES ASSUME NEW k \in Cursors PROVE Len(cursors[k].ahead) <= 1
      OBVIOUS
    <3>1. cursors[k].ahead = <<>> \/ \E p \in Packets : cursors[k].ahead = <<p>>
      BY DEF Inv1, CursorReady
    <3>2. Len(<<>>) = 0 /\ \A p \in Packets : Len(<<p>>) = 1
      OBVIOUS
    <3>3. Len(cursors[k].ahead) = 0 \/ Len(cursors[k].ahead) = 1
      BY <3>1, <3>2, Zenon
    <3>4. 0 <= 1 /\ 1 <= 1
      OBVIOUS
    <3>5. QED
      BY <3>3, <3>4, Zenon
  <2>2. \A k \in Cursors : cursors[k] \in Cursor /\ (cursors[k].open \/ cursors[k] = Closed)
    BY DEF Inv1, Types, CursorReady
  <2>3. QED
    BY <2>1, <2>2 DEF TypeOK, Inv1, Types, Cursor, Request, Kinds
<1>2. Spec => []Inv1
  BY InitTypes, StepTypes, PTL DEF Spec
<1>3. QED
  BY <1>1, <1>2, PTL

(***************************************************************************)
(* In step with the server.                                                *)
(***************************************************************************)

(* The commands a method may be waiting for.                               *)
KindsOf(op) ==
    {kind \in Kinds :
        \/ kind = "ping" /\ op \in {"get", "ping", "cursor"}
        \/ kind = "end" /\ op \in {"commit", "rollback"}
        \/ kind = "start" /\ op = "start"
        \/ kind \in {"select", "selectone", "write"} /\ op = "execute"}

(* w is what is left of a result: rows, and the EOF behind them.           *)
RowsLeft(w) ==
    /\ Len(w) >= 1 /\ w[Len(w)].kind = "eof"
    /\ \A i \in 1..Len(w) : i < Len(w) => w[i].kind = "row"
    /\ \A i \in 1..Len(w) : w[i].status = TRUE

(* The client knows of a transaction that holds rows.                      *)
Noticed == trans = "dirty" => inTrans

(* The server has not yet answered the command of the waiting method.      *)
Asked(kind) ==
    /\ wire = <<>> /\ requests = <<[id |-> pending.id, kind |-> kind]>>
    /\ Noticed
    /\ kind = "start" => ~inTrans

(* It has: with OK, with an error, or with a result.                       *)
AnsweredOk(kind) ==
    /\ Len(wire) = 1 /\ wire[1].kind = "ok"
    /\ kind \notin {"select", "selectone"}
    /\ wire[1].status = (trans # "none")
    /\ kind = "end" => trans = "none"

AnsweredErr(kind) ==
    /\ Len(wire) = 1 /\ wire[1].kind = "err"
    /\ kind \in {"select", "selectone", "write"}
    /\ Noticed

AnsweredRows(kind) ==
    /\ wire[1].kind = "columns" /\ wire[1].status = TRUE
    /\ RowsLeft(Tail(wire))
    /\ kind \in {"select", "selectone"}
    /\ kind = "selectone" => Len(wire) <= 3

Answered(kind) ==
    /\ requests = <<>> /\ Len(wire) >= 1
    /\ \A i \in 1..Len(wire) : wire[i].id = pending.id
    /\ AnsweredOk(kind) \/ AnsweredErr(kind) \/ AnsweredRows(kind)

Waiting(kind) == ~unread /\ (Asked(kind) \/ Answered(kind))

(* No method waits: what is on the wire is left of a result.               *)
Resting ==
    /\ requests = <<>> /\ Noticed
    /\ wire # <<>> => unread /\ RowsLeft(wire)

Steady ==
    link = "up" => IF pending = NoCall THEN Resting
                   ELSE \E kind \in KindsOf(pending.op) : Waiting(kind)

Inv2 == Inv1 /\ Steady

-----------------------------------------------------------------------------
(* What is left of a result is something.                                  *)
LEMMA SomeLeft ==
    ASSUME NEW w, RowsLeft(w)
    PROVE  w # <<>>
  BY DEF RowsLeft

(* The first place that is not a row is the last.                          *)
LEMMA EofIsLast ==
    ASSUME wire \in Seq(Packets), RowsLeft(wire)
    PROVE  /\ EofAt = Len(wire) /\ EofAt # 0 /\ wire[EofAt].status = TRUE
           /\ SubSeq(wire, EofAt + 1, Len(wire)) = <<>>
           /\ SubSeq(wire, 1, EofAt - 1) \in Seq(Packets)
<1>1. PICK m : m = EofAt
  OBVIOUS
<1>2. /\ Len(wire) \in Nat \ {0} /\ wire[Len(wire)].kind = "eof"
      /\ \A i \in 1..Len(wire) : i < Len(wire) => wire[i].kind = "row"
      /\ \A i \in 1..Len(wire) : wire[i].status = TRUE
  BY DEF RowsLeft
<1>3. /\ m \in 0..Len(wire)
      /\ m # 0 => wire[m].kind = "eof"
      /\ \A i \in 1..Len(wire) : wire[i].kind = "eof" => m # 0 /\ m <= i
  BY <1>1, EofPlace
<1>4. m = Len(wire)
  BY <1>2, <1>3
<1>5. SubSeq(wire, m + 1, Len(wire)) = <<>> /\ SubSeq(wire, 1, m - 1) \in Seq(Packets)
  BY <1>2, <1>4
<1>6. QED
  BY <1>1, <1>2, <1>4, <1>5

(* Behind a row more is left of a result.                                  *)
LEMMA RestOfRows ==
    ASSUME NEW q \in Seq(Packets), RowsLeft(q), NEW n \in Nat, n < Len(q)
    PROVE  RowsLeft(SubSeq(q, n + 1, Len(q)))
<1>1. /\ Len(q) \in Nat \ {0} /\ q[Len(q)].kind = "eof"
      /\ \A i \in 1..Len(q) : i < Len(q) => q[i].kind = "row"
      /\ \A i \in 1..Len(q) : q[i].status = TRUE
  BY DEF RowsLeft
<1>2. n \in 0..Len(q)
  BY <1>1
<1>3. PICK r : r = SubSeq(q, n + 1, Len(q))
  OBVIOUS
<1>4. r \in Seq(Packets) /\ Len(r) = Len(q) - n /\ \A i \in 1..Len(r) : r[i] = q[n + i]
  BY <1>2, <1>3, TheRest
<1>5. Len(r) \in Nat \ {0} /\ n + Len(r) = Len(q)
  BY <1>1, <1>4
<1>6. r[Len(r)].kind = "eof"
  BY <1>1, <1>4, <1>5
<1>7. ASSUME NEW i \in 1..Len(r)
      PROVE  r[i].status = TRUE /\ (i < Len(r) => r[i].kind = "row")
  <2>1. n + i \in 1..Len(q) /\ (i < Len(r) => n + i < Len(q)) /\ r[i] = q[n + i]
    BY <1>1, <1>4, <1>5
  <2>2. QED
    BY <1>1, <2>1
<1>8. RowsLeft(r)
  <2>1. Len(r) >= 1
    BY <1>5
  <2>2. /\ \A i \in 1..Len(r) : i < Len(r) => r[i].kind = "row"
        /\ \A i \in 1..Len(r) : r[i].status = TRUE
    BY <1>7, Zenon
  <2>3. QED
    BY <1>6, <2>1, <2>2, Zenon DEF RowsLeft
<1>9. QED
  BY <1>3, <1>8

(* What is read ahead is a row, so that the first place behind the rows is *)
(* also the last of what a cursor can get.                                 *)
LEMMA AvailRows ==
    ASSUME Inv1, NEW k \in Cursors, RowsLeft(wire)
    PROVE  /\ Len(cursors[k].ahead) \in {0, 1}
           /\ Avail(k)[Len(Avail(k))] = wire[Len(wire)]
           /\ wire[Len(wire)].kind = "eof" /\ wire[Len(wire)].status = TRUE
           /\ \A i \in 1..Len(Avail(k)) : i < Len(Avail(k)) => Avail(k)[i].kind = "row"
           /\ \A n \in Nat : n >= Len(cursors[k].ahead) /\ n < Len(Avail(k)) =>
                 RowsLeft(SubSeq(Avail(k), n + 1, Len(Avail(k))))
<1>1. PICK a, h : a = Avail(k) /\ h = cursors[k].ahead
  OBVIOUS
<1>2. /\ a \in Seq(Packets) /\ Len(a) \in Nat /\ Len(a) = Len(h) + Len(wire)
      /\ h \in Seq(Packets) /\ wire \in Seq(Packets)
      /\ \A i \in 1..Len(h) : a[i] = h[i]
      /\ \A i \in 1..Len(wire) : a[Len(h) + i] = wire[i]
  BY <1>1, AvailPackets DEF Inv1, Types
<1>3. Len(h) \in {0, 1} /\ \A i \in 1..Len(h) : h[i].kind = "row"
  <2>1. h = <<>> \/ \E p \in Packets : h = <<p>> /\ p.kind = "row"
    BY <1>1 DEF Inv1, CursorReady
  <2>2. CASE h = <<>>
    BY <2>2
  <2>3. ASSUME NEW p \in Packets, h = <<p>>, p.kind = "row"
        PROVE  Len(h) = 1 /\ \A i \in 1..1 : h[i].kind = "row"
    BY <2>3
  <2>4. QED
    BY <2>1, <2>2, <2>3
<1>4. /\ Len(wire) \in Nat \ {0} /\ wire[Len(wire)].kind = "eof"
      /\ \A i \in 1..Len(wire) : i < Len(wire) => wire[i].kind = "row"
      /\ \A i \in 1..Len(wire) : wire[i].status = TRUE
  BY <1>2 DEF RowsLeft
<1>5. PICK l \in Nat, m \in Nat \ {0} : l = Len(h) /\ m = Len(wire) /\ Len(a) = l + m
  BY <1>2, <1>3, <1>4
<1>6. a[l + m] = wire[m]
  BY <1>2, <1>4, <1>5
<1>7. ASSUME NEW i \in 1..l + m, i < l + m PROVE a[i].kind = "row"
  <2>1. CASE i <= l
    <3>1. i \in 1..l
      BY <2>1, <1>5
    <3>2. QED
      BY <3>1, <1>2, <1>3, <1>5
  <2>2. CASE i > l
    <3>1. i - l \in 1..m /\ i - l < m /\ l + (i - l) = i
      BY <1>5, <1>7, <2>2
    <3>2. a[l + (i - l)] = wire[i - l]
      BY <1>2, <1>5, <3>1
    <3>3. QED
      BY <1>4, <1>5, <3>1, <3>2
  <2>3. QED
    BY <1>5, <2>1, <2>2
<1>8. ASSUME NEW n \in Nat, n >= l, n < l + m
      PROVE  RowsLeft(SubSeq(a, n + 1, Len(a)))
  <2>1. PICK r : r = SubSeq(a, n + 1, Len(a))
    OBVIOUS
  <2>2. n \in 0..Len(a)
    BY <1>5, <1>8
  <2>3. r \in Seq(Packets) /\ Len(r) = Len(a) - n /\ \A i \in 1..Len(r) : r[i] = a[n + i]
    BY <1>2, <2>1, <2>2, TheRest
  <2>4. PICK t \in Nat \ {0} : t = Len(r) /\ n + t = l + m
    <3>1. Len(r) = (l + m) - n
      BY <1>5, <2>3
    <3>2. (l + m) - n \in Nat \ {0} /\ n + ((l + m) - n) = l + m
      BY <1>8
    <3>3. QED
      BY <3>1, <3>2
  <2>5. ASSUME NEW i \in 1..t
        PROVE  /\ n + i - l \in 1..m /\ r[i] = wire[n + i - l]
               /\ i < t => n + i - l < m
               /\ i = t => n + i - l = m
    <3>1. n + i - l \in 1..m /\ l + (n + i - l) = n + i
      BY <1>5, <1>8, <2>4
    <3>2. a[l + (n + i - l)] = wire[n + i - l]
      BY <1>2, <1>5, <3>1
    <3>3. r[i] = a[n + i]
      BY <2>3, <2>4
    <3>4. QED
      BY <1>5, <2>4, <3>1, <3>2, <3>3
  <2>6. r[t].kind = "eof"
    <3>1. t \in 1..t
      OBVIOUS
    <3>2. r[t] = wire[n + t - l] /\ n + t - l = m
      BY <2>5, <3>1
    <3>3. QED
      BY <1>4, <1>5, <3>2
  <2>7. \A i \in 1..t : r[i].status = TRUE /\ (i < t => r[i].kind = "row")
    BY <1>4, <1>5, <2>5
  <2>8. RowsLeft(r)
    BY <2>4, <2>6, <2>7 DEF RowsLeft
  <2>9. QED
    BY <2>1, <2>8
<1>9. QED
  BY <1>1, <1>3, <1>4, <1>5, <1>6, <1>7, <1>8

(* A command that is sent over a link with nothing on its way waits alone. *)
LEMMA SentSteady ==
    ASSUME Inv1, NEW op \in Ops \ {"none"}, NEW k \in Cursors \cup {None}, NEW kind \in Kinds,
           Transmit(op, k, kind), ~unread', wire' = <<>>, link = "up" => requests = <<>>,
           Noticed', kind = "start" => ~inTrans'
    PROVE  /\ link' = link
           /\ link = "up" => /\ pending' # NoCall /\ pending'.op = op /\ Waiting(kind)'
                             /\ last' = last
<1>1. link' = link
  BY DEF Transmit
<1>2. ASSUME link = "up"
      PROVE  /\ pending' # NoCall /\ pending'.op = op /\ Waiting(kind)'
             /\ last' = last
  <2>1. /\ requests' = Append(requests, [id |-> commands', kind |-> kind])
        /\ pending' = [op |-> op, cursor |-> k, id |-> commands'] /\ last' = last
    BY <1>2 DEF Transmit
  <2>2. pending'.op = op /\ pending'.id = commands' /\ pending' # NoCall
    BY <2>1 DEF NoCall
  <2>3. requests' = <<[id |-> pending'.id, kind |-> kind]>>
    BY <1>2, <2>1, <2>2
  <2>4. QED
    BY <2>1, <2>2, <2>3 DEF Waiting, Asked
<1>3. QED
  BY <1>1, <1>2

(* A new session rests.                                                    *)
LEMMA RenewedSteady ==
    ASSUME Reopen \/ Reconnect("ping")
    PROVE  Steady' /\ pending' = NoCall /\ requests' = <<>> /\ wire' = <<>> /\ trans' = "none"
  BY DEF Reopen, Reconnect, NewSession, Finish, Steady, Resting, Noticed

(* The answer of the server to the command that waits.                     *)
LEMMA AnswerSteady ==
    ASSUME Inv1, NEW kind \in Kinds, Waiting(kind), Answer
    PROVE  /\ UNCHANGED <<link, commands, unread, inTrans, cursors, pending, last>>
           /\ Waiting(kind)'
           /\ Len(wire') = 1 \/ \E n \in 0..MaxRows : wire' = Result(pending.id, n)
<1> DEFINE Good == /\ Waiting(kind)'
                   /\ Len(wire') = 1 \/ \E n \in 0..MaxRows : wire' = Result(pending.id, n)
<1>1. /\ UNCHANGED <<link, commands, unread, inTrans, cursors, pending, last>>
      /\ requests # <<>>
  BY DEF Answer, flags
<1>2. Asked(kind) /\ ~unread
  BY <1>1 DEF Waiting, Answered
<1>3. PICK id \in 1..MaxCommands : requests = <<[id |-> id, kind |-> kind]>> /\ id = pending.id
  <2>1. Head(requests) \in Request
    BY <1>1, FirstOf DEF Inv1, Types
  <2>2. Head(requests) = [id |-> pending.id, kind |-> kind]
    BY <1>2 DEF Asked
  <2>3. pending.id \in 1..MaxCommands
    BY <2>1, <2>2 DEF Request
  <2>4. QED
    BY <1>2, <2>3 DEF Asked
<1>4. Head(requests).id = id /\ Head(requests).kind = kind /\ Tail(requests) = <<>>
  <2>1. PICK c : c = [id |-> id, kind |-> kind]
    OBVIOUS
  <2>2. Head(<<c>>) = c /\ Tail(<<c>>) = <<>>
    OBVIOUS
  <2>3. QED
    BY <1>3, <2>1, <2>2
<1>5. wire = <<>> /\ Noticed /\ wire \in Seq(Packets)
  BY <1>2 DEF Asked, Inv1, Types
<1>6. ASSUME NEW packets \in Seq(Packets), NEW after, Reply(packets, after)
      PROVE  requests' = <<>> /\ wire' = packets /\ trans' = after
  BY <1>4, <1>5, <1>6 DEF Reply
<1>7. 0 \in 0..MaxRows /\ 1 \in 0..MaxRows
  BY ConnectorAssumption DEF ConnectorAssumption
<1>8. ASSUME NEW p \in Packets, p.id = id, Len(wire') = 1, wire'[1] = p, requests' = <<>>,
             \/ p.kind = "ok" /\ AnsweredOk(kind)'
             \/ p.kind = "err" /\ AnsweredErr(kind)'
      PROVE  Good
  BY <1>1, <1>2, <1>3, <1>8 DEF Waiting, Answered
<1>9. ASSUME NEW after, kind \notin {"select", "selectone"}, kind = "end" => after = "none",
             Reply(<<Packet(id, "ok", 0, after # "none")>>, after)
      PROVE  Good
  <2>1. PICK p \in Packets : p = Packet(id, "ok", 0, after # "none")
    BY <1>7, PacketType
  <2>2. p.id = id /\ p.kind = "ok" /\ p.status = (after # "none")
    BY <2>1 DEF Packet
  <2>3. <<p>> \in Seq(Packets) /\ Len(<<p>>) = 1 /\ <<p>>[1] = p
    OBVIOUS
  <2>4. requests' = <<>> /\ wire' = <<p>> /\ trans' = after
    BY <1>6, <1>9, <2>1, <2>3
  <2>5. QED
    BY <1>8, <1>9, <2>2, <2>3, <2>4 DEF AnsweredOk
<1>10. ASSUME NEW n \in 0..MaxRows, kind \in {"select", "selectone"}, NEW after,
              kind = "selectone" => n <= 1, Reply(Result(id, n), after)
       PROVE  Good
  <2>1. PICK w : w = Result(id, n)
    OBVIOUS
  <2>2. /\ n \in Nat /\ w \in Seq(Packets) /\ Len(w) = n + 2
        /\ w[1] = Packet(id, "columns", 0, TRUE)
        /\ \A i \in 1..n : w[i + 1] = Packet(id, "row", i, TRUE)
        /\ w[n + 2] = Packet(id, "eof", n, TRUE)
    <3>1. n \in Nat
      BY ConnectorAssumption DEF ConnectorAssumption
    <3>2. QED
      BY <2>1, <3>1, ResultPackets, Zenon
  <2>3. requests' = <<>> /\ wire' = w
    BY <1>6, <1>10, <2>1, <2>2
  <2>4. ASSUME NEW i \in 1..n + 2
        PROVE  /\ w[i].id = id /\ w[i].status = TRUE
               /\ i > 1 /\ i < n + 2 => w[i].kind = "row"
    <3>1. i = 1 \/ i = n + 2 \/ (i - 1 \in 1..n /\ (i - 1) + 1 = i)
      BY <2>2
    <3>2. CASE i = 1
      BY <2>2, <3>2 DEF Packet
    <3>3. CASE i = n + 2
      BY <2>2, <3>3 DEF Packet
    <3>4. CASE i - 1 \in 1..n /\ (i - 1) + 1 = i
      <4>1. w[(i - 1) + 1] = Packet(id, "row", i - 1, TRUE)
        BY <2>2, <3>4
      <4>2. QED
        BY <3>4, <4>1 DEF Packet
    <3>5. QED
      BY <3>1, <3>2, <3>3, <3>4
  <2>5. RowsLeft(Tail(w))
    <3>1. w # <<>>
      BY <2>2
    <3>2. PICK t : t = Tail(w)
      OBVIOUS
    <3>3. Len(t) = n + 1 /\ \A i \in 1..Len(t) : t[i] = w[i + 1]
      BY <2>2, <3>1, <3>2, FirstOf
    <3>4. t[n + 1].kind = "eof"
      <4>1. n + 1 \in 1..n + 1 /\ (n + 1) + 1 = n + 2
        BY <2>2
      <4>2. t[n + 1] = w[n + 2]
        BY <3>3, <4>1
      <4>3. QED
        BY <2>2, <4>2 DEF Packet
    <3>5. ASSUME NEW i \in 1..n + 1
          PROVE  t[i].status = TRUE /\ (i < n + 1 => t[i].kind = "row")
      <4>1. i + 1 \in 1..n + 2 /\ i + 1 > 1 /\ (i < n + 1 => i + 1 < n + 2)
        BY <2>2
      <4>2. QED
        BY <2>4, <3>3, <4>1
    <3>6. Len(t) >= 1
      BY <2>2, <3>3
    <3>7. RowsLeft(t)
      <4>1. t[Len(t)].kind = "eof"
        BY <3>3, <3>4
      <4>2. /\ \A i \in 1..Len(t) : i < Len(t) => t[i].kind = "row"
            /\ \A i \in 1..Len(t) : t[i].status = TRUE
        BY <3>3, <3>5, Zenon
      <4>3. QED
        BY <3>6, <4>1, <4>2, Zenon DEF RowsLeft
    <3>8. QED
      BY <3>2, <3>7
  <2>6. w[1].kind = "columns" /\ w[1].status = TRUE
    BY <2>2 DEF Packet
  <2>7. Len(w) >= 1 /\ (kind = "selectone" => Len(w) <= 3)
    BY <1>10, <2>2
  <2>8. AnsweredRows(kind)'
    BY <1>10, <2>3, <2>5, <2>6, <2>7 DEF AnsweredRows
  <2>9. \A i \in 1..Len(w) : w[i].id = id
    BY <2>2, <2>4
  <2>10. QED
    BY <1>1, <1>2, <1>3, <2>1, <2>3, <2>7, <2>8, <2>9 DEF Waiting, Answered
<1>11. PICK opened : opened = IF trans = "none" THEN "clean" ELSE trans
  OBVIOUS
<1>12. ASSUME NEW after \in {opened, "none"}, kind \in {"select", "selectone", "write"},
              Reply(<<Packet(id, "err", 0, FALSE)>>, after)
       PROVE  Good
  <2>1. PICK p \in Packets : p = Packet(id, "err", 0, FALSE)
    BY <1>7, PacketType
  <2>2. p.id = id /\ p.kind = "err"
    BY <2>1 DEF Packet
  <2>3. <<p>> \in Seq(Packets) /\ Len(<<p>>) = 1 /\ <<p>>[1] = p
    OBVIOUS
  <2>4. requests' = <<>> /\ wire' = <<p>> /\ trans' = after
    BY <1>6, <1>12, <2>1, <2>3
  <2>5. Noticed'
    BY <1>1, <1>5, <1>11, <2>4 DEF Noticed
  <2>6. QED
    BY <1>8, <1>12, <2>2, <2>3, <2>4, <2>5 DEF AnsweredErr
<1>13. \/ /\ kind \notin {"select", "selectone"}
          /\ \E after : /\ Reply(<<Packet(id, "ok", 0, after # "none")>>, after)
                        /\ kind = "end" => after = "none"
       \/ kind = "select" /\ \E n \in 0..MaxRows : Reply(Result(id, n), opened)
       \/ kind = "selectone" /\ \E n \in {0, 1} : Reply(Result(id, n), opened)
       \/ /\ kind \in {"select", "selectone", "write"}
          /\ \E after \in {opened, "none"} : Reply(<<Packet(id, "err", 0, FALSE)>>, after)
  BY <1>4, <1>11 DEF Answer
<1> HIDE DEF Good
<1>14. Good
  <2>1. CASE /\ kind \notin {"select", "selectone"}
             /\ \E after : /\ Reply(<<Packet(id, "ok", 0, after # "none")>>, after)
                           /\ kind = "end" => after = "none"
    BY <1>9, <2>1
  <2>2. CASE kind = "select" /\ \E n \in 0..MaxRows : Reply(Result(id, n), opened)
    <3>1. kind \in {"select", "selectone"} /\ kind # "selectone"
      BY <2>2
    <3>2. QED
      BY <1>10, <2>2, <3>1
  <2>3. CASE kind = "selectone" /\ \E n \in {0, 1} : Reply(Result(id, n), opened)
    <3>1. kind \in {"select", "selectone"} /\ 0 <= 1 /\ 1 <= 1
      BY <2>3
    <3>2. PICK n \in {0, 1} : Reply(Result(id, n), opened)
      BY <2>3
    <3>3. n \in 0..MaxRows /\ n <= 1
      BY <1>7, <3>1
    <3>4. QED
      BY <1>10, <3>1, <3>2, <3>3
  <2>4. CASE /\ kind \in {"select", "selectone", "write"}
             /\ \E after \in {opened, "none"} : Reply(<<Packet(id, "err", 0, FALSE)>>, after)
    BY <1>12, <2>4
  <2>5. QED
    BY <1>13, <2>1, <2>2, <2>3, <2>4
<1>15. QED
  BY <1>1, <1>14 DEF Good

(* What a method gets: OK, an error, or a result to fetch.                 *)
GotOk(kind) ==
    /\ kind \notin {"select", "selectone"}
    /\ wire' = <<>> /\ unread' = FALSE /\ inTrans' = (trans # "none")
    /\ kind = "end" => trans = "none"
    /\ last'.error = "none"
    /\ cursors' = IF pending.op = "cursor" THEN [cursors EXCEPT ![pending.cursor] = Fresh]
                  ELSE cursors

GotErr(kind) ==
    /\ kind \in {"select", "selectone", "write"}
    /\ wire' = <<>> /\ unread' = FALSE /\ inTrans' = inTrans /\ Noticed
    /\ wire[1].kind = "err" /\ last'.error = "server" /\ cursors' = cursors

GotRows(kind) ==
    /\ kind \in {"select", "selectone"}
    /\ wire' = Tail(wire) /\ RowsLeft(wire') /\ unread' = TRUE /\ inTrans' = TRUE
    /\ kind = "selectone" => Len(wire') <= 2
    /\ last'.error = "none" /\ cursors' = cursors
    /\ \A i \in 1..Len(wire') : wire'[i].id = pending.id

(* A method that waits in step gets the answer to its own command.         *)
LEMMA ReceiveSteady ==
    ASSUME Inv1, NEW kind \in KindsOf(pending.op), Waiting(kind), Receive
    PROVE  /\ UNCHANGED <<link, requests, trans, commands>>
           /\ requests' = <<>> /\ pending' = NoCall /\ last'.op = pending.op
           /\ GotOk(kind) \/ GotErr(kind) \/ GotRows(kind)
<1>0. wire # <<>> /\ pending # NoCall
  BY DEF Receive
<1>1. Answered(kind) /\ unread = FALSE
  BY <1>0 DEF Waiting, Asked, Inv1, Types
<1>2. PICK p \in Packets : p = Head(wire) /\ p = wire[1]
  BY <1>0, FirstOf DEF Inv1, Types
<1>3. Tail(wire) \in Seq(Packets) /\ Len(Tail(wire)) = Len(wire) - 1 /\ Len(wire) \in Nat
      /\ \A i \in 1..Len(Tail(wire)) : Tail(wire)[i] = wire[i + 1]
  BY <1>0, FirstOf DEF Inv1, Types
<1>4. Len(wire) = 1 => Tail(wire) = <<>>
  <2>1. PICK t \in Seq(Packets) : t = Tail(wire)
    BY <1>3
  <2>2. Len(wire) = 1 => Len(t) = 0
    BY <1>3, <2>1
  <2>3. Len(t) = 0 => t = <<>>
    OBVIOUS
  <2>4. QED
    BY <2>1, <2>2, <2>3
<1>5. requests = <<>> /\ \A i \in 1..Len(wire) : wire[i].id = pending.id
  BY <1>1 DEF Answered
<1>6. ASSUME NEW error, Finish(pending.op, error)
      PROVE  pending' = NoCall /\ last'.op = pending.op /\ last'.error = error
  BY <1>6 DEF Finish
<1>7. CASE AnsweredOk(kind)
  <2>1. /\ p.kind = "ok" /\ p.status = (trans # "none") /\ Len(wire) = 1
        /\ kind \notin {"select", "selectone"}
        /\ kind = "end" => trans = "none"
    BY <1>2, <1>7 DEF AnsweredOk
  <2>2. /\ wire' = Tail(wire) /\ HandleOk(p)
        /\ cursors' = IF pending.op = "cursor" THEN [cursors EXCEPT ![pending.cursor] = Fresh]
                      ELSE cursors
        /\ Finish(pending.op, "none") /\ UNCHANGED <<link, requests, trans, commands>>
    BY <1>2, <2>1 DEF Receive
  <2>3. GotOk(kind)
    BY <1>1, <1>4, <1>6, <2>1, <2>2 DEF GotOk, HandleOk
  <2>4. QED
    BY <1>5, <1>6, <2>2, <2>3
<1>8. CASE AnsweredErr(kind)
  <2>1. p.kind = "err" /\ Len(wire) = 1 /\ kind \in {"select", "selectone", "write"} /\ Noticed
    BY <1>2, <1>8 DEF AnsweredErr
  <2>2. pending.op \notin {"get", "ping", "cursor"}
    BY <2>1 DEF KindsOf
  <2>3. Failed("server", Tail(wire))
    BY <1>2, <2>1 DEF Receive
  <2>4. /\ wire' = Tail(wire) /\ Finish(pending.op, "server")
        /\ UNCHANGED <<link, requests, trans, commands, flags, cursors>>
    BY <2>2, <2>3 DEF Failed
  <2>5. GotErr(kind)
    BY <1>1, <1>2, <1>4, <1>6, <2>1, <2>4 DEF GotErr, flags
  <2>6. QED
    BY <1>5, <1>6, <2>4, <2>5
<1>9. CASE AnsweredRows(kind)
  <2>1. /\ p.kind = "columns" /\ p.status = TRUE /\ RowsLeft(Tail(wire))
        /\ kind \in {"select", "selectone"}
        /\ kind = "selectone" => Len(wire) <= 3
    BY <1>2, <1>9 DEF AnsweredRows
  <2>2. pending.op \notin {"get", "ping", "cursor"}
    BY <2>1 DEF KindsOf
  <2>3. /\ wire' = Tail(wire) /\ unread' = TRUE /\ inTrans' = p.status
        /\ Finish(pending.op, "none") /\ UNCHANGED <<link, requests, trans, commands, cursors>>
    BY <1>2, <2>1, <2>2 DEF Receive
  <2>4. kind = "selectone" => Len(wire') <= 2
    BY <1>3, <2>1, <2>3
  <2>5. \A i \in 1..Len(wire') : wire'[i].id = pending.id
    BY <1>3, <1>5, <2>3
  <2>6. GotRows(kind)
    BY <1>6, <2>1, <2>3, <2>4, <2>5 DEF GotRows
  <2>7. QED
    BY <1>5, <1>6, <2>3, <2>6
<1>10. QED
  BY <1>1, <1>7, <1>8, <1>9 DEF Answered

(* The three ways fetchone() goes on while the link is up.                 *)
FetchedEnd(k) ==
    /\ cursors[k].ahead = <<>> /\ Len(wire) = 1 /\ wire' = <<>>
    /\ unread' = FALSE /\ inTrans' = TRUE /\ cursors' = cursors

FetchedRow(k) ==
    /\ Len(Avail(k)) > 2 /\ wire' = SubSeq(Avail(k), 3, Len(Avail(k))) /\ RowsLeft(wire')
    /\ unread' = unread /\ inTrans' = inTrans
    /\ cursors' = Delivered(k, Avail(k)[1], <<Avail(k)[2]>>)

FetchedLast(k) ==
    /\ Len(Avail(k)) = 2 /\ wire' = <<>>
    /\ unread' = FALSE /\ inTrans' = TRUE
    /\ cursors' = Delivered(k, Avail(k)[1], <<>>)

(* While the link is up it goes on in one of these.                        *)
LEMMA FetchOneSteady ==
    ASSUME Inv1, Resting, link # "down", NEW k \in Cursors, FetchReads(k)
    PROVE  /\ RowsLeft(wire) /\ unread /\ Finish("fetchone", "none")
           /\ FetchedEnd(k) \/ FetchedRow(k) \/ FetchedLast(k)
<1>1. LastRow(k) \/ TwoRows(k) \/ RowAndEnd(k)
  BY FetchReadsCases DEF FetchLost
<1>2. PICK a, h : a = Avail(k) /\ h = cursors[k].ahead
  OBVIOUS
<1>3. /\ a \in Seq(Packets) /\ Len(a) \in Nat /\ Len(a) = Len(h) + Len(wire)
      /\ h \in Seq(Packets) /\ wire \in Seq(Packets) /\ Len(h) \in Nat /\ Len(wire) \in Nat
      /\ \A i \in 1..Len(h) : a[i] = h[i]
  BY <1>2, AvailPackets DEF Inv1, Types
<1>4. h = <<>> \/ (Len(h) = 1 /\ h[1].kind = "row")
  <2>1. h = <<>> \/ \E p \in Packets : h = <<p>> /\ p.kind = "row"
    BY <1>2 DEF Inv1, CursorReady
  <2>2. \A p \in Packets : Len(<<p>>) = 1 /\ <<p>>[1] = p
    OBVIOUS
  <2>3. QED
    BY <2>1, <2>2
<1>5. wire # <<>>
  <2>1. SUFFICES ASSUME wire = <<>> PROVE FALSE
    OBVIOUS
  <2>2. Len(wire) = 0 /\ Len(<<>>) = 0
    BY <2>1
  <2>3. CASE h = <<>>
    <3>1. Len(a) = 0
      BY <1>3, <2>2, <2>3
    <3>2. QED
      BY <1>1, <1>2, <3>1 DEF LastRow, TwoRows, RowAndEnd
  <2>4. CASE Len(h) = 1 /\ h[1].kind = "row"
    <3>1. Len(a) = 1
      BY <1>3, <2>2, <2>4
    <3>2. a[1].kind = "row"
      BY <1>3, <2>4
    <3>3. QED
      BY <1>1, <1>2, <3>1, <3>2 DEF LastRow, TwoRows, RowAndEnd
  <2>5. QED
    BY <1>4, <2>3, <2>4
<1>6. unread /\ RowsLeft(wire)
  BY <1>5 DEF Resting
<1>7. /\ Len(h) \in {0, 1} /\ a[Len(a)] = wire[Len(wire)]
      /\ wire[Len(wire)].kind = "eof" /\ wire[Len(wire)].status = TRUE
      /\ \A i \in 1..Len(a) : i < Len(a) => a[i].kind = "row"
      /\ \A n \in Nat : n >= Len(h) /\ n < Len(a) => RowsLeft(SubSeq(a, n + 1, Len(a)))
  BY <1>2, <1>6, AvailRows
<1>8. Len(wire) >= 1
  BY <1>6 DEF RowsLeft
<1>9. CASE LastRow(k)
  <2>1. /\ Len(a) >= 1 /\ a[1].kind # "row" /\ wire' = SubSeq(a, 2, Len(a))
        /\ Finish("fetchone", "none") /\ unread' = FALSE /\ inTrans' = a[1].status
        /\ cursors' = cursors
    BY <1>2, <1>9 DEF LastRow, EndOfRows
  <2>2. Len(a) = 1
    BY <1>3, <1>7, <2>1
  <2>3. Len(h) = 0 /\ Len(wire) = 1
    BY <1>3, <1>7, <1>8, <2>2
  <2>4. h = <<>> /\ wire' = <<>>
    <3>1. h = <<>>
      BY <1>3, <2>3
    <3>2. SubSeq(a, 2, 1) = <<>>
      BY <1>3
    <3>3. QED
      BY <2>1, <2>2, <3>1, <3>2
  <2>5. inTrans' = TRUE
    BY <1>7, <2>1, <2>2
  <2>6. QED
    BY <1>2, <1>6, <2>1, <2>3, <2>4, <2>5 DEF FetchedEnd
<1>10. CASE TwoRows(k)
  <2>1. /\ Len(a) >= 2 /\ a[2].kind = "row" /\ wire' = SubSeq(a, 3, Len(a))
        /\ Finish("fetchone", "none") /\ unread' = unread /\ inTrans' = inTrans
        /\ cursors' = Delivered(k, a[1], <<a[2]>>)
    BY <1>2, <1>10 DEF TwoRows, flags
  <2>2. Len(a) # 2
    BY <1>7, <2>1
  <2>3. Len(a) > 2 /\ 2 >= Len(h) /\ 2 < Len(a) /\ 2 \in Nat /\ 2 + 1 = 3
    <3>1. Len(a) > 2 /\ 2 < Len(a)
      BY <1>3, <2>1, <2>2
    <3>2. 2 >= Len(h)
      <4>1. \A l \in {0, 1} : 2 >= l
        OBVIOUS
      <4>2. QED
        BY <1>7, <4>1, Zenon
    <3>3. QED
      BY <3>1, <3>2
  <2>4. RowsLeft(wire')
    BY <1>7, <2>1, <2>3
  <2>5. QED
    BY <1>2, <1>6, <2>1, <2>3, <2>4 DEF FetchedRow
<1>11. CASE RowAndEnd(k)
  <2>1. /\ Len(a) >= 2 /\ a[2].kind # "row" /\ wire' = SubSeq(a, 3, Len(a))
        /\ Finish("fetchone", "none") /\ unread' = FALSE /\ inTrans' = a[2].status
        /\ cursors' = Delivered(k, a[1], <<>>)
    BY <1>2, <1>11 DEF RowAndEnd, EndOfRows
  <2>2. Len(a) = 2
    BY <1>3, <1>7, <2>1
  <2>3. wire' = <<>>
    <3>1. SubSeq(a, 3, 2) = <<>>
      BY <1>3
    <3>2. QED
      BY <2>1, <2>2, <3>1
  <2>4. inTrans' = TRUE
    BY <1>7, <2>1, <2>2
  <2>5. QED
    BY <1>2, <1>6, <2>1, <2>2, <2>3, <2>4 DEF FetchedLast
<1>12. QED
  BY <1>1, <1>9, <1>10, <1>11

(* fetchall() while the link is up takes all that is left.                 *)
FetchedAll(k) ==
    /\ unread /\ unread' = FALSE /\ inTrans' = TRUE /\ wire' = <<>>
    /\ cursors' = [cursors EXCEPT
          ![k].got = @ \o cursors[k].ahead \o SubSeq(wire, 1, EofAt - 1),
          ![k].ahead = <<>>]

(* fetchall() does so while the link is up.                                *)
LEMMA FetchAllSteady ==
    ASSUME Inv1, Resting, NEW k \in Cursors, unread, FetchReadsAll(k)
    PROVE  RowsLeft(wire) /\ FetchedAll(k) /\ Finish("fetchall", "none")
<1>1. EofAt # 0 /\ wire \in Seq(Packets)
  BY DEF FetchReadsAll, Inv1, Types
<1>2. wire # <<>>
  BY <1>1, EofPlace
<1>3. RowsLeft(wire)
  BY <1>2 DEF Resting
<1>4. QED
  BY <1>1, <1>3, EofIsLast DEF FetchReadsAll, FetchedAll, EndOfRows

(* A command sent while nothing is on its way waits for its answer.        *)
LEMMA SendSteady ==
    ASSUME Inv1, Resting, link = "up", NEW op \in Ops \ {"none"},
           NEW k \in Cursors \cup {None}, NEW kind \in Kinds,
           Send(op, k, kind), UNCHANGED flags, kind = "start" => ~inTrans
    PROVE  /\ link' = link /\ pending' # NoCall /\ pending'.op = op /\ last' = last
           /\ Waiting(kind)' /\ trans' = trans
<1>1. wire = <<>> /\ requests = <<>> /\ ~unread
  BY DEF Send, Resting
<1>2. Transmit(op, k, kind) /\ ~unread' /\ wire' = <<>> /\ inTrans' = inTrans /\ trans' = trans
  BY <1>1 DEF Send, flags
<1>3. Noticed'
  BY <1>2 DEF Resting, Noticed
<1>4. QED
  BY <1>1, <1>2, <1>3, SentSteady

(* rollback() drops the rows that are left, and sends its command.         *)
LEMMA RollbackSteady ==
    ASSUME Inv1, Resting, link = "up", Rollback
    PROVE  /\ link' = link /\ pending' # NoCall /\ pending'.op = "rollback" /\ last' = last
           /\ Waiting("end")' /\ trans' = trans /\ cursors' = cursors
<1>1. "rollback" \in Ops \ {"none"} /\ None \in Cursors \cup {None} /\ "end" \in Kinds
  BY DEF Ops, Kinds
<1>2. CASE Send("rollback", None, "end") /\ UNCHANGED flags
  <2>1. cursors' = cursors
    BY DEF Rollback
  <2>2. QED
    BY <1>1, <1>2, <2>1, SendSteady
<1>3. CASE /\ unread /\ EofAt # 0 /\ unread' = FALSE /\ inTrans' = wire[EofAt].status
           /\ wire' = SubSeq(wire, EofAt + 1, Len(wire))
           /\ Transmit("rollback", None, "end") /\ UNCHANGED trans
  <2>1. wire \in Seq(Packets)
    BY DEF Inv1, Types
  <2>2. wire # <<>>
    BY <1>3, <2>1, EofPlace
  <2>3. RowsLeft(wire) /\ requests = <<>>
    BY <2>2 DEF Resting
  <2>4. wire' = <<>> /\ inTrans' = TRUE
    BY <1>3, <2>1, <2>3, EofIsLast
  <2>5. Noticed' /\ ~unread'
    BY <1>3, <2>4 DEF Noticed
  <2>6. /\ link' = link /\ pending' # NoCall /\ pending'.op = "rollback" /\ Waiting("end")'
        /\ last' = last
    BY <1>1, <1>3, <2>3, <2>4, <2>5, SentSteady
  <2>7. QED
    BY <1>3, <2>6 DEF Rollback
<1>4. QED
  BY <1>2, <1>3 DEF Rollback

(* fetchone() and fetchall() leave what is left of the result, or nothing. *)
LEMMA FetchSteady ==
    ASSUME Inv1, Resting, link = "up", NEW k \in Cursors, FetchOne(k) \/ FetchAll(k)
    PROVE  Resting' /\ pending' = NoCall /\ link' = link /\ trans' = trans
<1>1. UNCHANGED <<link, requests, trans, commands>>
  BY DEF FetchOne, FetchAll
<1>2. CASE UNCHANGED <<wire, flags>> /\ \E op, error : Finish(op, error)
  BY <1>1, <1>2 DEF Resting, Noticed, flags, Finish
<1>3. CASE wire' = <<>> /\ inTrans' = TRUE /\ \E op, error : Finish(op, error)
  BY <1>1, <1>3 DEF Resting, Noticed, Finish
<1>4. CASE /\ RowsLeft(wire') /\ unread /\ unread' = unread /\ inTrans' = inTrans
           /\ \E op, error : Finish(op, error)
  BY <1>1, <1>4 DEF Resting, Noticed, Finish
<1>5. CASE FetchOne(k)
  <2>1. CASE FetchReads(k)
    <3>1. /\ RowsLeft(wire) /\ unread /\ Finish("fetchone", "none")
          /\ FetchedEnd(k) \/ FetchedRow(k) \/ FetchedLast(k)
      BY <2>1, FetchOneSteady
    <3>2. QED
      BY <1>3, <1>4, <3>1 DEF FetchedEnd, FetchedRow, FetchedLast
  <2>2. QED
    BY <1>2, <1>5, <2>1 DEF FetchOne
<1>6. CASE FetchAll(k)
  <2>1. CASE FetchReadsAll(k) /\ unread
    <3>1. FetchedAll(k) /\ Finish("fetchall", "none")
      BY <2>1, FetchAllSteady
    <3>2. QED
      BY <1>3, <3>1 DEF FetchedAll
  <2>2. QED
    BY <1>2, <1>6, <2>1 DEF FetchAll, FetchLost
<1>7. QED
  BY <1>5, <1>6

(* Where a method returned at once, nothing has changed but that.          *)
LEMMA RefusedSteady ==
    ASSUME Steady, pending = NoCall, NEW op, NEW error, Finish(op, error),
           UNCHANGED <<link, server, flags>>
    PROVE  Steady'
  BY DEF Steady, Resting, Noticed, Finish, server, flags

(* A sent command keeps the connection in step.                            *)
LEMMA SendKeepsStep ==
    ASSUME Inv2, Idle, NEW op \in Ops \ {"none"}, NEW k \in Cursors \cup {None},
           NEW kind \in KindsOf(op), Send(op, k, kind), UNCHANGED flags,
           kind = "start" => ~inTrans
    PROVE  Steady'
<1>1. link' = link /\ kind \in Kinds
  BY DEF Send, Transmit, KindsOf
<1>2. CASE link = "up"
  <2>1. Inv1 /\ Resting
    BY <1>2 DEF Inv2, Steady, Idle
  <2>2. pending' # NoCall /\ pending'.op = op /\ Waiting(kind)'
    BY <1>1, <1>2, <2>1, SendSteady
  <2>3. QED
    BY <1>1, <2>2 DEF Steady
<1>3. CASE link # "up"
  BY <1>1, <1>3 DEF Steady
<1>4. QED
  BY <1>2, <1>3

(* The calls of the client that are not about a packet.                    *)
LEMMA CallSteady ==
    ASSUME Inv2,
           \/ Commit \/ Rollback \/ Start \/ Ping \/ GetConnection
           \/ \E k \in Cursors : CursorCall(k)
    PROVE  Steady'
<1>0. Idle
  BY DEF Commit, Rollback, Start, Ping, GetConnection, CursorCall, NewCursor, CloseCursor,
         FetchOne, FetchAll, Execute
<1>1. ASSUME NEW op, RefuseUnread(op) PROVE Steady'
  BY <1>0, <1>1, RefusedSteady DEF RefuseUnread, Inv2, Idle, server, flags
<1>2. /\ "end" \in KindsOf("commit") /\ "start" \in KindsOf("start")
      /\ "ping" \in KindsOf("ping") /\ "ping" \in KindsOf("get") /\ "ping" \in KindsOf("cursor")
      /\ \A kind \in {"select", "selectone", "write"} : kind \in KindsOf("execute")
  BY DEF KindsOf, Kinds
<1>3. /\ {"commit", "start", "ping", "get", "cursor", "execute"} \subseteq Ops \ {"none"}
      /\ None \in Cursors \cup {None}
  BY DEF Ops
<1>4. CASE Commit
  <2>1. CASE Send("commit", None, "end") /\ UNCHANGED flags
    BY <1>0, <1>2, <1>3, <2>1, SendKeepsStep
  <2>2. QED
    BY <1>1, <1>4, <2>1 DEF Commit
<1>5. CASE Start
  <2>1. CASE Send("start", None, "start") /\ UNCHANGED flags /\ ~inTrans
    BY <1>0, <1>2, <1>3, <2>1, SendKeepsStep
  <2>2. CASE /\ Finish("start", "in progress")
             /\ UNCHANGED <<link, server, commands, flags, cursors>>
    BY <1>0, <2>2, RefusedSteady DEF Inv2, Idle, server, flags
  <2>3. QED
    BY <1>1, <1>5, <2>1, <2>2 DEF Start
<1>6. CASE Rollback
  <2>1. link' = link
    BY <1>6 DEF Rollback, Send, Transmit
  <2>2. CASE link = "up"
    <3>1. Inv1 /\ Resting
      BY <1>0, <2>2 DEF Inv2, Steady, Idle
    <3>2. pending' # NoCall /\ pending'.op = "rollback" /\ Waiting("end")'
      BY <1>6, <2>2, <3>1, RollbackSteady
    <3>3. "end" \in KindsOf("rollback")
      BY DEF KindsOf, Kinds
    <3>4. QED
      BY <3>2, <3>3 DEF Steady
  <2>3. QED
    BY <2>1, <2>2 DEF Steady
<1>7. CASE Ping \/ GetConnection
  <2>1. CASE Reopen \/ Reconnect("ping")
    BY <2>1, RenewedSteady
  <2>2. CASE Send("ping", None, "ping") /\ UNCHANGED flags
    BY <1>0, <1>2, <1>3, <2>2, SendKeepsStep
  <2>3. CASE Send("get", None, "ping") /\ UNCHANGED flags
    BY <1>0, <1>2, <1>3, <2>3, SendKeepsStep
  <2>4. QED
    BY <1>7, <2>1, <2>2, <2>3 DEF Ping, GetConnection
<1>8. ASSUME NEW k \in Cursors, CursorCall(k) PROVE Steady'
  <2>0. k \in Cursors \cup {None}
    OBVIOUS
  <2>1. CASE NewCursor(k)
    <3>1. CASE Send("cursor", k, "ping") /\ UNCHANGED flags
      BY <1>0, <1>2, <1>3, <2>0, <3>1, SendKeepsStep
    <3>2. QED
      BY <1>1, <2>1, <3>1 DEF NewCursor
  <2>2. CASE CloseCursor(k)
    <3>1. CASE Finish("close", "none") /\ UNCHANGED <<link, server, commands, flags>>
      BY <1>0, <3>1, RefusedSteady DEF Inv2, Idle, server, flags
    <3>2. QED
      BY <1>1, <2>2, <3>1 DEF CloseCursor
  <2>3. ASSUME NEW kind \in {"select", "selectone", "write"}, Execute(k, kind) PROVE Steady'
    <3>1. CASE Send("execute", k, kind) /\ UNCHANGED flags
      <4>1. kind \in KindsOf("execute") /\ kind # "start"
        BY <1>2
      <4>2. QED
        BY <1>0, <1>3, <2>0, <3>1, <4>1, SendKeepsStep
    <3>2. QED
      BY <1>1, <2>3, <3>1 DEF Execute
  <2>4. CASE FetchOne(k) \/ FetchAll(k)
    <3>1. link' = link
      BY <2>4 DEF FetchOne, FetchAll
    <3>2. CASE link = "up"
      <4>1. Inv1 /\ Resting
        BY <1>0, <3>2 DEF Inv2, Steady, Idle
      <4>2. Resting' /\ pending' = NoCall
        BY <2>4, <3>2, <4>1, FetchSteady
      <4>3. QED
        BY <4>2 DEF Steady
    <3>3. QED
      BY <3>1, <3>2 DEF Steady
  <2>5. QED
    BY <1>8, <2>1, <2>2, <2>3, <2>4 DEF CursorCall
<1>9. QED
  BY <1>4, <1>5, <1>6, <1>7, <1>8

(* Every step keeps the connection in step with the server.                *)
LEMMA StepSteady ==
    ASSUME Inv2, [Next]_vars
    PROVE  Steady'
<1>1. CASE UNCHANGED vars
  BY <1>1 DEF vars, server, flags, Inv2, Steady, Resting, Noticed, Waiting, Asked, Answered,
              AnsweredOk, AnsweredErr, AnsweredRows
<1>2. CASE \/ Commit \/ Rollback \/ Start \/ Ping \/ GetConnection
           \/ \E k \in Cursors : CursorCall(k)
  BY <1>2, CallSteady
<1>3. CASE Receive
  <2>1. pending # NoCall
    BY <1>3 DEF Receive
  <2>2. CASE link = "up"
    <3>1. PICK kind \in KindsOf(pending.op) : Waiting(kind)
      BY <2>1, <2>2 DEF Inv2, Steady
    <3>2. /\ UNCHANGED <<link, requests, trans, commands>>
          /\ requests' = <<>> /\ pending' = NoCall
          /\ GotOk(kind) \/ GotErr(kind) \/ GotRows(kind)
      BY <1>3, <3>1, ReceiveSteady DEF Inv2
    <3>3. Resting'
      <4>1. CASE GotOk(kind)
        BY <3>2, <4>1 DEF Resting, Noticed, GotOk
      <4>2. CASE GotErr(kind)
        BY <3>2, <4>2 DEF Resting, Noticed, GotErr
      <4>3. CASE GotRows(kind)
        BY <3>2, <4>3 DEF Resting, Noticed, GotRows
      <4>4. QED
        BY <3>2, <4>1, <4>2, <4>3
    <3>4. QED
      BY <3>2, <3>3 DEF Steady
  <2>3. CASE link # "up"
    <3>1. CASE Reopen \/ Reconnect("ping")
      BY <3>1, RenewedSteady
    <3>2. CASE link' = link
      BY <2>3, <3>2 DEF Steady
    <3>3. QED
      BY <1>3, <3>1, <3>2 DEF Receive, Failed
  <2>4. QED
    BY <2>2, <2>3
<1>4. CASE Lost \/ TimeOut
  <2>1. CASE Reopen \/ Reconnect("ping")
    BY <2>1, RenewedSteady
  <2>2. CASE link' # "up"
    BY <2>2 DEF Steady
  <2>3. QED
    BY <1>4, <2>1, <2>2 DEF Lost, TimeOut, Failed
<1>5. CASE Answer
  <2>1. UNCHANGED <<link, pending>> /\ requests # <<>>
    BY <1>5 DEF Answer
  <2>2. CASE link = "up"
    <3>1. pending # NoCall
      BY <2>1, <2>2 DEF Inv2, Steady, Resting
    <3>2. PICK kind \in KindsOf(pending.op) : Waiting(kind)
      BY <2>2, <3>1 DEF Inv2, Steady
    <3>3. Waiting(kind)'
      BY <1>5, <3>2, AnswerSteady DEF Inv2, KindsOf
    <3>4. QED
      BY <2>1, <3>1, <3>2, <3>3 DEF Steady
  <2>3. QED
    BY <2>1, <2>2 DEF Steady
<1>6. CASE Break
  BY <1>6 DEF Break, Steady
<1>7. CASE RowsTimeOut
  BY <1>7, RowsTimeOutTypes DEF Inv2, Steady
<1>8. QED
  BY <1>1, <1>2, <1>3, <1>4, <1>5, <1>6, <1>7 DEF Next, Client

(* The connection starts in step.                                          *)
LEMMA InvariantTwo == Spec => []Inv2
<1>1. Init => Inv2
  BY InitTypes DEF Inv2, Init, Steady, Resting, Noticed
<1>2. Inv2 /\ [Next]_vars => Inv2'
  BY StepTypes, StepSteady DEF Inv2
<1>3. QED
  BY <1>1, <1>2, PTL DEF Spec

(* Unless a method gave up on its answer, the connection is in step with   *)
(* the server: what is on its way is for the pending method, and between   *)
(* two methods packets wait only while unread_result is TRUE.              *)
THEOREM StaysInStep == Spec => []InStep
<1>1. Inv2 => InStep
  <2> SUFFICES ASSUME Inv2, link = "up" PROVE InStep
    BY DEF InStep
  <2>1. CASE pending = NoCall
    BY <2>1 DEF Inv2, Steady, Resting, InStep
  <2>2. CASE pending # NoCall
    <3>1. PICK kind \in KindsOf(pending.op) : Waiting(kind)
      BY <2>2 DEF Inv2, Steady
    <3>2. \A i \in DOMAIN wire : wire[i].id = pending.id
      <4>1. wire \in Seq(Packets)
        BY DEF Inv2, Inv1, Types
      <4>2. QED
        BY <3>1, <4>1 DEF Waiting, Asked, Answered
    <3>3. \A i \in DOMAIN requests : requests[i].id = pending.id
      BY <3>1 DEF Waiting, Asked, Answered
    <3>4. QED
      BY <2>2, <3>1, <3>2, <3>3 DEF InStep, Waiting
  <2>3. QED
    BY <2>1, <2>2
<1>2. QED
  BY <1>1, InvariantTwo, PTL

(* A START TRANSACTION on its way meets no rows that it would commit half  *)
(* way, unless a method gave up on its answer.                             *)
THEOREM StartsCommitNothing == Spec => []StartPublishesNothing
<1>1. Inv2 => StartPublishesNothing
  <2> SUFFICES ASSUME Inv2, link = "up", NEW i \in DOMAIN requests, requests[i].kind = "start"
               PROVE  trans # "dirty"
    BY DEF StartPublishesNothing
  <2>1. pending # NoCall
    BY DEF Inv2, Steady, Resting
  <2>2. PICK kind \in KindsOf(pending.op) : Waiting(kind)
    BY <2>1 DEF Inv2, Steady
  <2>3. Asked(kind)
    BY <2>2 DEF Waiting, Answered
  <2>4. kind = "start"
    BY <2>3 DEF Asked
  <2>5. QED
    BY <2>3, <2>4 DEF Asked, Noticed
<1>2. QED
  BY <1>1, InvariantTwo, PTL

(***************************************************************************)
(* No row of a result is lost or repeated.                                 *)
(***************************************************************************)
Row(id, i) == Packet(id, "row", i, TRUE)

(* got holds the first rows of result id, and a the others and the EOF.    *)
Sorted(got, a, id) ==
    /\ \A i \in 1..Len(got) : got[i] = Row(id, i)
    /\ \A i \in 1..Len(a) - 1 : a[i] = Row(id, Len(got) + i)
    /\ a[Len(a)].i = Len(got) + Len(a) - 1

(* All rows of its result have come to cursor k, or will from w.           *)
Complete(k, w) == Sorted(cursors[k].got, cursors[k].ahead \o w, cursors[k].command)

Alone(k) == \A other \in Cursors \ {k} : cursors[other].command = 0

Ordered ==
    link = "up" =>
       /\ pending = NoCall /\ wire # <<>> =>
            \A k \in Cursors :
               wire[Len(wire)].id = cursors[k].command /\ Alone(k) => Complete(k, wire)
       /\ pending.op = "execute" =>
            /\ cursors[pending.cursor] = [Fresh EXCEPT !.command = pending.id]
            /\ Len(wire) > 1 => Complete(pending.cursor, Tail(wire))

Inv3 == Inv2 /\ Ordered

-----------------------------------------------------------------------------
(* One row is delivered, and the next read ahead.                          *)
LEMMA SortedNext ==
    ASSUME NEW got \in Seq(Packets), NEW a \in Seq(Packets), NEW id, Sorted(got, a, id),
           Len(a) > 2
    PROVE  Sorted(Append(got, a[1]), <<a[2]>> \o SubSeq(a, 3, Len(a)), id)
<1>1. PICK g, m \in Nat : g = Len(got) /\ g \in Nat /\ m = Len(a) /\ m > 2
  OBVIOUS
<1>2. a[1] \in Packets /\ a[2] \in Packets
  BY <1>1
<1>3. PICK new : new = Append(got, a[1])
  OBVIOUS
<1>4. /\ new \in Seq(Packets) /\ Len(new) = g + 1
      /\ \A i \in 1..g : new[i] = got[i]
      /\ new[g + 1] = a[1]
  BY <1>1, <1>2, <1>3
<1>5. PICK r : r = SubSeq(a, 3, Len(a))
  OBVIOUS
<1>6. r \in Seq(Packets) /\ Len(r) = m - 2 /\ \A i \in 1..m - 2 : r[i] = a[2 + i]
  <2>1. 2 \in 0..Len(a) /\ 2 + 1 = 3
    BY <1>1
  <2>2. SubSeq(a, 2 + 1, Len(a)) = r
    BY <1>5, <2>1
  <2>3. /\ SubSeq(a, 2 + 1, Len(a)) \in Seq(Packets)
        /\ Len(SubSeq(a, 2 + 1, Len(a))) = Len(a) - 2
        /\ \A i \in 1..Len(a) - 2 : SubSeq(a, 2 + 1, Len(a))[i] = a[2 + i]
    BY <2>1, TheRest
  <2>4. QED
    BY <1>1, <2>2, <2>3
<1>7. PICK b : b = <<a[2]>> \o r
  OBVIOUS
<1>8. /\ b \in Seq(Packets) /\ Len(b) = m - 1
      /\ \A i \in 1..m - 1 : b[i] = a[i + 1]
  <2>1. PICK p \in Packets : p = a[2]
    BY <1>2
  <2>2. <<p>> \in Seq(Packets) /\ Len(<<p>>) = 1 /\ <<p>>[1] = p
    OBVIOUS
  <2>3. /\ b \in Seq(Packets) /\ Len(b) = 1 + Len(r) /\ b[1] = p
        /\ \A i \in 1..Len(r) : b[1 + i] = r[i]
    BY <1>6, <1>7, <2>1, <2>2, Joined
  <2>4. ASSUME NEW i \in 1..m - 1 PROVE b[i] = a[i + 1]
    <3>1. CASE i = 1
      BY <2>1, <2>3, <3>1
    <3>2. CASE i # 1
      <4>1. i - 1 \in 1..m - 2 /\ 1 + (i - 1) = i /\ 2 + (i - 1) = i + 1
        BY <1>1, <3>2
      <4>2. b[1 + (i - 1)] = r[i - 1] /\ r[i - 1] = a[2 + (i - 1)]
        BY <1>6, <2>3, <4>1
      <4>3. QED
        BY <4>1, <4>2
    <3>3. QED
      BY <3>1, <3>2
  <2>5. Len(b) = m - 1
    BY <1>1, <1>6, <2>3
  <2>6. QED
    BY <2>3, <2>4, <2>5
<1>9. /\ \A i \in 1..g : got[i] = Row(id, i)
      /\ \A i \in 1..m - 1 : a[i] = Row(id, g + i)
      /\ a[m].i = g + m - 1
  BY <1>1 DEF Sorted
<1>10. \A i \in 1..g + 1 : new[i] = Row(id, i)
  <2>1. new[g + 1] = Row(id, g + 1)
    <3>1. 1 \in 1..m - 1
      BY <1>1
    <3>2. QED
      BY <1>4, <1>9, <3>1
  <2>2. ASSUME NEW i \in 1..g + 1 PROVE new[i] = Row(id, i)
    <3>1. i \in 1..g \/ i = g + 1
      BY <1>1
    <3>2. QED
      BY <1>4, <1>9, <2>1, <3>1
  <2>3. QED
    BY <2>2
<1>11. \A i \in 1..(m - 1) - 1 : b[i] = Row(id, (g + 1) + i)
  <2>1. ASSUME NEW i \in 1..(m - 1) - 1 PROVE b[i] = Row(id, (g + 1) + i)
    <3>1. i \in 1..m - 1 /\ i + 1 \in 1..m - 1 /\ g + (i + 1) = (g + 1) + i
      BY <1>1
    <3>2. b[i] = a[i + 1] /\ a[i + 1] = Row(id, g + (i + 1))
      BY <1>8, <1>9, <3>1
    <3>3. QED
      BY <3>1, <3>2
  <2>2. QED
    BY <2>1
<1>12. b[m - 1].i = (g + 1) + (m - 1) - 1
  <2>1. m - 1 \in 1..m - 1 /\ (m - 1) + 1 = m /\ (g + 1) + (m - 1) - 1 = g + m - 1
    BY <1>1
  <2>2. b[m - 1] = a[m]
    BY <1>8, <2>1
  <2>3. QED
    BY <1>9, <2>1, <2>2
<1>13. Sorted(new, b, id)
  BY <1>4, <1>8, <1>10, <1>11, <1>12 DEF Sorted
<1>14. QED
  BY <1>3, <1>5, <1>7, <1>13

(* new is got and all of a but the last.                                   *)
Extends(new, got, a) ==
    /\ Len(a) >= 1 /\ Len(new) = Len(got) + Len(a) - 1
    /\ \A i \in 1..Len(got) : new[i] = got[i]
    /\ \A i \in 1..Len(a) - 1 : new[Len(got) + i] = a[i]

(* new holds the first n rows of result id.                                *)
AllRows(new, n, id) == new = [i \in 1..n |-> Row(id, i)]

(* All of what is left but the EOF is delivered.                           *)
LEMMA SortedAll ==
    ASSUME NEW got \in Seq(Packets), NEW a \in Seq(Packets), NEW id, Sorted(got, a, id),
           NEW new \in Seq(Packets), Extends(new, got, a)
    PROVE  AllRows(new, a[Len(a)].i, id)
<1>1. PICK g, m \in Nat : g = Len(got) /\ g \in Nat /\ m = Len(a) /\ m >= 1
  BY DEF Extends
<1>2. /\ \A i \in 1..g : got[i] = Row(id, i)
      /\ \A i \in 1..m - 1 : a[i] = Row(id, g + i)
      /\ a[m].i = g + m - 1 /\ Len(new) = g + m - 1
      /\ \A i \in 1..g : new[i] = got[i]
      /\ \A i \in 1..m - 1 : new[g + i] = a[i]
  BY <1>1 DEF Sorted, Extends
<1>3. ASSUME NEW i \in 1..g + m - 1 PROVE new[i] = Row(id, i)
  <2>1. CASE i \in 1..g
    BY <1>2, <2>1
  <2>2. CASE i \notin 1..g
    <3>1. i - g \in 1..m - 1 /\ g + (i - g) = i
      BY <1>1, <2>2
    <3>2. new[g + (i - g)] = a[i - g] /\ a[i - g] = Row(id, g + (i - g))
      BY <1>2, <3>1
    <3>3. QED
      BY <3>1, <3>2
  <2>3. QED
    BY <2>1, <2>2
<1>4. new = [i \in 1..Len(new) |-> new[i]]
  OBVIOUS
<1>5. PICK n : n = Len(new) /\ n = a[Len(a)].i /\ n = g + m - 1
  BY <1>1, <1>2
<1>6. new = [i \in 1..n |-> new[i]] /\ \A i \in 1..n : new[i] = Row(id, i)
  BY <1>3, <1>4, <1>5
<1>7. [i \in 1..n |-> new[i]] = [i \in 1..n |-> Row(id, i)]
  BY <1>6
<1>8. QED
  BY <1>5, <1>6, <1>7 DEF AllRows

(* A fetch delivers to its own cursor, of the same result.                 *)
LEMMA FetchCommands ==
    ASSUME Inv1, NEW k \in Cursors, FetchOne(k) \/ FetchAll(k)
    PROVE  /\ \A c \in Cursors : cursors'[c].command = cursors[c].command
           /\ cursors[k].command = 0 => UNCHANGED <<wire, flags, cursors>>
<1>1. ASSUME NEW got, NEW ahead,
             cursors' = [cursors EXCEPT ![k].got = got, ![k].ahead = ahead], NEW c \in Cursors
      PROVE  cursors'[c].command = cursors[c].command
  <2>1. PICK new : new = [cursors[k] EXCEPT !.got = got, !.ahead = ahead]
    OBVIOUS
  <2>2. new.command = cursors[k].command
    BY <2>1 DEF Inv1, Types, Cursor
  <2>3. cursors' = [cursors EXCEPT ![k] = new]
    BY <1>1, <2>1 DEF Inv1, Types
  <2>4. QED
    BY <2>2, <2>3 DEF Inv1, Types
<1>2. ASSUME FetchReads(k)
      PROVE  \A c \in Cursors : cursors'[c].command = cursors[c].command
  <2>1. cursors' = cursors \/ \E row, ahead : cursors' = Delivered(k, row, ahead)
    BY <1>2, FetchReadsCases DEF LastRow, TwoRows, RowAndEnd, FetchLost
  <2>2. ASSUME NEW row, NEW ahead, cursors' = Delivered(k, row, ahead)
        PROVE  \A c \in Cursors : cursors'[c].command = cursors[c].command
    <3>1. PICK got : got = Append(cursors[k].got, row)
      OBVIOUS
    <3>2. cursors' = [cursors EXCEPT ![k].got = got, ![k].ahead = ahead]
      BY <2>2, <3>1 DEF Delivered
    <3>3. QED
      BY <1>1, <3>2
  <2>3. QED
    BY <2>1, <2>2
<1>3. ASSUME FetchReadsAll(k)
      PROVE  \A c \in Cursors : cursors'[c].command = cursors[c].command
  <2>1. PICK got : got = cursors[k].got \o cursors[k].ahead \o SubSeq(wire, 1, EofAt - 1)
    OBVIOUS
  <2>2. cursors' = [cursors EXCEPT ![k].got = got, ![k].ahead = <<>>]
    BY <1>3, <2>1 DEF FetchReadsAll
  <2>3. QED
    BY <1>1, <2>2, Zenon
<1>4. ASSUME cursors' = cursors
      PROVE  \A c \in Cursors : cursors'[c].command = cursors[c].command
  BY <1>4
<1>5. \A c \in Cursors : cursors'[c].command = cursors[c].command
  BY <1>2, <1>3, <1>4 DEF FetchOne, FetchAll, FetchLost
<1>6. QED
  BY <1>5 DEF FetchOne, FetchAll

(* The end of a result stays the same until it is read.                    *)
LEMMA FetchEnd ==
    ASSUME Inv1, Resting, link = "up", NEW k \in Cursors, FetchOne(k) \/ FetchAll(k), unread,
           cursors[k].command # 0
    PROVE  /\ RowsLeft(wire) /\ wire # <<>>
           /\ FetchReads(k) \/ FetchReadsAll(k)
           /\ wire' # <<>> => wire'[Len(wire')] = wire[Len(wire)]
<1>1. FetchReads(k) \/ FetchReadsAll(k)
  BY DEF FetchOne, FetchAll, FetchLost
<1>2. RowsLeft(wire)
  BY <1>1, FetchOneSteady, FetchAllSteady
<1>3. wire # <<>>
  BY <1>2 DEF RowsLeft
<1>4. ASSUME wire' # <<>> PROVE wire'[Len(wire')] = wire[Len(wire)]
  <2>1. FetchedRow(k)
    BY <1>1, <1>4, FetchOneSteady, FetchAllSteady DEF FetchedEnd, FetchedLast, FetchedAll
  <2>2. PICK a : a = Avail(k)
    OBVIOUS
  <2>3. a \in Seq(Packets) /\ Len(a) \in Nat
    BY <2>2, AvailPackets
  <2>4. Len(a) > 2 /\ wire' = SubSeq(a, 2 + 1, Len(a))
    BY <2>1, <2>2 DEF FetchedRow
  <2>5. PICK r : r = SubSeq(a, 2 + 1, Len(a))
    OBVIOUS
  <2>6. 2 \in 0..Len(a)
    BY <2>3, <2>4
  <2>7. Len(r) = Len(a) - 2 /\ \A i \in 1..Len(a) - 2 : r[i] = a[2 + i]
    BY <2>3, <2>5, <2>6, TheRest
  <2>8. Len(a) - 2 \in 1..Len(a) - 2 /\ 2 + (Len(a) - 2) = Len(a)
    BY <2>3, <2>4
  <2>9. r[Len(r)] = a[Len(a)]
    BY <2>7, <2>8
  <2>10. a[Len(a)] = wire[Len(wire)]
    BY <1>2, <2>2, AvailRows
  <2>11. QED
    BY <2>4, <2>5, <2>9, <2>10
<1>5. QED
  BY <1>1, <1>2, <1>3, <1>4

(* fetchone() and fetchall() of a complete result leave it complete, or    *)
(* have delivered all of it.                                               *)
LEMMA FetchOrdered ==
    ASSUME Inv1, Resting, link = "up", NEW k \in Cursors, FetchOne(k) \/ FetchAll(k), unread,
           cursors[k].command # 0, Complete(k, wire)
    PROVE  \/ /\ unread' /\ RowsLeft(wire') /\ wire'[Len(wire')] = wire[Len(wire)]
              /\ Complete(k, wire)'
           \/ /\ ~unread' /\ wire' = <<>>
              /\ AllRows(cursors'[k].got, wire[EofAt].i, cursors[k].command)
<1>1. PICK a, h, got, id : /\ a = Avail(k) /\ h = cursors[k].ahead
                           /\ got = cursors[k].got /\ id = cursors[k].command
  OBVIOUS
<1>2. /\ a \in Seq(Packets) /\ Len(a) \in Nat /\ Len(a) = Len(h) + Len(wire)
      /\ h \in Seq(Packets) /\ wire \in Seq(Packets) /\ got \in Seq(Packets)
      /\ Len(h) \in Nat /\ Len(wire) \in Nat /\ Len(got) \in Nat
      /\ \A i \in 1..Len(h) : a[i] = h[i]
      /\ \A i \in 1..Len(wire) : a[Len(h) + i] = wire[i]
  <2>1. wire \in Seq(Packets) /\ Len(wire) \in Nat
    BY DEF Inv1, Types
  <2>2. /\ a \in Seq(Packets) /\ Len(a) \in Nat /\ Len(a) = Len(h) + Len(wire)
        /\ h \in Seq(Packets) /\ got \in Seq(Packets)
        /\ \A i \in 1..Len(h) : a[i] = h[i]
        /\ \A i \in 1..Len(wire) : a[Len(h) + i] = wire[i]
    BY <1>1, AvailPackets
  <2>3. QED
    BY <2>1, <2>2
<1>3. Sorted(got, a, id)
  BY <1>1 DEF Complete, Avail
<1>4. cursors'[k].command = id
  BY <1>1, FetchCommands
<1>5. ASSUME NEW g, NEW ahead, cursors' = [cursors EXCEPT ![k].got = g, ![k].ahead = ahead]
      PROVE  cursors'[k].got = g /\ cursors'[k].ahead = ahead
  <2>1. PICK new : new = [cursors[k] EXCEPT !.got = g, !.ahead = ahead]
    OBVIOUS
  <2>2. new.got = g /\ new.ahead = ahead
    BY <2>1 DEF Inv1, Types, Cursor
  <2>3. cursors' = [cursors EXCEPT ![k] = new]
    BY <1>5, <2>1 DEF Inv1, Types
  <2>4. QED
    BY <2>2, <2>3 DEF Inv1, Types
<1>6. ASSUME RowsLeft(wire)
      PROVE  /\ EofAt = Len(wire) /\ Len(wire) >= 1 /\ wire[EofAt] = a[Len(a)] /\ Len(a) >= 1
  <2>1. EofAt = Len(wire) /\ Len(wire) >= 1
    BY <1>2, <1>6, EofIsLast DEF RowsLeft
  <2>2. Avail(k)[Len(Avail(k))] = wire[Len(wire)]
    BY <1>6, AvailRows
  <2>3. Len(a) >= 1
    BY <1>2, <2>1
  <2>4. QED
    BY <1>1, <2>1, <2>2, <2>3
<1>7. CASE FetchReads(k)
  <2>1. /\ RowsLeft(wire)
        /\ FetchedEnd(k) \/ FetchedRow(k) \/ FetchedLast(k)
    BY <1>7, FetchOneSteady
  <2>2. CASE FetchedEnd(k)
    <3>1. h = <<>> /\ Len(wire) = 1 /\ wire' = <<>> /\ unread' = FALSE /\ cursors' = cursors
      BY <1>1, <2>2 DEF FetchedEnd
    <3>2. RowsLeft(wire)
      BY <1>7, FetchOneSteady
    <3>3. Len(a) = 1
      BY <1>2, <3>1
    <3>4. AllRows(got, a[Len(a)].i, id)
      <4>1. Len(got) = Len(got) + Len(a) - 1 /\ \A i \in 1..Len(a) - 1 : got[Len(got) + i] = a[i]
        <5>1. Len(got) = (Len(got) + 1) - 1
          BY <1>2
        <5>2. \A i \in 1..1 - 1 : FALSE
          OBVIOUS
        <5>3. QED
          BY <3>3, <5>1, <5>2
      <4>2. Len(a) >= 1 /\ \A i \in 1..Len(got) : got[i] = got[i]
        BY <3>3
      <4>3. Extends(got, got, a)
        BY <4>1, <4>2, Zenon DEF Extends
      <4>4. got \in Seq(Packets) /\ a \in Seq(Packets)
        BY <1>2
      <4>5. QED
        BY <1>3, <4>3, <4>4, SortedAll
    <3>5. QED
      BY <1>1, <1>6, <3>1, <3>2, <3>4
  <2>3. CASE FetchedRow(k)
    <3>1. /\ Len(a) > 2 /\ wire' = SubSeq(a, 3, Len(a)) /\ RowsLeft(wire') /\ unread' = unread
          /\ cursors' = Delivered(k, a[1], <<a[2]>>)
      BY <1>1, <2>3 DEF FetchedRow
    <3>2. cursors'[k].got = Append(got, a[1]) /\ cursors'[k].ahead = <<a[2]>>
      <4>1. PICK g, s : g = Append(got, a[1]) /\ s = <<a[2]>>
        OBVIOUS
      <4>2. cursors' = [cursors EXCEPT ![k].got = g, ![k].ahead = s]
        BY <1>1, <3>1, <4>1 DEF Delivered
      <4>3. QED
        BY <1>5, <4>1, <4>2
    <3>3. Complete(k, wire)'
      <4>1. Sorted(Append(got, a[1]), <<a[2]>> \o SubSeq(a, 3, Len(a)), id)
        BY <1>2, <1>3, <3>1, SortedNext
      <4>2. Sorted(cursors'[k].got, cursors'[k].ahead \o wire', cursors'[k].command)
        BY <1>4, <3>1, <3>2, <4>1
      <4>3. QED
        BY <4>2 DEF Complete, Sorted
    <3>4. wire'[Len(wire')] = wire[Len(wire)]
      <4>1. wire' # <<>>
        BY <3>1, SomeLeft
      <4>2. QED
        BY <4>1, FetchEnd
    <3>5. QED
      BY <3>1, <3>3, <3>4
  <2>4. CASE FetchedLast(k)
    <3>1. /\ Len(a) = 2 /\ wire' = <<>> /\ unread' = FALSE
          /\ cursors' = Delivered(k, a[1], <<>>)
      BY <1>1, <2>4 DEF FetchedLast
    <3>2. PICK row \in Packets : row = a[1]
      <4>1. a \in Seq(Packets) /\ 1 \in 1..Len(a)
        BY <1>2, <3>1
      <4>2. a[1] \in Packets
        BY <4>1
      <4>3. QED
        BY <4>2
    <3>3. PICK g : g = Append(got, row)
      OBVIOUS
    <3>4. cursors'[k].got = g
      <4>1. cursors' = [cursors EXCEPT ![k].got = g, ![k].ahead = <<>>]
        BY <1>1, <3>1, <3>2, <3>3 DEF Delivered
      <4>2. QED
        BY <1>5, <4>1
    <3>5. /\ g \in Seq(Packets) /\ Len(g) = Len(got) + 1
          /\ \A i \in 1..Len(got) : g[i] = got[i]
          /\ g[Len(got) + 1] = row
      BY <1>2, <3>3
    <3>6. AllRows(g, a[Len(a)].i, id)
      <4>1. Len(g) = Len(got) + Len(a) - 1
        <5>1. Len(got) \in Nat /\ Len(a) = 2 /\ Len(g) = Len(got) + 1
          BY <1>2, <3>1, <3>5
        <5>2. QED
          BY <5>1
      <4>2. \A i \in 1..Len(a) - 1 : g[Len(got) + i] = a[i]
        <5>1. ASSUME NEW i \in 1..Len(a) - 1 PROVE g[Len(got) + i] = a[i]
          <6>1. i = 1
            BY <3>1
          <6>2. QED
            BY <3>2, <3>5, <6>1
        <5>2. QED
          BY <5>1
      <4>3. Len(a) >= 1
        BY <3>1
      <4>4. /\ got \in Seq(Packets) /\ a \in Seq(Packets) /\ g \in Seq(Packets)
            /\ \A i \in 1..Len(got) : g[i] = got[i]
        BY <1>2, <3>5
      <4>5. Extends(g, got, a)
        BY <4>1, <4>2, <4>3, <4>4, Zenon DEF Extends
      <4>6. QED
        BY <1>3, <4>4, <4>5, SortedAll
    <3>7. RowsLeft(wire)
      BY <1>7, FetchOneSteady
    <3>8. QED
      BY <1>1, <1>6, <3>1, <3>4, <3>6, <3>7
  <2>5. QED
    BY <2>1, <2>2, <2>3, <2>4
<1>8. CASE FetchReadsAll(k)
  <2>1. RowsLeft(wire) /\ FetchedAll(k)
    BY <1>8, FetchAllSteady
  <2>2. EofAt = Len(wire) /\ Len(wire) >= 1 /\ wire[EofAt] = a[Len(a)] /\ Len(a) >= 1
    BY <1>6, <2>1
  <2>3. PICK s : s = SubSeq(wire, 1, EofAt - 1)
    OBVIOUS
  <2>4. s \in Seq(Packets) /\ Len(s) = Len(wire) - 1 /\ \A i \in 1..Len(s) : s[i] = wire[i]
    BY <1>2, <2>2, <2>3
  <2>5. PICK t : t = got \o h
    OBVIOUS
  <2>6. /\ t \in Seq(Packets) /\ Len(t) = Len(got) + Len(h)
        /\ \A i \in 1..Len(got) : t[i] = got[i]
        /\ \A i \in 1..Len(h) : t[Len(got) + i] = h[i]
    BY <1>2, <2>5, Joined
  <2>7. PICK g : g = t \o s
    OBVIOUS
  <2>8. /\ g \in Seq(Packets) /\ Len(g) = Len(t) + Len(s)
        /\ \A i \in 1..Len(t) : g[i] = t[i]
        /\ \A i \in 1..Len(s) : g[Len(t) + i] = s[i]
    <3>1. t \in Seq(Packets) /\ s \in Seq(Packets)
      BY <2>4, <2>6
    <3>2. QED
      BY <2>7, <3>1, Joined
  <2>9. cursors'[k].got = g /\ wire' = <<>> /\ unread' = FALSE
    <3>1. cursors' = [cursors EXCEPT ![k].got = g, ![k].ahead = <<>>]
      BY <1>1, <2>1, <2>3, <2>5, <2>7 DEF FetchedAll
    <3>2. QED
      BY <1>5, <2>1, <3>1 DEF FetchedAll
  <2>10. Len(g) = Len(got) + Len(a) - 1
    BY <1>2, <2>4, <2>6, <2>8
  <2>11. \A i \in 1..Len(got) : g[i] = got[i]
    <3>1. ASSUME NEW i \in 1..Len(got) PROVE g[i] = got[i]
      <4>1. i \in 1..Len(t)
        BY <1>2, <2>6
      <4>2. QED
        BY <2>6, <2>8, <4>1
    <3>2. QED
      BY <3>1
  <2>12. \A i \in 1..Len(a) - 1 : g[Len(got) + i] = a[i]
    <3>1. ASSUME NEW i \in 1..Len(a) - 1 PROVE g[Len(got) + i] = a[i]
      <4>1. CASE i \in 1..Len(h)
        <5>1. Len(got) + i \in 1..Len(t)
          BY <1>2, <2>6, <4>1
        <5>2. QED
          BY <1>2, <2>6, <2>8, <4>1, <5>1
      <4>2. CASE i \notin 1..Len(h)
        <5>1. /\ i - Len(h) \in 1..Len(s) /\ i - Len(h) \in 1..Len(wire)
              /\ Len(t) + (i - Len(h)) = Len(got) + i
              /\ Len(h) + (i - Len(h)) = i
          BY <1>2, <2>4, <2>6, <4>2
        <5>2. PICK j : j = i - Len(h)
          OBVIOUS
        <5>3. g[Len(t) + j] = s[j] /\ s[j] = wire[j] /\ a[Len(h) + j] = wire[j]
          BY <1>2, <2>4, <2>8, <5>1, <5>2
        <5>4. QED
          BY <5>1, <5>2, <5>3
      <4>3. QED
        BY <4>1, <4>2
    <3>2. QED
      BY <3>1
  <2>13. AllRows(g, a[Len(a)].i, id)
    <3>1. got \in Seq(Packets) /\ a \in Seq(Packets) /\ g \in Seq(Packets) /\ Len(a) >= 1
      BY <1>2, <2>2, <2>8
    <3>2. Extends(g, got, a)
      BY <2>10, <2>11, <2>12, <3>1, Zenon DEF Extends
    <3>3. QED
      BY <1>3, <3>1, <3>2, SortedAll
  <2>14. QED
    BY <1>1, <2>2, <2>9, <2>13
<1>9. QED
  BY <1>7, <1>8 DEF FetchOne, FetchAll, FetchLost

(* A sent command: only the cursor that executes it has begun anew.        *)
LEMMA SentOrdered ==
    ASSUME wire' = <<>>, pending' # NoCall,
           pending'.op = "execute" =>
              cursors'[pending'.cursor] = [Fresh EXCEPT !.command = pending'.id]
    PROVE  Ordered'
<1>1. Len(wire') = 0
  BY Zenon, Len(<<>>) = 0
<1>2. ~(Len(wire') > 1)
  BY <1>1
<1>3. QED
  BY <1>2 DEF Ordered

(* The calls of the client that are not about a packet.                    *)
LEMMA CallOrdered ==
    ASSUME Inv3, link = "up", link' = "up",
           \/ Commit \/ Rollback \/ Start \/ Ping \/ GetConnection
           \/ \E k \in Cursors : CursorCall(k)
    PROVE  Ordered'
<1>0. Idle /\ pending = NoCall
  BY DEF Idle, Commit, Rollback, Start, Ping, GetConnection, CursorCall, NewCursor, CloseCursor,
         FetchOne, FetchAll, Execute
<1>1. Inv1 /\ Resting
  BY <1>0 DEF Inv3, Inv2, Steady
<1>2. ASSUME NEW op, NEW error, Finish(op, error), UNCHANGED <<wire, cursors>>
      PROVE  Ordered'
  BY <1>0, <1>2 DEF Inv3, Ordered, Complete, Alone, Finish, NoCall
<1>3. ASSUME NEW op, RefuseUnread(op) PROVE Ordered'
  BY <1>2, <1>3 DEF RefuseUnread, server
<1>4. ASSUME NEW op \in Ops \ {"none"}, NEW k \in Cursors \cup {None}, NEW kind \in Kinds,
             Send(op, k, kind), op # "execute"
      PROVE  Ordered'
  <2>1. wire' = <<>> /\ Transmit(op, k, kind)
    BY <1>1, <1>4 DEF Send, Resting
  <2>2. pending' = [op |-> op, cursor |-> k, id |-> commands']
    BY <2>1 DEF Transmit
  <2>3. pending'.op = op /\ pending' # NoCall
    BY <2>2 DEF NoCall
  <2>4. QED
    BY <1>4, <2>1, <2>3, SentOrdered
<1>5. /\ {"commit", "start", "ping", "get", "cursor"} \subseteq Ops \ {"none"}
      /\ {"end", "start", "ping"} \subseteq Kinds /\ None \in Cursors \cup {None}
  BY DEF Ops, Kinds
<1>6. CASE Commit
  BY <1>3, <1>4, <1>5, <1>6 DEF Commit
<1>7. CASE Start
  BY <1>2, <1>3, <1>4, <1>5, <1>7 DEF Start, server
<1>8. CASE Rollback
  <2>1. pending' # NoCall /\ pending'.op = "rollback" /\ Waiting("end")'
    BY <1>1, <1>8, RollbackSteady
  <2>2. wire' = <<>>
    <3>1. Send("rollback", None, "end") \/ (unread /\ EofAt # 0)
      BY <1>8 DEF Rollback
    <3>2. CASE Send("rollback", None, "end")
      BY <1>1, <3>2 DEF Send, Resting
    <3>3. CASE ~Send("rollback", None, "end")
      <4>1. wire' = SubSeq(wire, EofAt + 1, Len(wire)) /\ EofAt # 0
        BY <1>8, <3>3 DEF Rollback
      <4>2. wire \in Seq(Packets)
        BY <1>1 DEF Inv1, Types
      <4>3. wire # <<>>
        BY <4>1, <4>2, EofPlace
      <4>4. RowsLeft(wire)
        BY <1>1, <4>3 DEF Resting
      <4>5. QED
        BY <4>1, <4>2, <4>4, EofIsLast
    <3>4. QED
      BY <3>2, <3>3
  <2>3. QED
    BY <2>1, <2>2, SentOrdered
<1>9. CASE Ping \/ GetConnection
  <2>1. CASE Reopen \/ Reconnect("ping")
    BY <2>1, RenewedSteady DEF Ordered, NoCall
  <2>2. QED
    BY <1>4, <1>5, <1>9, <2>1 DEF Ping, GetConnection
<1>10. ASSUME NEW k \in Cursors, CursorCall(k) PROVE Ordered'
  <2>0. k \in Cursors \cup {None}
    OBVIOUS
  <2>1. CASE NewCursor(k)
    <3>1. CASE Send("cursor", k, "ping")
      BY <1>4, <1>5, <2>0, <3>1
    <3>2. QED
      BY <1>3, <2>1, <3>1 DEF NewCursor
  <2>2. CASE CloseCursor(k)
    <3>1. CASE ~unread /\ Finish("close", "none") /\ UNCHANGED <<link, server, commands, flags>>
      <4>1. wire' = <<>>
        BY <1>1, <3>1 DEF Resting, server
      <4>2. QED
        BY <3>1, <4>1 DEF Ordered, Finish, NoCall
    <3>2. QED
      BY <1>3, <2>2, <3>1 DEF CloseCursor
  <2>3. ASSUME NEW kind \in {"select", "selectone", "write"}, Execute(k, kind) PROVE Ordered'
    <3>1. CASE /\ Send("execute", k, kind)
               /\ cursors' = [cursors EXCEPT ![k] = [Fresh EXCEPT !.command = commands']]
      <4>1. wire' = <<>> /\ Transmit("execute", k, kind)
        BY <1>1, <3>1 DEF Send, Resting
      <4>2. pending' = [op |-> "execute", cursor |-> k, id |-> commands']
        BY <4>1 DEF Transmit
      <4>3. pending'.cursor = k /\ pending'.id = commands' /\ pending' # NoCall
        BY <4>2 DEF NoCall
      <4>4. cursors'[k] = [Fresh EXCEPT !.command = commands']
        BY <1>1, <3>1 DEF Inv1, Types
      <4>5. QED
        BY <4>1, <4>3, <4>4, SentOrdered
    <3>2. QED
      BY <1>3, <2>3, <3>1 DEF Execute
  <2>4. CASE FetchOne(k) \/ FetchAll(k)
    <3>1. Resting' /\ pending' = NoCall
      BY <1>1, <2>4, FetchSteady
    <3>2. /\ \A c \in Cursors : cursors'[c].command = cursors[c].command
          /\ cursors[k].command = 0 => UNCHANGED <<wire, flags, cursors>>
      BY <1>1, <2>4, FetchCommands
    <3>3. CASE UNCHANGED <<wire, cursors>>
      BY <1>0, <3>1, <3>3 DEF Inv3, Ordered, Complete, Alone, NoCall
    <3>4. CASE cursors[k].command # 0 /\ unread
      <4>1. SUFFICES ASSUME wire' # <<>>, NEW c \in Cursors, Alone(c)',
                            wire'[Len(wire')].id = cursors'[c].command
                     PROVE  Complete(c, wire)'
        BY <3>1 DEF Ordered, NoCall
      <4>2. c = k
        BY <3>2, <3>4, <4>1 DEF Alone
      <4>3. Alone(k)
        BY <3>2, <4>1, <4>2 DEF Alone
      <4>4. wire # <<>> /\ wire'[Len(wire')] = wire[Len(wire)]
        BY <1>1, <2>4, <3>4, <4>1, FetchEnd
      <4>5. Complete(k, wire)
        BY <1>0, <3>2, <4>1, <4>2, <4>3, <4>4 DEF Inv3, Ordered
      <4>6. QED
        BY <1>1, <2>4, <3>4, <4>1, <4>2, <4>5, FetchOrdered
    <3>5. QED
      BY <2>4, <3>2, <3>3, <3>4 DEF FetchOne, FetchAll
  <2>5. QED
    BY <1>10, <2>1, <2>2, <2>3, <2>4 DEF CursorCall
<1>11. QED
  BY <1>6, <1>7, <1>8, <1>9, <1>10

(* A result that arrives is complete from its first row on.                *)
LEMMA ResultSorted ==
    ASSUME NEW id \in 1..MaxCommands, NEW n \in 0..MaxRows
    PROVE  Sorted(<<>>, <<>> \o Tail(Result(id, n)), id)
<1>1. PICK w : w = Result(id, n)
  OBVIOUS
<1>2. n \in Nat
  BY ConnectorAssumption DEF ConnectorAssumption
<1>3. /\ w \in Seq(Packets) /\ Len(w) = n + 2
      /\ \A i \in 1..n : w[i + 1] = Packet(id, "row", i, TRUE)
      /\ w[n + 2] = Packet(id, "eof", n, TRUE)
  BY <1>1, ResultPackets
<1>4. w # <<>>
  BY <1>2, <1>3
<1>5. PICK t : t = Tail(w)
  OBVIOUS
<1>6. t \in Seq(Packets) /\ Len(t) = n + 1 /\ \A i \in 1..n + 1 : t[i] = w[i + 1]
  BY <1>2, <1>3, <1>4, <1>5, FirstOf
<1>7. <<>> \o t = t
  BY <1>6
<1>8. \A i \in 1..n : t[i] = Row(id, i)
  <2>1. ASSUME NEW i \in 1..n PROVE t[i] = Row(id, i)
    <3>1. i \in 1..n + 1
      BY <1>2
    <3>2. QED
      BY <1>3, <1>6, <3>1 DEF Row
  <2>2. QED
    BY <2>1
<1>9. t[n + 1].i = n
  <2>1. n + 1 \in 1..n + 1 /\ (n + 1) + 1 = n + 2
    BY <1>2
  <2>2. t[n + 1] = Packet(id, "eof", n, TRUE)
    BY <1>3, <1>6, <2>1
  <2>3. QED
    BY <2>2 DEF Packet
<1>10. Sorted(<<>>, t, id)
  <2>1. Len(<<>>) = 0
    OBVIOUS
  <2>2. \A i \in 1..Len(<<>>) : <<>>[i] = Row(id, i)
    BY <2>1
  <2>3. \A i \in 1..Len(t) - 1 : t[i] = Row(id, Len(<<>>) + i)
    <3>1. Len(t) - 1 = n /\ \A i \in 1..n : 0 + i = i
      BY <1>2, <1>6
    <3>2. QED
      BY <1>8, <2>1, <3>1
  <2>4. t[Len(t)].i = Len(<<>>) + Len(t) - 1
    <3>1. 0 + (n + 1) - 1 = n
      BY <1>2
    <3>2. QED
      BY <1>6, <1>9, <2>1, <3>1
  <2>5. QED
    BY <2>2, <2>3, <2>4 DEF Sorted
<1>11. QED
  BY <1>1, <1>5, <1>7, <1>10

(* Only a new session brings the link up.                                  *)
LEMMA LinkSteps ==
    ASSUME [Next]_vars
    PROVE  link' = link \/ link' # "up" \/ Reopen \/ Reconnect("ping")
<1>1. \A op : RefuseUnread(op) => link' = link
  BY DEF RefuseUnread
<1>2. \A op, k, kind : Transmit(op, k, kind) => link' = link
  BY DEF Transmit
<1>3. \A op, k, kind : Send(op, k, kind) => link' = link
  BY <1>2 DEF Send
<1>4. CASE UNCHANGED vars
  BY <1>4 DEF vars
<1>5. CASE Commit \/ Rollback
  BY <1>1, <1>2, <1>3, <1>5 DEF Commit, Rollback
<1>6. CASE Start \/ Ping \/ GetConnection
  BY <1>1, <1>3, <1>6 DEF Start, Ping, GetConnection
<1>7. ASSUME NEW k \in Cursors, CursorCall(k) PROVE link' = link
  BY <1>1, <1>3, <1>7 DEF CursorCall, NewCursor, CloseCursor, Execute, FetchOne, FetchAll
<1>8. ASSUME NEW error, NEW rest, Failed(error, rest)
      PROVE  link' = link \/ link' # "up" \/ Reopen \/ Reconnect("ping")
  BY <1>8 DEF Failed
<1>9. CASE Receive \/ Lost \/ TimeOut
  BY <1>8, <1>9 DEF Receive, Lost, TimeOut
<1>10. CASE Answer \/ Break \/ RowsTimeOut
  BY <1>10 DEF Answer, Break, RowsTimeOut, StopReading
<1>11. QED
  BY <1>4, <1>5, <1>6, <1>7, <1>9, <1>10 DEF Next, Client

(* Every step keeps the rows of a result complete and in order.            *)
LEMMA StepOrdered ==
    ASSUME Inv3, [Next]_vars
    PROVE  Ordered'
<1>0. Inv2' /\ Inv1 /\ Steady
  BY StepTypes, StepSteady DEF Inv3, Inv2
<1>1. SUFFICES ASSUME link' = "up" PROVE Ordered'
  BY DEF Ordered
<1>2. CASE UNCHANGED vars
  BY <1>2 DEF vars, server, Inv3, Ordered, Complete, Alone
<1>3. CASE Reopen \/ Reconnect("ping")
  BY <1>3, RenewedSteady DEF Ordered, NoCall
<1>4. CASE link # "up" /\ ~Reopen /\ ~Reconnect("ping")
  BY <1>1, <1>4, LinkSteps
<1>5. CASE /\ link = "up"
           /\ \/ Commit \/ Rollback \/ Start \/ Ping \/ GetConnection
              \/ \E k \in Cursors : CursorCall(k)
  BY <1>1, <1>5, CallOrdered
<1>6. CASE link = "up" /\ Receive
  <2>1. PICK kind \in KindsOf(pending.op) : Waiting(kind)
    BY <1>0, <1>6 DEF Receive, Steady
  <2>2. /\ pending' = NoCall
        /\ GotOk(kind) \/ GotErr(kind) \/ GotRows(kind)
    BY <1>0, <1>6, <2>1, ReceiveSteady
  <2>3. CASE GotOk(kind) \/ GotErr(kind)
    BY <2>2, <2>3 DEF GotOk, GotErr, Ordered, NoCall
  <2>4. CASE GotRows(kind)
    <3>1. /\ wire' = Tail(wire) /\ cursors' = cursors /\ RowsLeft(wire')
          /\ \A i \in 1..Len(wire') : wire'[i].id = pending.id
          /\ pending.op = "execute"
      BY <2>1, <2>4 DEF GotRows, KindsOf
    <3>2. PICK p \in Cursors : /\ p = pending.cursor /\ pending.id # 0
                               /\ cursors[p] = [Fresh EXCEPT !.command = pending.id]
                               /\ Len(wire) > 1 => Complete(p, Tail(wire))
      BY <1>0, <1>6, <3>1 DEF Inv3, Ordered, Inv1, PendingReady, NoCall
    <3>3. Len(wire) > 1
      <4>1. wire # <<>> /\ wire \in Seq(Packets)
        BY <1>0, <1>6 DEF Receive, Inv1, Types
      <4>2. Len(wire) \in Nat /\ Len(Tail(wire)) = Len(wire) - 1
        BY <4>1, FirstOf
      <4>3. Len(Tail(wire)) >= 1
        BY <3>1 DEF RowsLeft
      <4>4. QED
        BY <4>2, <4>3
    <3>4. cursors[p].command = pending.id
      BY <3>2 DEF Fresh, Closed
    <3>5. ASSUME NEW k \in Cursors, wire'[Len(wire')].id = cursors'[k].command, Alone(k)'
          PROVE  Complete(k, wire)'
      <4>1. k = p
        BY <3>1, <3>2, <3>4, <3>5 DEF Alone
      <4>2. QED
        BY <3>1, <3>2, <3>3, <4>1 DEF Complete, Sorted
    <3>6. QED
      BY <2>2, <3>5 DEF Ordered, NoCall
  <2>5. QED
    BY <2>2, <2>3, <2>4
<1>7. CASE link = "up" /\ Answer
  <2>1. requests # <<>>
    BY <1>7 DEF Answer
  <2>2. pending # NoCall
    BY <1>0, <1>7, <2>1 DEF Steady, Resting
  <2>3. PICK kind \in KindsOf(pending.op) : Waiting(kind)
    BY <1>0, <1>7, <2>2 DEF Steady
  <2>4. /\ UNCHANGED <<cursors, pending>>
        /\ Len(wire') = 1 \/ \E n \in 0..MaxRows : wire' = Result(pending.id, n)
    BY <1>0, <1>7, <2>3, AnswerSteady DEF KindsOf
  <2>5. ASSUME pending'.op = "execute"
        PROVE  /\ cursors'[pending'.cursor] = [Fresh EXCEPT !.command = pending'.id]
               /\ Len(wire') > 1 => Complete(pending.cursor, Tail(wire))'
    <3>1. cursors[pending.cursor] = [Fresh EXCEPT !.command = pending.id]
      BY <1>7, <2>4, <2>5 DEF Inv3, Ordered
    <3>2. ASSUME Len(wire') > 1 PROVE Complete(pending.cursor, Tail(wire))'
      <4>1. PICK n \in 0..MaxRows : wire' = Result(pending.id, n)
        <5>1. ~(1 > 1)
          OBVIOUS
        <5>2. QED
          BY <2>4, <3>2, <5>1, Zenon
      <4>2. pending.id \in 1..MaxCommands
        BY <1>0, <2>2 DEF Inv1, Types, PendingReady
      <4>3. Sorted(<<>>, <<>> \o Tail(Result(pending.id, n)), pending.id)
        BY <4>2, ResultSorted
      <4>4. /\ cursors[pending.cursor].got = <<>> /\ cursors[pending.cursor].ahead = <<>>
            /\ cursors[pending.cursor].command = pending.id
        BY <3>1 DEF Fresh, Closed
      <4>5. Sorted(cursors'[pending'.cursor].got,
                   cursors'[pending'.cursor].ahead \o Tail(wire'),
                   cursors'[pending'.cursor].command)
        BY <2>4, <4>1, <4>3, <4>4
      <4>6. QED
        BY <4>5 DEF Complete, Sorted
    <3>3. QED
      BY <2>4, <3>1, <3>2
  <2>6. QED
    BY <2>2, <2>4, <2>5 DEF Ordered, Complete, Sorted
<1>8. CASE link = "up" /\ (Lost \/ TimeOut) /\ ~Reopen /\ ~Reconnect("ping")
  BY <1>1, <1>8 DEF Lost, TimeOut, Failed
<1>9. CASE Break \/ RowsTimeOut
  BY <1>0, <1>1, <1>9, RowsTimeOutTypes DEF Break
<1>10. QED
  BY <1>2, <1>3, <1>4, <1>5, <1>6, <1>7, <1>8, <1>9 DEF Next, Client

(* Of a result no row is lost or repeated.                                 *)
LEMMA InvariantThree == Spec => []Inv3
<1>1. Init => Ordered
  BY DEF Init, Ordered, NoCall
<1>2. Inv3 /\ [Next]_vars => Ordered'
  BY StepOrdered
<1>3. Init /\ Inv2 => Inv3
  BY <1>1 DEF Inv3
<1>4. Inv3 /\ Inv2' /\ [Next]_vars => Inv3'
  BY <1>2 DEF Inv3
<1>5. QED
  BY <1>3, <1>4, InvariantTwo, PTL DEF Spec

(* Only fetchone() and fetchall() read the end of a result while no other  *)
(* method waits.                                                           *)
LEMMA OnlyFetchesEnd ==
    ASSUME Inv2, [Next]_vars, link = "up", last'.op \in {"fetchone", "fetchall"},
           last'.error = "none", pending' = NoCall, unread, ~unread'
    PROVE  \E c \in Cursors : FetchOne(c) \/ FetchAll(c)
<1>1. \A op, k, kind : ~Send(op, k, kind)
  BY DEF Send
<1>2. ASSUME NEW op, NEW error, Finish(op, error), op \notin {"fetchone", "fetchall"}
      PROVE  FALSE
  BY <1>2 DEF Finish
<1>3. CASE UNCHANGED vars \/ Answer \/ Break
  BY <1>3 DEF vars, flags, Answer, Break
<1>4. CASE Reopen \/ Reconnect("ping")
  BY <1>2, <1>4 DEF Reopen, Reconnect
<1>5. \A op : ~RefuseUnread(op)
  BY DEF RefuseUnread, flags
<1>6. CASE Commit \/ Start \/ Ping \/ GetConnection
  BY <1>1, <1>2, <1>4, <1>5, <1>6 DEF Commit, Start, Ping, GetConnection
<1>7. CASE Rollback
  <2>1. Inv1 /\ Resting
    BY <1>7 DEF Inv2, Steady, Rollback, Idle
  <2>2. pending' # NoCall
    BY <1>7, <2>1, RollbackSteady
  <2>3. QED
    BY <2>2
<1>8. CASE Receive \/ Lost \/ TimeOut
  <2>1. pending # NoCall
    BY <1>8 DEF Receive, Lost, TimeOut
  <2>2. \E kind \in KindsOf(pending.op) : Waiting(kind)
    BY <2>1 DEF Inv2, Steady
  <2>3. QED
    BY <2>2 DEF Waiting
<1>9. ASSUME NEW k \in Cursors, CursorCall(k) PROVE FetchOne(k) \/ FetchAll(k)
  BY <1>1, <1>2, <1>5, <1>9 DEF CursorCall, NewCursor, CloseCursor, Execute
<1>10. CASE RowsTimeOut
  BY <1>10, RowsTimeOutTypes DEF Inv2
<1>11. QED
  BY <1>3, <1>6, <1>7, <1>8, <1>9, <1>10 DEF Next, Client

(* fetchone() and fetchall() that come to the end of a result have         *)
(* delivered all of it, in order: with the row read ahead, none is lost or *)
(* repeated, unless another cursor that has executed a statement shares    *)
(* the connection or a method gave up on its answer.                       *)
THEOREM FetchesHold == Spec => FetchesAllRows
<1> DEFINE Fetched(k) ==
              (/\ link = "up"
               /\ last'.op \in {"fetchone", "fetchall"} /\ last'.error = "none"
               /\ pending' = NoCall /\ unread /\ ~unread'
               /\ cursors[k].command = wire[EofAt].id
               /\ \A other \in Cursors \ {k} : cursors[other].command = 0)
              => cursors'[k].got = [i \in 1..wire[EofAt].i |->
                                      Packet(cursors[k].command, "row", i, TRUE)]
<1>1. ASSUME Inv3, [Next]_vars, NEW k \in Cursors PROVE Fetched(k)
  <2> SUFFICES ASSUME link = "up", last'.op \in {"fetchone", "fetchall"},
                      last'.error = "none", pending' = NoCall, unread, ~unread',
                      cursors[k].command = wire[EofAt].id, Alone(k)
               PROVE  cursors'[k].got = [i \in 1..wire[EofAt].i |->
                                           Packet(cursors[k].command, "row", i, TRUE)]
    BY DEF Alone
  <2>1. PICK c \in Cursors : FetchOne(c) \/ FetchAll(c)
    BY <1>1, OnlyFetchesEnd DEF Inv3
  <2>2. Inv1 /\ Resting
    BY <1>1, <2>1 DEF Inv3, Inv2, Steady, FetchOne, FetchAll, Idle
  <2>3. cursors[c].command # 0
    <3>1. cursors[c].command = 0 => UNCHANGED flags
      BY <2>1, <2>2, FetchCommands
    <3>2. QED
      BY <3>1 DEF flags
  <2>4. c = k
    BY <2>3 DEF Alone
  <2>5. RowsLeft(wire) /\ wire # <<>>
    BY <2>1, <2>2, <2>3, FetchEnd
  <2>6. wire[Len(wire)].id = cursors[k].command
    BY <2>2, <2>5, EofIsLast DEF Inv1, Types
  <2>7. Complete(k, wire)
    BY <1>1, <2>1, <2>5, <2>6 DEF Inv3, Ordered, FetchOne, FetchAll, Idle
  <2>8. AllRows(cursors'[k].got, wire[EofAt].i, cursors[k].command)
    BY <2>1, <2>2, <2>3, <2>4, <2>7, FetchOrdered
  <2>9. QED
    BY <2>8 DEF AllRows, Row
<1>2. Inv3 /\ [Next]_vars => [\A k \in Cursors : Fetched(k)]_vars
  BY <1>1
<1>3. [][\A k \in Cursors : Fetched(k)]_vars => FetchesAllRows
  BY DEF FetchesAllRows
<1>4. QED
  BY <1>2, <1>3, InvariantThree, PTL DEF Spec

-----------------------------------------------------------------------------
(***************************************************************************)
(* AppSession.  The calls of every method are a path through a small       *)
(* relation, After: what is left of a method can be told from its          *)
(* latest call, without its history.  Over that, AppInv says who will end  *)
(* the transaction that holds rows (Kept), that only a SELECT leaves rows  *)
(* unread and the fetch after it takes them all (Calm), and that a call    *)
(* that waits waits for its own command (Busy).  All of that is about a    *)
(* link that is up; only get_connection() brings a lost one up again.      *)
(***************************************************************************)

(* The calls of a method.                                                  *)
Calls == {"get", "reset", "start", "cursor", "select", "selectone", "fetchone", "fetchall",
          "write", "commit", "rollback", "close"}

(* The calls that follow the call a, in a method with the handler h.       *)
After(h, a) ==
    {b \in Calls :
        \/ a = "none" /\ b = "get"
        \/ a = "get" /\ b \in {"reset", "cursor"}
        \/ a = "reset" /\ b \in {"start", "cursor"}
        \/ a = "start" /\ b = "cursor"
        \/ a = "cursor" /\ b \in {"select", "selectone"}
        \/ a = "select" /\ b = "fetchall"
        \/ a = "selectone" /\ b = "fetchone"
        \/ a = "fetchone" /\ b \in {"select", "selectone", "commit"}
        \/ a = "fetchall" /\ b = "select"
        \/ a = "fetchall" /\ b = "close" /\ h = <<>>
        \/ a \in {"cursor", "fetchone", "fetchall"} /\ b = "write" /\ h # <<>>
        \/ a = "write" /\ b = "commit" /\ h # <<>>
        \/ a = "write" /\ b \in {"write", "select", "selectone"} /\ h = Undo
        \/ a = "commit" /\ b = "close"}

(* The calls s follow the call a, and z is the last of them all.           *)
Path(h, a, s, z) ==
    /\ s \in Seq(Calls)
    /\ \A i \in 1..Len(s) : s[i] \in After(h, IF i = 1 THEN a ELSE s[i - 1])
    /\ z = IF Len(s) = 0 THEN a ELSE s[Len(s)]

(* The connector's method behind a call, and its command.                  *)
OpOf(c) == IF c \in {"reset", "rollback"} THEN "rollback"
           ELSE IF c \in {"select", "selectone", "write"} THEN "execute" ELSE c

KindOf(c) == IF c \in {"get", "cursor"} THEN "ping"
             ELSE IF c \in {"reset", "rollback", "commit"} THEN "end" ELSE c

(* A running method is on its way to close(), or in its handler, and waits *)
(* for nothing but its latest call.                                        *)
Scripted ==
    /\ mode \in {"idle", "try", "handle"} /\ issued \in Calls \cup {"none"}
    /\ handler = Undo \/ handler = Close \/ handler = <<>>
    /\ mode = "idle" => pending = NoCall
    /\ mode = "try" => Path(handler, issued, todo, "close")
    /\ mode = "try" /\ issued = "write" => handler # <<>>
    /\ mode = "handle" =>
          \/ todo = Undo /\ handler = Undo /\ pending = NoCall
          \/ todo = Close /\ (pending # NoCall => issued = "rollback")
          \/ todo = <<>> /\ pending = NoCall
    /\ pending # NoCall => pending.op = OpOf(issued)

(* Rows that are not committed have somebody who will end the transaction. *)
Kept ==
    trans = "dirty" =>
        \/ /\ mode = "try" /\ handler = Undo
           /\ issued \in {"write", "select", "selectone", "fetchone", "fetchall"}
        \/ mode = "try" /\ handler # <<>> /\ issued = "commit" /\ pending # NoCall
        \/ /\ mode = "try" /\ handler = Close /\ issued = "write"
           /\ IF pending = NoCall THEN last.error = "none" ELSE wire # <<>> /\ wire[1].kind = "ok"
        \/ mode = "handle" /\ todo = Undo
        \/ mode = "handle" /\ issued = "rollback" /\ pending # NoCall

(* No call waits: only a SELECT leaves rows behind, and the fetch that     *)
(* comes next takes them all.                                              *)
Calm ==
    /\ unread => /\ mode = "try" /\ issued \in {"select", "selectone"}
                 /\ last.error = "none" /\ cursors[cursor].ahead = <<>>
    /\ unread /\ issued = "selectone" => Len(wire) <= 2
    /\ mode = "try" /\ issued \in {"select", "selectone"} /\ last.error = "none"
          => cursors[cursor].command # 0
    /\ mode = "try" /\ issued = "reset" => ~inTrans

(* A call waits: for its own command.                                      *)
Busy ==
    /\ Waiting(KindOf(issued))
    /\ issued \in {"select", "selectone"} =>
          cursors[cursor].ahead = <<>> /\ cursors[cursor].command # 0

SoundUp ==
    /\ last.error \in {"none", "server"}
    /\ Kept
    /\ IF pending = NoCall THEN Calm ELSE Busy

Sound == link = "up" => SoundUp

AppInv == Inv2 /\ Scripted /\ Sound

-----------------------------------------------------------------------------
(* The shortest paths.                                                     *)
LEMMA PathOne ==
    ASSUME NEW h, NEW a, NEW b \in After(h, a)
    PROVE  Path(h, a, <<b>>, b)
<1>1. b \in Calls
  BY DEF After
<1>2. <<b>> \in Seq(Calls) /\ Len(<<b>>) = 1 /\ <<b>>[1] = b
  BY <1>1
<1>3. QED
  BY <1>2 DEF Path

(* Two calls.                                                              *)
LEMMA PathTwo ==
    ASSUME NEW h, NEW a, NEW b \in After(h, a), NEW c \in After(h, b)
    PROVE  Path(h, a, <<b, c>>, c)
<1>1. b \in Calls /\ c \in Calls
  BY DEF After
<1>2. PICK s : s = <<b, c>>
  OBVIOUS
<1>3. s \in Seq(Calls) /\ Len(s) = 2 /\ s[1] = b /\ s[2] = c
  BY <1>1, <1>2
<1>4. \A i \in 1..Len(s) : s[i] \in After(h, IF i = 1 THEN a ELSE s[i - 1])
  <2>1. \A i \in 1..Len(s) : i = 1 \/ (i = 2 /\ i - 1 = 1)
    BY <1>3
  <2>2. QED
    BY <1>3, <2>1
<1>5. QED
  BY <1>2, <1>3, <1>4 DEF Path

(* No call at all.                                                         *)
LEMMA PathNone ==
    ASSUME NEW h, NEW a
    PROVE  Path(h, a, <<>>, a)
<1>1. <<>> \in Seq(Calls) /\ Len(<<>>) = 0
  OBVIOUS
<1>2. QED
  BY <1>1 DEF Path

(* One path after the other.                                               *)
LEMMA PathJoin ==
    ASSUME NEW h, NEW a, NEW b, NEW c, NEW p, NEW q, Path(h, a, p, b), Path(h, b, q, c)
    PROVE  Path(h, a, p \o q, c)
<1>1. p \in Seq(Calls) /\ q \in Seq(Calls)
  BY DEF Path
<1>2. PICK s : s = p \o q
  OBVIOUS
<1>3. PICK m \in Nat : m = Len(p)
  BY <1>1
<1>4. PICK n \in Nat : n = Len(q)
  BY <1>1
<1>5. /\ s \in Seq(Calls) /\ Len(s) = m + n
      /\ \A i \in 1..m : s[i] = p[i]
      /\ \A i \in m + 1..m + n : s[i] = q[i - m]
  BY <1>1, <1>2, <1>3, <1>4
<1>6. \A i \in 1..m : p[i] \in After(h, IF i = 1 THEN a ELSE p[i - 1])
  BY <1>3 DEF Path
<1>7. \A i \in 1..n : q[i] \in After(h, IF i = 1 THEN b ELSE q[i - 1])
  BY <1>4 DEF Path
<1>8. b = IF m = 0 THEN a ELSE p[m]
  BY <1>3 DEF Path
<1>9. c = IF n = 0 THEN b ELSE q[n]
  BY <1>4 DEF Path
<1>10. ASSUME NEW i \in 1..m + n
       PROVE  s[i] \in After(h, IF i = 1 THEN a ELSE s[i - 1])
  <2>1. CASE i <= m
    <3>1. s[i] = p[i] /\ (i # 1 => s[i - 1] = p[i - 1])
      BY <1>5, <2>1
    <3>2. i \in 1..m
      BY <2>1
    <3>3. p[i] \in After(h, IF i = 1 THEN a ELSE p[i - 1])
      BY <1>6, <3>2
    <3>4. QED
      BY <3>1, <3>3
  <2>2. CASE i = m + 1
    <3>1. i - m = 1 /\ 1 \in 1..n /\ s[i] = q[1]
      BY <1>5, <2>2
    <3>2. q[1] \in After(h, b)
      BY <1>7, <3>1
    <3>3. b = IF i = 1 THEN a ELSE s[i - 1]
      <4>1. CASE m = 0
        BY <1>8, <2>2, <4>1
      <4>2. CASE m # 0
        <5>1. m \in 1..m /\ i - 1 = m /\ i # 1
          BY <2>2, <4>2
        <5>2. QED
          BY <1>5, <1>8, <4>2, <5>1
      <4>3. QED
        BY <4>1, <4>2
    <3>4. QED
      BY <3>1, <3>2, <3>3
  <2>3. CASE i > m + 1
    <3>1. s[i] = q[i - m] /\ s[i - 1] = q[(i - m) - 1] /\ i # 1 /\ i - m # 1
      <4>1. i \in m + 1..m + n /\ i - 1 \in m + 1..m + n /\ (i - 1) - m = (i - m) - 1
        BY <2>3
      <4>2. QED
        BY <1>5, <2>3, <4>1
    <3>2. i - m \in 1..n
      BY <2>3
    <3>3. q[i - m] \in After(h, q[(i - m) - 1])
      BY <1>7, <3>1, <3>2
    <3>4. QED
      BY <3>1, <3>3
  <2>4. QED
    BY <2>1, <2>2, <2>3
<1>11. c = IF m + n = 0 THEN a ELSE s[m + n]
  <2>1. CASE n = 0
    <3>1. CASE m = 0
      BY <1>8, <1>9, <2>1, <3>1
    <3>2. CASE m # 0
      <4>1. m \in 1..m /\ m + n = m
        BY <2>1, <3>2
      <4>2. QED
        BY <1>5, <1>8, <1>9, <2>1, <3>2, <4>1
    <3>3. QED
      BY <3>1, <3>2
  <2>2. CASE n # 0
    <3>1. m + n \in m + 1..m + n /\ (m + n) - m = n /\ m + n # 0
      BY <2>2
    <3>2. QED
      BY <1>5, <1>9, <2>2, <3>1
  <2>3. QED
    BY <2>1, <2>2
<1>12. QED
  BY <1>2, <1>5, <1>10, <1>11 DEF Path

(* What is left of a path after its first call.                            *)
LEMMA PathTail ==
    ASSUME NEW h, NEW a, NEW s, NEW z, Path(h, a, s, z), s # <<>>
    PROVE  Head(s) \in After(h, a) /\ Path(h, Head(s), Tail(s), z)
<1>1. s \in Seq(Calls)
  BY DEF Path
<1>2. PICK n \in Nat : n = Len(s)
  BY <1>1
<1>3. PICK t : t = Tail(s)
  OBVIOUS
<1>4. n >= 1 /\ t \in Seq(Calls) /\ Len(t) = n - 1 /\ Head(s) = s[1]
      /\ \A i \in 1..n - 1 : t[i] = s[i + 1]
  BY <1>1, <1>2, <1>3
<1>5. \A i \in 1..n : s[i] \in After(h, IF i = 1 THEN a ELSE s[i - 1])
  BY <1>2 DEF Path
<1>6. Head(s) \in After(h, a)
  <2>1. 1 \in 1..n
    BY <1>4
  <2>2. QED
    BY <1>4, <1>5, <2>1
<1>7. ASSUME NEW i \in 1..Len(t)
      PROVE  t[i] \in After(h, IF i = 1 THEN Head(s) ELSE t[i - 1])
  <2>1. i + 1 \in 1..n /\ i + 1 # 1 /\ (i + 1) - 1 = i
    BY <1>4
  <2>2. t[i] = s[i + 1] /\ s[i + 1] \in After(h, s[i])
    BY <1>4, <1>5, <2>1
  <2>3. s[i] = IF i = 1 THEN Head(s) ELSE t[i - 1]
    <3>1. CASE i = 1
      BY <1>4, <3>1
    <3>2. CASE i # 1
      <4>1. i - 1 \in 1..n - 1 /\ (i - 1) + 1 = i
        BY <1>4, <3>2
      <4>2. QED
        BY <1>4, <3>2, <4>1
    <3>3. QED
      BY <3>1, <3>2
  <2>4. QED
    BY <2>2, <2>3
<1>8. z = IF Len(t) = 0 THEN Head(s) ELSE t[Len(t)]
  <2>1. z = s[n]
    BY <1>2, <1>4 DEF Path
  <2>2. CASE n = 1
    BY <1>4, <2>1, <2>2
  <2>3. CASE n # 1
    <3>1. n - 1 \in 1..n - 1 /\ (n - 1) + 1 = n /\ n - 1 # 0
      BY <1>4, <2>3
    <3>2. QED
      BY <1>4, <2>1, <3>1
  <2>4. QED
    BY <2>2, <2>3
<1>9. QED
  BY <1>3, <1>4, <1>6, <1>7, <1>8 DEF Path

(* Four calls.                                                             *)
LEMMA PathFour ==
    ASSUME NEW h, NEW a, NEW b \in After(h, a), NEW c \in After(h, b), NEW d \in After(h, c),
           NEW e \in After(h, d)
    PROVE  Path(h, a, <<b, c, d, e>>, e)
<1>1. b \in Calls /\ c \in Calls /\ d \in Calls /\ e \in Calls
  BY DEF After
<1>2. PICK s : s = <<b, c, d, e>>
  OBVIOUS
<1>3. s \in Seq(Calls) /\ Len(s) = 4 /\ s[1] = b /\ s[2] = c /\ s[3] = d /\ s[4] = e
  BY <1>1, <1>2
<1>4. \A i \in 1..Len(s) : s[i] \in After(h, IF i = 1 THEN a ELSE s[i - 1])
  <2>1. \A i \in 1..Len(s) : \/ i = 1 \/ (i = 2 /\ i - 1 = 1)
                             \/ (i = 3 /\ i - 1 = 2) \/ (i = 4 /\ i - 1 = 3)
    BY <1>3
  <2>2. QED
    BY <1>3, <2>1
<1>5. QED
  BY <1>2, <1>3, <1>4 DEF Path

(* Undo, Close and no handler are three things.                            *)
LEMMA Handlers ==
    /\ Undo # Close /\ Undo # <<>> /\ Close # <<>>
    /\ Len(Undo) = 2 /\ Len(Close) = 1 /\ Len(<<>>) = 0
    /\ Undo[1] = "rollback" /\ Close[1] = "close"
    /\ Head(Undo) = "rollback" /\ Tail(Undo) = Close /\ Head(Close) = "close"
    /\ Tail(Close) = <<>>
<1>1. Len(Undo) = 2 /\ Len(Close) = 1 /\ Len(<<>>) = 0
  BY DEF Undo, Close
<1>2. Undo[1] = "rollback" /\ Close[1] = "close"
  BY DEF Undo, Close
<1>3. Head(Undo) = "rollback" /\ Head(Close) = "close"
  BY DEF Undo, Close
<1>4. Tail(Undo) = Close /\ Tail(Close) = <<>>
  BY DEF Undo, Close
<1>5. 2 # 1 /\ 2 # 0 /\ 1 # 0
  OBVIOUS
<1>6. Undo # Close /\ Undo # <<>> /\ Close # <<>>
  BY <1>1, <1>5, Zenon
<1>7. QED
  BY <1>1, <1>2, <1>3, <1>4, <1>6

(* The blocks the methods are made of.                                     *)
LEMMA Blocks ==
    ASSUME NEW h
    PROVE  /\ Path(h, "none", Lead, "cursor") /\ Path(h, "none", Short, "cursor")
           /\ \A a \in {"cursor", "fetchone"} : Path(h, a, Read1, "fetchone")
           /\ Path(h, "cursor", Read, "fetchall") /\ Path(h, "fetchall", Read, "fetchall")
           /\ h = Undo => Path(h, "write", Read1, "fetchone") /\ Path(h, "write", Read, "fetchall")
           /\ h # <<>> => /\ \A a \in {"cursor", "fetchone", "fetchall"} :
                                 Path(h, a, <<"write">>, "write")
                          /\ Path(h, "write", Done, "close")
           /\ h = Undo => Path(h, "write", <<"write">>, "write")
           /\ Path(h, "fetchone", Done, "close")
           /\ h = <<>> => Path(h, "fetchall", Close, "close")
<1>1. /\ "get" \in After(h, "none") /\ "reset" \in After(h, "get")
      /\ "start" \in After(h, "reset") /\ "cursor" \in After(h, "start")
      /\ "cursor" \in After(h, "get")
  BY DEF After, Calls
<1>2. /\ \A a \in {"cursor", "fetchone"} : "selectone" \in After(h, a)
      /\ "fetchone" \in After(h, "selectone")
      /\ "select" \in After(h, "cursor") /\ "select" \in After(h, "fetchall")
      /\ "fetchall" \in After(h, "select")
  BY DEF After, Calls
<1>3. h = Undo => /\ "selectone" \in After(h, "write") /\ "select" \in After(h, "write")
                  /\ "write" \in After(h, "write")
  BY DEF After, Calls
<1>4. h # <<>> => /\ \A a \in {"cursor", "fetchone", "fetchall"} : "write" \in After(h, a)
                  /\ "commit" \in After(h, "write")
  BY DEF After, Calls
<1>5. /\ "commit" \in After(h, "fetchone") /\ "close" \in After(h, "commit")
      /\ h = <<>> => "close" \in After(h, "fetchall")
  BY DEF After, Calls
<1>6. Path(h, "none", Lead, "cursor") /\ Path(h, "none", Short, "cursor")
  BY <1>1, PathFour, PathTwo DEF Lead, Short
<1>7. \A a \in {"cursor", "fetchone"} : Path(h, a, Read1, "fetchone")
  BY <1>2, PathTwo DEF Read1
<1>8. Path(h, "cursor", Read, "fetchall") /\ Path(h, "fetchall", Read, "fetchall")
  BY <1>2, PathTwo DEF Read
<1>9. h = Undo => /\ Path(h, "write", Read1, "fetchone") /\ Path(h, "write", Read, "fetchall")
                  /\ Path(h, "write", <<"write">>, "write")
  BY <1>2, <1>3, PathTwo, PathOne DEF Read1, Read
<1>10. h # <<>> => /\ \A a \in {"cursor", "fetchone", "fetchall"} :
                          Path(h, a, <<"write">>, "write")
                   /\ Path(h, "write", Done, "close")
  BY <1>4, <1>5, PathTwo, PathOne DEF Done
<1>11. Path(h, "fetchone", Done, "close")
  BY <1>5, PathTwo DEF Done
<1>12. h = <<>> => Path(h, "fetchall", Close, "close")
  BY <1>5, PathOne DEF Close
<1>13. QED
  BY <1>6, <1>7, <1>8, <1>9, <1>10, <1>11, <1>12

(* s is the way of a method from its first call to close().                *)
WayOf(s) ==
    /\ s.handler = Undo \/ s.handler = Close \/ s.handler = <<>>
    /\ Path(s.handler, "none", s.calls, "close")

(* Its way is that of its calls.                                           *)
LEMMA WayFrom ==
    ASSUME NEW calls, NEW h, h = Undo \/ h = Close \/ h = <<>>, Path(h, "none", calls, "close")
    PROVE  WayOf(Script(calls, h))
<1>1. Script(calls, h).calls = calls /\ Script(calls, h).handler = h
  BY DEF Script
<1>2. QED
  BY <1>1 DEF WayOf

(* The methods of Order.                                                   *)
LEMMA OrderWays ==
    /\ WayOf(OrderSave)
    /\ \A c \in BOOLEAN : WayOf(OrderStatus(c)) /\ WayOf(OrderDelete(c))
<1> DEFINE h == Undo
<1>0. h = Undo /\ h # <<>>
  BY Handlers
<1> HIDE DEF h
<1>1. /\ Path(h, "none", Lead, "cursor") /\ Path(h, "cursor", Read1, "fetchone")
      /\ Path(h, "fetchone", <<"write">>, "write") /\ Path(h, "write", <<"write">>, "write")
      /\ Path(h, "write", Read1, "fetchone") /\ Path(h, "write", Done, "close")
      /\ Path(h, "fetchone", Read1, "fetchone")
      /\ Path(h, "fetchall", <<"write">>, "write")
      /\ Path(h, "write", Read, "fetchall")
  BY <1>0, Blocks
<1>2. Path(h, "none", Lead \o Read1, "fetchone")
  BY <1>1, PathJoin
<1>3. Path(h, "none", Lead \o Read1 \o <<"write">>, "write")
  BY <1>1, <1>2, PathJoin
<1>4. WayOf(OrderSave)
  <2>1. Path(h, "none", Lead \o Read1 \o <<"write">> \o Read1, "fetchone")
    BY <1>1, <1>3, PathJoin
  <2>2. Path(h, "fetchone", <<"write", "write">>, "write")
    BY <1>0, PathTwo DEF After, Calls
  <2>3. Path(h, "none", Lead \o Read1 \o <<"write">> \o Read1 \o <<"write", "write">>, "write")
    BY <2>1, <2>2, PathJoin
  <2>4. Path(h, "none", Lead \o Read1 \o <<"write">> \o Read1 \o <<"write", "write">> \o Done,
             "close")
    BY <1>1, <2>3, PathJoin
  <2>5. QED
    BY <1>0, <2>4, WayFrom DEF OrderSave
<1>5. ASSUME NEW c \in BOOLEAN PROVE WayOf(OrderStatus(c))
  <2> DEFINE q == IF c THEN Read \o <<"write">> ELSE <<>>
  <2>1. Path(h, "write", Read \o <<"write">>, "write") /\ Path(h, "write", <<>>, "write")
    BY <1>1, PathJoin, PathNone
  <2>2. Path(h, "write", q, "write")
    BY <2>1
  <2> HIDE DEF q
  <2>3. Path(h, "none", Lead \o Read1 \o <<"write">> \o q, "write")
    BY <1>3, <2>2, PathJoin
  <2>4. Path(h, "none", Lead \o Read1 \o <<"write">> \o q \o Done, "close")
    BY <1>1, <2>3, PathJoin
  <2>5. QED
    BY <1>0, <2>4, WayFrom DEF OrderStatus, q
<1>6. ASSUME NEW c \in BOOLEAN PROVE WayOf(OrderDelete(c))
  <2> DEFINE q == IF c THEN Read \o <<"write">> ELSE <<>>
  <2>1. Path(h, "fetchone", <<"write", "write">>, "write")
        /\ Path(h, "write", <<"write", "write">>, "write")
    BY <1>0, PathTwo DEF After, Calls
  <2>2. /\ Path(h, "none", Lead \o Read1 \o q \o <<"write", "write">>, "write")
    <3>1. CASE c
      <4>1. "select" \in After(h, "fetchone")
        BY DEF After, Calls
      <4>2. Path(h, "fetchone", Read, "fetchall")
        <5>1. "fetchall" \in After(h, "select")
          BY DEF After, Calls
        <5>2. QED
          BY <4>1, <5>1, PathTwo DEF Read
      <4>3. Path(h, "fetchone", Read \o <<"write">>, "write")
        BY <1>1, <4>2, PathJoin
      <4>4. Path(h, "fetchone", q, "write")
        BY <3>1, <4>3
      <4> HIDE DEF q
      <4>5. Path(h, "none", Lead \o Read1 \o q, "write")
        BY <1>2, <4>4, PathJoin
      <4>6. QED
        BY <2>1, <4>5, PathJoin
    <3>2. CASE ~c
      <4>1. Path(h, "fetchone", q, "fetchone")
        BY <3>2, PathNone
      <4> HIDE DEF q
      <4>2. Path(h, "none", Lead \o Read1 \o q, "fetchone")
        BY <1>2, <4>1, PathJoin
      <4>3. QED
        BY <2>1, <4>2, PathJoin
    <3>3. QED
      BY <3>1, <3>2
  <2> HIDE DEF q
  <2>3. Path(h, "none", Lead \o Read1 \o q \o <<"write", "write">> \o Done, "close")
    BY <1>1, <2>2, PathJoin
  <2>4. QED
    BY <1>0, <2>3, WayFrom DEF OrderDelete, q
<1>7. QED
  BY <1>4, <1>5, <1>6

(* The others.                                                             *)
LEMMA OtherWays ==
    /\ \A found \in BOOLEAN : WayOf(Category(found))
    /\ WayOf(ProductSave) /\ WayOf(StockChange) /\ WayOf(CustomerSave)
    /\ WayOf(Load) /\ WayOf(Dropdown)
<1>1. ASSUME NEW h, h = Undo \/ h = Close
      PROVE  WayOf(Script(Short \o <<"write">> \o Done, h))
  <2>1. h # <<>>
    BY <1>1, Handlers
  <2>2. /\ Path(h, "none", Short, "cursor") /\ Path(h, "cursor", <<"write">>, "write")
        /\ Path(h, "write", Done, "close")
    BY <2>1, Blocks
  <2>3. Path(h, "none", Short \o <<"write">>, "write")
    BY <2>2, PathJoin
  <2>4. Path(h, "none", Short \o <<"write">> \o Done, "close")
    BY <2>2, <2>3, PathJoin
  <2>5. QED
    BY <1>1, <2>4, WayFrom
<1>2. WayOf(StockChange) /\ WayOf(CustomerSave)
  BY <1>1 DEF StockChange, CustomerSave
<1>3. WayOf(ProductSave)
  <2> DEFINE h == Close
  <2>0. h = Close /\ h # <<>>
    BY Handlers
  <2> HIDE DEF h
  <2>1. /\ "get" \in After(h, "none") /\ "reset" \in After(h, "get")
        /\ "cursor" \in After(h, "reset") /\ "write" \in After(h, "cursor")
    BY <2>0 DEF After, Calls
  <2>2. Path(h, "none", <<"get", "reset", "cursor", "write">>, "write")
    BY <2>1, PathFour
  <2>3. Path(h, "write", Done, "close")
    BY <2>0, Blocks
  <2>4. Path(h, "none", <<"get", "reset", "cursor", "write">> \o Done, "close")
    BY <2>2, <2>3, PathJoin
  <2>5. QED
    BY <2>0, <2>4, WayFrom DEF ProductSave
<1>4. ASSUME NEW found \in BOOLEAN PROVE WayOf(Category(found))
  <2> DEFINE h == Close
  <2>0. h = Close /\ h # <<>>
    BY Handlers
  <2> HIDE DEF h
  <2> DEFINE q == IF found THEN <<>> ELSE <<"write">>
  <2>1. /\ Path(h, "none", Short, "cursor") /\ Path(h, "cursor", Read1, "fetchone")
        /\ Path(h, "fetchone", <<"write">>, "write") /\ Path(h, "write", Done, "close")
        /\ Path(h, "fetchone", Done, "close")
    BY <2>0, Blocks
  <2>2. Path(h, "none", Short \o Read1, "fetchone")
    BY <2>1, PathJoin
  <2>3. Path(h, "none", Short \o Read1 \o q \o Done, "close")
    <3>1. CASE found
      <4>1. Path(h, "fetchone", q, "fetchone")
        BY <3>1, PathNone
      <4> HIDE DEF q
      <4>2. Path(h, "none", Short \o Read1 \o q, "fetchone")
        BY <2>2, <4>1, PathJoin
      <4>3. QED
        BY <2>1, <4>2, PathJoin
    <3>2. CASE ~found
      <4>1. Path(h, "fetchone", q, "write")
        BY <2>1, <3>2
      <4> HIDE DEF q
      <4>2. Path(h, "none", Short \o Read1 \o q, "write")
        BY <2>2, <4>1, PathJoin
      <4>3. QED
        BY <2>1, <4>2, PathJoin
    <3>3. QED
      BY <3>1, <3>2
  <2> HIDE DEF q
  <2>4. QED
    BY <2>0, <2>3, WayFrom DEF Category, q
<1>5. WayOf(Load) /\ WayOf(Dropdown)
  <2> DEFINE h == <<>>
  <2>0. h = <<>>
    OBVIOUS
  <2> HIDE DEF h
  <2>1. /\ Path(h, "none", Short, "cursor") /\ Path(h, "cursor", Read, "fetchall")
        /\ Path(h, "fetchall", Read, "fetchall") /\ Path(h, "fetchall", Close, "close")
    BY <2>0, Blocks
  <2>2. Path(h, "none", Short \o Read, "fetchall")
    BY <2>1, PathJoin
  <2>3. Path(h, "none", Short \o Read \o Read, "fetchall")
    BY <2>1, <2>2, PathJoin
  <2>4. /\ Path(h, "none", Short \o Read \o Close, "close")
        /\ Path(h, "none", Short \o Read \o Read \o Close, "close")
    BY <2>1, <2>2, <2>3, PathJoin
  <2>5. QED
    BY <2>0, <2>4, WayFrom DEF Load, Dropdown
<1>6. QED
  BY <1>2, <1>3, <1>4, <1>5

(* Every method of the application.                                        *)
LEMMA MethodWays ==
    ASSUME NEW m \in Methods, NEW s \in ScriptsOf(m)
    PROVE  WayOf(s)
<1>1. m \in {"order", "category", "product", "customer", "screen"}
  BY AppAssumption
<1>2. CASE m = "order"
  BY <1>2, OrderWays DEF ScriptsOf
<1>3. CASE m = "category"
  BY <1>3, OtherWays DEF ScriptsOf
<1>4. CASE m = "product"
  BY <1>4, OtherWays DEF ScriptsOf
<1>5. CASE m = "customer"
  BY <1>5, OtherWays DEF ScriptsOf
<1>6. CASE m = "screen"
  BY <1>6, OtherWays DEF ScriptsOf
<1>7. QED
  BY <1>1, <1>2, <1>3, <1>4, <1>5, <1>6

(***************************************************************************)
(* The running method.                                                     *)
(***************************************************************************)

(* A call that waits is one of the connector's method behind it.           *)
LEMMA CallOps ==
    ASSUME Idle, NEW c, CallConnector(c)
    PROVE  /\ pending' = NoCall \/ pending'.op = OpOf(c)
           /\ c = "close" => pending' = NoCall
<1>1. \A op, error : Finish(op, error) => pending' = NoCall
  BY DEF Finish
<1>2. \A op : RefuseUnread(op) => pending' = NoCall
  BY <1>1 DEF RefuseUnread
<1>3. \A op, k, kind : Transmit(op, k, kind) => pending' = NoCall \/ pending'.op = op
  BY <1>1 DEF Transmit
<1>4. \A op, k, kind : Send(op, k, kind) => pending' = NoCall \/ pending'.op = op
  BY <1>3 DEF Send
<1>5. CASE c = "get" /\ GetConnection
  <2>1. Reopen => pending' = NoCall
    BY <1>1 DEF Reopen
  <2>2. QED
    BY <1>4, <1>5, <2>1 DEF GetConnection, OpOf
<1>6. CASE c \in {"reset", "rollback"} /\ Rollback
  BY <1>1, <1>3, <1>4, <1>6 DEF Rollback, OpOf
<1>7. CASE c = "start" /\ Start
  BY <1>1, <1>2, <1>4, <1>7 DEF Start, OpOf
<1>8. CASE c = "cursor" /\ NewCursor(cursor)
  BY <1>2, <1>4, <1>8 DEF NewCursor, OpOf
<1>9. CASE c = "fetchone" /\ FetchOne(cursor)
  <2>1. FetchReads(cursor) => pending' = NoCall
    <3>1. FetchLost("fetchone") => pending' = NoCall
      BY <1>1 DEF FetchLost
    <3>2. QED
      BY <1>1, <3>1 DEF FetchReads
  <2>2. QED
    BY <1>1, <1>9, <2>1 DEF FetchOne
<1>10. CASE c = "fetchall" /\ FetchAll(cursor)
  BY <1>1, <1>10 DEF FetchAll, FetchReadsAll, FetchLost
<1>11. CASE c = "commit" /\ Commit
  BY <1>2, <1>4, <1>11 DEF Commit, OpOf
<1>12. CASE c = "close" /\ CloseCursor(cursor)
  BY <1>1, <1>2, <1>12 DEF CloseCursor
<1>13. CASE c \in {"select", "selectone", "write"} /\ Execute(cursor, c)
  BY <1>2, <1>4, <1>13 DEF Execute, OpOf
<1>14. QED
  BY <1>5, <1>6, <1>7, <1>8, <1>9, <1>10, <1>11, <1>12, <1>13 DEF CallConnector

(* Each packet, and the loss of the link, ends the method that waits.      *)
LEMMA WaitEnds ==
    ASSUME Receive \/ Lost
    PROVE  pending' = NoCall
<1>1. \A op, error : Finish(op, error) => pending' = NoCall
  BY DEF Finish
<1>2. Reopen \/ Reconnect("ping") => pending' = NoCall
  BY <1>1 DEF Reopen, Reconnect
<1>3. \A error, rest : Failed(error, rest) => pending' = NoCall
  BY <1>1, <1>2 DEF Failed
<1>4. QED
  BY <1>1, <1>3 DEF Receive, Lost

(* Where the next call of the method is to be found.                       *)
LEMMA NextCall ==
    ASSUME Scripted, mode # "idle", pending = NoCall, todo # <<>>
    PROVE  /\ Head(todo) \in Calls
           /\ mode = "try" => /\ Head(todo) \in After(handler, issued)
                              /\ Path(handler, Head(todo), Tail(todo), "close")
           /\ mode = "handle" => \/ /\ todo = Undo /\ handler = Undo
                                    /\ Head(todo) = "rollback" /\ Tail(todo) = Close
                                 \/ /\ todo = Close
                                    /\ Head(todo) = "close" /\ Tail(todo) = <<>>
<1>1. CASE mode = "try"
  <2>1. /\ Head(todo) \in After(handler, issued)
        /\ Path(handler, Head(todo), Tail(todo), "close")
    BY <1>1, PathTail DEF Scripted
  <2>2. Head(todo) \in Calls
    BY <2>1 DEF After
  <2>3. QED
    BY <1>1, <2>1, <2>2
<1>2. CASE mode = "handle"
  <2>1. (todo = Undo /\ handler = Undo) \/ todo = Close
    BY <1>2 DEF Scripted
  <2>2. "rollback" \in Calls /\ "close" \in Calls
    BY DEF Calls
  <2>3. QED
    BY <1>2, <2>1, <2>2, Handlers
<1>3. QED
  BY <1>1, <1>2 DEF Scripted

(* A method that has made all its calls has closed its cursor.             *)
LEMMA AllDone ==
    ASSUME Scripted, mode = "try", todo = <<>>
    PROVE  issued = "close"
  BY DEF Scripted, Path

(* Every step keeps the method on its way.                                 *)
LEMMA ScriptSteps ==
    ASSUME Scripted, [AppNext]_appVars
    PROVE  Scripted'
<1> USE DEF Scripted
<1>1. CASE UNCHANGED appVars
  BY <1>1 DEF appVars, vars, script
<1>2. ASSUME NEW m \in Methods, Begin(m) PROVE Scripted'
  <2>1. PICK s \in ScriptsOf(m) : todo' = s.calls /\ handler' = s.handler
    BY <1>2 DEF Begin
  <2>2. issued' = "none" /\ mode' = "try" /\ pending' = NoCall
    BY <1>2 DEF Begin, vars
  <2>3. WayOf(s)
    BY <2>1, MethodWays
  <2>4. QED
    BY <2>1, <2>2, <2>3 DEF WayOf
<1>3. CASE Issue
  <2>1. /\ mode # "idle" /\ pending = NoCall /\ todo # <<>> /\ CallConnector(Head(todo))
        /\ issued' = Head(todo) /\ todo' = Tail(todo) /\ handler' = handler /\ mode' = mode
    BY <1>3 DEF Issue
  <2>2. /\ pending' = NoCall \/ pending'.op = OpOf(issued')
        /\ issued' = "close" => pending' = NoCall
    BY <2>1, CallOps DEF Idle
  <2>3. issued' \in Calls
    BY <2>1, NextCall
  <2>4. CASE mode = "try"
    <3>1. Path(handler', issued', todo', "close") /\ issued' \in After(handler, issued)
      BY <2>1, <2>4, NextCall
    <3>2. issued' = "write" => handler # <<>>
      <4>1. "write" \in After(handler, issued) => handler # <<>>
        BY Handlers DEF After
      <4>2. QED
        BY <3>1, <4>1
    <3>3. QED
      BY <2>1, <2>2, <2>3, <2>4, <3>1, <3>2
  <2>5. CASE mode = "handle"
    <3>1. \/ issued' = "rollback" /\ todo' = Close
          \/ issued' = "close" /\ todo' = <<>>
      BY <2>1, <2>5, NextCall
    <3>2. QED
      BY <2>1, <2>2, <2>3, <2>5, <3>1
  <2>6. QED
    BY <2>1, <2>4, <2>5
<1>4. ASSUME Unwind, pending = NoCall PROVE Scripted'
  <2>1. pending' = NoCall /\ handler' = handler /\ issued' = issued
    BY <1>4 DEF Unwind, vars
  <2>2. \/ mode' = "idle" /\ todo' = <<>>
        \/ mode' = "handle" /\ todo' = handler
    BY <1>4 DEF Unwind
  <2>3. QED
    BY <2>1, <2>2
<1>5. CASE Except \/ Object
  BY <1>4, <1>5 DEF Except, Object
<1>6. CASE Return
  BY <1>6 DEF Return, vars
<1>7. CASE (Receive \/ Lost) /\ UNCHANGED script
  <2>1. pending' = NoCall
    BY <1>7, WaitEnds
  <2>2. QED
    BY <1>7, <2>1 DEF script
<1>8. CASE (Answer \/ Break) /\ UNCHANGED script
  <2>1. pending' = pending
    BY <1>8 DEF Answer, Break
  <2>2. QED
    BY <1>8, <2>1 DEF script
<1>9. QED
  BY <1>1, <1>2, <1>3, <1>5, <1>6, <1>7, <1>8 DEF AppNext, Method, Server

(***************************************************************************)
(* Errors, rows and transactions while the link is up.                     *)
(***************************************************************************)

(* A new session, made by get_connection(), is sound.                      *)
LEMMA ReopenSound ==
    ASSUME Reopen, issued' = "get", link' = "up"
    PROVE  SoundUp'
<1>1. unread' = FALSE /\ trans' = "none" /\ Finish("get", "none")
  BY DEF Reopen, NewSession
<1>2. pending' = NoCall /\ last'.error = "none"
  BY <1>1 DEF Finish
<1>3. Calm'
  BY <1>1, <1>2 DEF Calm
<1>4. Kept'
  BY <1>1 DEF Kept
<1>5. QED
  BY <1>2, <1>3, <1>4 DEF SoundUp

(* The command of a call that waits is one of its method's.                *)
LEMMA PendingCall ==
    ASSUME Inv1, Scripted, pending # NoCall
    PROVE  /\ KindOf(issued) \in KindsOf(pending.op) /\ KindOf(issued) \in Kinds
           /\ issued \in {"get", "reset", "start", "cursor", "select", "selectone", "write",
                          "commit", "rollback"}
<1>1. pending.op \in Ops \ {"none"} /\ pending.op = OpOf(issued) /\ issued \in Calls \cup {"none"}
  BY DEF Inv1, Types, PendingReady, Scripted
<1>2. issued \in {"get", "reset", "start", "cursor", "select", "selectone", "write", "commit",
                  "rollback"}
  BY <1>1 DEF Ops, Calls, OpOf
<1>3. pending.op \in {"get", "cursor"} => pending.op = issued
  BY <1>1, <1>2 DEF OpOf
<1>4. QED
  BY <1>1, <1>2 DEF OpOf, KindOf, KindsOf, Kinds

(* A command that has been sent is waited for.                             *)
LEMMA SentSound ==
    ASSUME last.error \in {"none", "server"}, last' = last, Kept', pending' # NoCall,
           NEW c, issued' = c, Waiting(KindOf(c))',
           c \in {"select", "selectone"} =>
               cursors'[cursor].ahead = <<>> /\ cursors'[cursor].command # 0
    PROVE  SoundUp'
<1>1. Waiting(KindOf(issued))'
  OBVIOUS
<1>2. Busy'
  BY <1>1 DEF Busy
<1>3. QED
  BY <1>2 DEF SoundUp

(* What the server does to rows that are not committed.                    *)
LEMMA AnswerKeeps ==
    ASSUME Inv1, NEW kind \in Kinds, Waiting(kind), Answer
    PROVE  /\ wire = <<>> /\ wire' # <<>>
           /\ trans' = "dirty" /\ trans # "dirty" => kind = "write" /\ wire'[1].kind = "ok"
<1>1. /\ wire = <<>> /\ requests = <<[id |-> pending.id, kind |-> kind]>>
  BY DEF Answer, Waiting, Asked, Answered
<1>2. Head(requests).kind = kind
  BY <1>1
<1>3. \A packets, after : Reply(packets, after) => wire' = wire \o packets /\ trans' = after
  BY DEF Reply
<1>4. PICK opened : opened = IF trans = "none" THEN "clean" ELSE trans
  OBVIOUS
<1>5. opened = "dirty" => trans = "dirty"
  BY <1>4
<1>6. wire' # <<>>
  <2>1. Len(wire') = 1 \/ \E n \in 0..MaxRows : wire' = Result(pending.id, n)
    BY AnswerSteady
  <2>2. \A n \in 0..MaxRows : Len(Result(pending.id, n)) >= 1
    <3>1. pending.id \in 1..MaxCommands
      <4>1. requests \in Seq(Request) /\ requests # <<>>
        BY <1>1 DEF Inv1, Types
      <4>2. requests[1] \in Request
        BY <4>1
      <4>3. requests[1].id = pending.id
        BY <1>1
      <4>4. QED
        BY <4>2, <4>3 DEF Request
    <3>2. \A n \in 0..MaxRows : Len(Result(pending.id, n)) = n + 2
      BY <3>1, ResultPackets
    <3>3. \A n \in 0..MaxRows : n + 2 >= 1
      OBVIOUS
    <3>4. QED
      BY <3>2, <3>3
  <2>3. Len(<<>>) = 0
    OBVIOUS
  <2>4. QED
    BY <2>1, <2>2, <2>3
<1>7. ASSUME trans' = "dirty", trans # "dirty"
      PROVE  kind = "write" /\ wire'[1].kind = "ok"
  <2>1. kind = "write" /\ Reply(<<Packet(Head(requests).id, "ok", 0, "dirty" # "none")>>, "dirty")
    BY <1>2, <1>3, <1>4, <1>5, <1>7 DEF Answer
  <2>2. wire' = <<>> \o <<Packet(Head(requests).id, "ok", 0, "dirty" # "none")>>
    BY <1>1, <1>3, <2>1
  <2>3. wire'[1] = Packet(Head(requests).id, "ok", 0, "dirty" # "none")
    BY <2>2
  <2>4. QED
    BY <2>1, <2>3 DEF Packet
<1>8. QED
  BY <1>1, <1>6, <1>7

(* The server answers the call that waits.                                 *)
LEMMA AnswerSound ==
    ASSUME AppInv, link = "up", Answer, UNCHANGED script
    PROVE  SoundUp'
<1>1. SoundUp /\ Inv1 /\ Steady /\ Scripted
  BY DEF AppInv, Sound, Inv2
<1>2. pending # NoCall
  <2>1. requests # <<>>
    BY DEF Answer
  <2>2. QED
    BY <1>1, <2>1 DEF Steady, Resting
<1>3. Busy /\ Kept /\ last.error \in {"none", "server"}
  BY <1>1, <1>2 DEF SoundUp
<1>4. PICK kind : kind = KindOf(issued)
  OBVIOUS
<1>5. kind \in Kinds /\ Waiting(kind)
  BY <1>1, <1>2, <1>3, <1>4, PendingCall DEF Busy
<1>6. /\ UNCHANGED <<link, commands, unread, inTrans, cursors, pending, last>>
      /\ Waiting(kind)'
  BY <1>1, <1>5, AnswerSteady
<1>7. /\ wire = <<>> /\ wire' # <<>>
      /\ trans' = "dirty" /\ trans # "dirty" => kind = "write" /\ wire'[1].kind = "ok"
  BY <1>1, <1>5, AnswerKeeps
<1>8. UNCHANGED <<todo, handler, issued, mode>>
  BY DEF script
<1>9. Kept'
  <2>1. CASE trans = "dirty"
    BY <1>2, <1>3, <1>6, <1>7, <1>8, <2>1 DEF Kept
  <2>2. CASE trans # "dirty" /\ trans' = "dirty"
    <3>1. kind = "write" /\ wire'[1].kind = "ok"
      BY <1>7, <2>2
    <3>2. issued = "write"
      BY <1>1, <1>2, <1>4, <3>1, PendingCall DEF KindOf
    <3>3. mode = "try"
      BY <1>1, <1>2, <3>2 DEF Scripted
    <3>4. handler = Undo \/ handler = Close
      BY <1>1, <3>2, <3>3 DEF Scripted
    <3>5. QED
      BY <1>2, <1>6, <1>7, <1>8, <3>1, <3>2, <3>3, <3>4 DEF Kept
  <2>3. QED
    BY <2>1, <2>2 DEF Kept
<1>10. Busy'
  <2>1. Waiting(KindOf(issued))'
    BY <1>4, <1>6, <1>8
  <2>2. QED
    BY <1>3, <1>6, <1>8, <2>1 DEF Busy
<1>11. QED
  BY <1>2, <1>3, <1>6, <1>9, <1>10 DEF SoundUp

(* The answer arrives.                                                     *)
LEMMA ReceiveSound ==
    ASSUME AppInv, link = "up", Receive, UNCHANGED script
    PROVE  SoundUp'
<1>0. pending # NoCall
  BY DEF Receive
<1>1. SoundUp /\ Inv1 /\ Scripted
  BY DEF AppInv, Sound, Inv2
<1>2. Busy /\ Kept
  BY <1>0, <1>1 DEF SoundUp
<1>3. PICK kind : kind = KindOf(issued)
  OBVIOUS
<1>4. kind \in KindsOf(pending.op) /\ Waiting(kind)
  BY <1>0, <1>1, <1>2, <1>3, PendingCall DEF Busy
<1>5. /\ UNCHANGED <<link, requests, trans, commands>>
      /\ requests' = <<>> /\ pending' = NoCall /\ last'.op = pending.op
      /\ GotOk(kind) \/ GotErr(kind) \/ GotRows(kind)
  BY <1>1, <1>4, ReceiveSteady
<1>6. UNCHANGED <<todo, handler, issued, mode>>
  BY DEF script
<1>7. /\ issued \in {"select", "selectone"} <=> kind \in {"select", "selectone"}
      /\ issued = "reset" => kind = "end"
      /\ issued = "commit" => kind = "end"
      /\ issued = "rollback" => kind = "end"
      /\ issued = "selectone" => kind = "selectone"
      /\ mode = "handle" => kind = "end"
      /\ mode # "idle"
  BY <1>0, <1>1, <1>3, PendingCall DEF KindOf, Scripted
<1>8. last'.error \in {"none", "server"}
  BY <1>5 DEF GotOk, GotErr, GotRows
<1>9. kind = "end" => GotOk(kind) /\ trans = "none"
  BY <1>5 DEF GotOk, GotErr, GotRows
<1>10. wire[1].kind = "ok" => last'.error = "none"
  BY <1>5 DEF GotOk, GotErr, GotRows
<1>11. Kept'
  BY <1>0, <1>2, <1>5, <1>6, <1>7, <1>9, <1>10 DEF Kept
<1>12. Calm'
  <2>1. CASE GotOk(kind)
    BY <1>5, <1>6, <1>7, <1>9, <2>1 DEF Calm, GotOk
  <2>2. CASE GotErr(kind)
    BY <1>5, <1>6, <1>7, <2>2 DEF Calm, GotErr
  <2>3. CASE GotRows(kind)
    <3>1. issued' \in {"select", "selectone"} /\ mode' = "try" /\ last'.error = "none"
      BY <1>1, <1>6, <1>7, <2>3 DEF GotRows, Scripted
    <3>2. cursors'[cursor].ahead = <<>> /\ cursors'[cursor].command # 0
      BY <1>2, <1>6, <2>3, <3>1 DEF Busy, GotRows
    <3>3. issued' = "selectone" => Len(wire') <= 2
      BY <1>6, <1>7, <2>3 DEF GotRows
    <3>4. QED
      BY <3>1, <3>2, <3>3 DEF Calm
  <2>4. QED
    BY <1>5, <2>1, <2>2, <2>3
<1>13. QED
  BY <1>5, <1>8, <1>11, <1>12 DEF SoundUp

(* The steps of the method that call nothing.                              *)
LEMMA QuietSound ==
    ASSUME AppInv, link = "up",
           \/ \E m \in Methods : Begin(m)
           \/ Except \/ Object \/ Return
    PROVE  SoundUp'
<1>0. pending = NoCall /\ UNCHANGED vars
  BY DEF Begin, Except, Object, Return, Unwind, AppInv, Scripted
<1>1. SoundUp /\ Inv1 /\ Scripted
  BY DEF AppInv, Sound, Inv2
<1>2. Calm /\ Kept /\ last.error \in {"none", "server"}
  BY <1>0, <1>1 DEF SoundUp
<1>3. /\ pending' = NoCall
      /\ UNCHANGED <<trans, wire, unread, inTrans, cursors, last>>
  BY <1>0 DEF vars, server, flags
<1>4. ASSUME NEW m \in Methods, Begin(m) PROVE SoundUp'
  <2>1. mode = "idle" /\ mode' = "try" /\ issued' = "none"
    BY <1>4 DEF Begin
  <2>2. trans # "dirty" /\ ~unread
    BY <1>2, <2>1 DEF Kept, Calm
  <2>3. QED
    BY <1>2, <1>3, <2>1, <2>2 DEF SoundUp, Kept, Calm
<1>5. ASSUME ~unread, trans = "dirty" => mode' = "handle" /\ todo' = Undo, mode' # "try"
      PROVE  SoundUp'
  BY <1>2, <1>3, <1>5 DEF SoundUp, Kept, Calm
<1>6. CASE Except
  <2>1. mode = "try" /\ issued \notin {"none", "reset"} /\ last.error # "none" /\ Unwind
    BY <1>6 DEF Except, Raised
  <2>2. ~unread
    BY <1>2, <2>1 DEF Calm
  <2>3. trans = "dirty" => handler = Undo /\ issued \notin {"get", "start", "cursor"}
    BY <1>0, <1>2, <2>1 DEF Kept
  <2>4. QED
    BY <1>5, <2>1, <2>2, <2>3 DEF Unwind
<1>7. CASE Object
  <2>1. /\ mode = "try" /\ Unwind
        /\ \/ handler = Undo /\ issued \in {"fetchone", "write"}
           \/ handler = <<>> /\ issued = "fetchall"
    BY <1>7 DEF Object
  <2>2. ~unread
    BY <1>2, <2>1 DEF Calm
  <2>3. trans = "dirty" => handler = Undo /\ issued \notin {"get", "start", "cursor"}
    BY <1>0, <1>2, <2>1, Handlers DEF Kept
  <2>4. QED
    BY <1>5, <2>1, <2>2, <2>3 DEF Unwind
<1>8. CASE Return
  <2>1. mode # "idle" /\ todo = <<>> /\ mode' = "idle"
    BY <1>8 DEF Return
  <2>2. mode = "try" => issued = "close"
    BY <1>1, <2>1, AllDone
  <2>3. ~unread
    BY <1>2, <2>2 DEF Calm
  <2>4. trans # "dirty"
    BY <1>0, <1>2, <2>1, <2>2, Handlers DEF Kept
  <2>5. QED
    BY <1>5, <2>1, <2>3, <2>4
<1>9. QED
  BY <1>4, <1>6, <1>7, <1>8

(* The running method is about to make the call c, and makes it.           *)
CallsNow(c) ==
    /\ AppInv /\ link = "up" /\ link' = "up"
    /\ mode # "idle" /\ pending = NoCall /\ ~Raised
    /\ CallConnector(c) /\ issued' = c /\ mode' = mode /\ handler' = handler

(* The calls of the try part, which send a command.                        *)
LEMMA SendSound ==
    ASSUME NEW c, CallsNow(c), mode = "try", c \in After(handler, issued),
           c \in {"get", "start", "cursor", "commit", "select", "selectone", "write"}
    PROVE  SoundUp'
<1>1. SoundUp /\ Inv1 /\ Resting /\ Calm /\ Kept /\ Idle
  BY DEF CallsNow, AppInv, Inv2, Sound, SoundUp, Steady, Idle
<1>2. last.error \in {"none", "server"} /\ cursor \in Cursors /\ cursor \in Cursors \cup {None}
      /\ None \in Cursors \cup {None} /\ pending = NoCall /\ link = "up"
  BY <1>1, AppAssumption DEF SoundUp, CallsNow
<1>3. CallConnector(c) /\ issued' = c /\ mode' = "try" /\ handler' = handler
  BY DEF CallsNow
<1>4. issued \notin {"select", "selectone"}
  BY DEF After
<1>5. ~unread
  BY <1>1, <1>4 DEF Calm
<1>6. c = "start" => ~inTrans
  <2>1. c = "start" => issued = "reset"
    BY DEF After
  <2>2. QED
    BY <1>1, <2>1 DEF Calm
<1>7. ASSUME pending' # NoCall, trans' = trans
      PROVE  Kept'
  <2>1. SUFFICES ASSUME trans = "dirty" PROVE Kept'
    BY <1>7 DEF Kept
  <2>2. \/ handler = Undo /\ issued \in {"write", "select", "selectone", "fetchone", "fetchall"}
        \/ handler = Close /\ issued = "write"
    BY <1>1, <1>2, <2>1 DEF Kept
  <2>3. c \in {"commit", "select", "selectone", "write"} /\ (handler = Close => c = "commit")
    BY <2>2, Handlers DEF After
  <2>4. handler # <<>>
    BY <2>2, Handlers
  <2>5. QED
    BY <1>3, <1>7, <2>2, <2>3, <2>4 DEF Kept
<1>8. ASSUME NEW op \in Ops \ {"none"}, NEW k \in Cursors \cup {None},
             Send(op, k, KindOf(c)), UNCHANGED flags,
             c \in {"select", "selectone"} =>
                 cursors'[cursor].ahead = <<>> /\ cursors'[cursor].command # 0
      PROVE  SoundUp'
  <2>1. KindOf(c) \in Kinds /\ (KindOf(c) = "start" => ~inTrans)
    BY <1>6 DEF KindOf, Kinds
  <2>2. /\ pending' # NoCall /\ last' = last /\ Waiting(KindOf(c))' /\ trans' = trans
    <3>1. PICK kind \in Kinds : kind = KindOf(c)
      BY <2>1
    <3>2. /\ pending' # NoCall /\ last' = last /\ Waiting(kind)' /\ trans' = trans
      BY <1>1, <1>2, <1>8, <2>1, <3>1, SendSteady
    <3>3. QED
      BY <3>1, <3>2, <1>3
  <2>3. Kept'
    BY <1>7, <2>2
  <2>4. QED
    BY <1>2, <1>3, <1>8, <2>2, <2>3, SentSound
<1>9. {"get", "start", "cursor", "commit", "execute"} \subseteq Ops \ {"none"}
  BY DEF Ops
<1>10. \A op : ~RefuseUnread(op)
  BY <1>5 DEF RefuseUnread
<1>11. CASE c = "get"
  <2>1. Send("get", None, "ping") /\ UNCHANGED flags
    BY <1>2, <1>3, <1>5, <1>11 DEF CallConnector, GetConnection
  <2>2. QED
    BY <1>2, <1>8, <1>9, <1>11, <2>1 DEF KindOf
<1>12. CASE c = "start"
  <2>1. Send("start", None, "start") /\ UNCHANGED flags
    BY <1>3, <1>6, <1>10, <1>12 DEF CallConnector, Start
  <2>2. QED
    BY <1>2, <1>8, <1>9, <1>12, <2>1 DEF KindOf
<1>13. CASE c = "cursor"
  <2>1. Send("cursor", cursor, "ping") /\ UNCHANGED flags
    BY <1>3, <1>10, <1>13 DEF CallConnector, NewCursor
  <2>2. QED
    BY <1>2, <1>8, <1>9, <1>13, <2>1 DEF KindOf
<1>14. CASE c = "commit"
  <2>1. Send("commit", None, "end") /\ UNCHANGED flags
    BY <1>3, <1>10, <1>14 DEF CallConnector, Commit
  <2>2. QED
    BY <1>2, <1>8, <1>9, <1>14, <2>1 DEF KindOf
<1>15. CASE c \in {"select", "selectone", "write"}
  <2>1. /\ Send("execute", cursor, c) /\ UNCHANGED flags
        /\ cursors' = [cursors EXCEPT ![cursor] = [Fresh EXCEPT !.command = commands']]
    BY <1>3, <1>10, <1>15 DEF CallConnector, Execute
  <2>2. KindOf(c) = c
    BY <1>15 DEF KindOf
  <2>3. commands' # 0
    BY <1>1, <2>1 DEF Send, Transmit, Inv1, Types
  <2>4. cursors'[cursor] = [Fresh EXCEPT !.command = commands']
    BY <1>1, <1>2, <2>1 DEF Inv1, Types
  <2>5. cursors'[cursor].ahead = <<>> /\ cursors'[cursor].command # 0
    BY <2>3, <2>4 DEF Fresh, Closed
  <2>6. QED
    BY <1>2, <1>8, <1>9, <2>1, <2>2, <2>5
<1>16. QED
  BY <1>11, <1>12, <1>13, <1>14, <1>15

(* rollback(), in the try part or in the handler.                          *)
LEMMA RollbackSound ==
    ASSUME NEW c, CallsNow(c), c \in {"reset", "rollback"},
           \/ mode = "try" /\ c \in After(handler, issued)
           \/ mode = "handle" /\ c = "rollback"
    PROVE  SoundUp'
<1>1. SoundUp /\ Inv1 /\ Resting /\ Calm /\ Kept /\ Idle
  BY DEF CallsNow, AppInv, Inv2, Sound, SoundUp, Steady, Idle
<1>2. last.error \in {"none", "server"} /\ pending = NoCall /\ link = "up"
  BY <1>1 DEF SoundUp, CallsNow
<1>3. Rollback /\ issued' = c /\ mode' = mode /\ handler' = handler
  BY DEF CallsNow, CallConnector
<1>4. /\ pending' # NoCall /\ last' = last /\ Waiting("end")' /\ trans' = trans
  BY <1>1, <1>2, <1>3, RollbackSteady
<1>5. Kept'
  <2>1. CASE mode = "handle"
    BY <1>3, <1>4, <2>1 DEF Kept, After
  <2>2. CASE mode = "try" /\ c \in After(handler, issued)
    <3>1. issued = "get"
      BY <2>2 DEF After
    <3>2. trans # "dirty"
      BY <1>1, <1>2, <2>2, <3>1 DEF Kept
    <3>3. QED
      BY <1>4, <3>2 DEF Kept
  <2>3. QED
    BY <2>1, <2>2
<1>6. KindOf(c) = "end"
  BY DEF KindOf
<1>7. Waiting(KindOf(c))' /\ c \notin {"select", "selectone"}
  BY <1>3, <1>4, <1>6
<1>8. QED
  BY <1>2, <1>3, <1>4, <1>5, <1>7, SentSound

(* The calls that return at once.                                          *)
LEMMA AtOnceSound ==
    ASSUME last'.error = "none", pending' = NoCall, ~unread', Kept',
           issued' \in {"fetchone", "fetchall", "close"}
    PROVE  SoundUp'
<1>1. Calm'
  BY DEF Calm
<1>2. QED
  BY <1>1 DEF SoundUp

(* fetchone() and fetchall().                                              *)
LEMMA FetchSound ==
    ASSUME NEW c, CallsNow(c), mode = "try", c \in After(handler, issued),
           c \in {"fetchone", "fetchall"}
    PROVE  SoundUp'
<1>1. SoundUp /\ Inv1 /\ Resting /\ Calm /\ Kept /\ Idle
  BY DEF CallsNow, AppInv, Inv2, Sound, SoundUp, Steady, Idle
<1>2. pending = NoCall /\ link = "up" /\ cursor \in Cursors
  BY <1>1, AppAssumption DEF SoundUp, CallsNow
<1>3. CallConnector(c) /\ issued' = c /\ mode' = "try" /\ handler' = handler /\ ~Raised
  BY DEF CallsNow
<1>4. /\ issued \in {"select", "selectone"}
      /\ c = "fetchone" => issued = "selectone"
  BY DEF After
<1>5. last.error = "none" /\ cursors[cursor].command # 0
  BY <1>1, <1>3, <1>4 DEF Raised, Calm
<1>6. FetchOne(cursor) \/ FetchAll(cursor)
  BY <1>3 DEF CallConnector
<1>7. pending' = NoCall /\ trans' = trans
  BY <1>1, <1>2, <1>6, FetchSteady
<1>8. Kept'
  <2>1. SUFFICES ASSUME trans = "dirty" PROVE Kept'
    BY <1>7 DEF Kept
  <2>2. handler = Undo
    BY <1>1, <1>2, <1>4, <2>1 DEF Kept
  <2>3. QED
    BY <1>3, <2>2 DEF Kept
<1>9. \A op, error : Finish(op, error) => last'.error = error
  BY DEF Finish
<1>10. last'.error = "none" /\ ~unread'
  <2>1. CASE ~unread
    <3>1. (\E op : Finish(op, "none")) /\ UNCHANGED flags
      BY <1>5, <1>6, <2>1 DEF FetchOne, FetchAll
    <3>2. QED
      BY <1>9, <2>1, <3>1 DEF flags
  <2>2. CASE unread /\ c = "fetchone"
    <3>1. FetchReads(cursor)
      BY <1>3, <1>5, <2>2 DEF CallConnector, FetchOne
    <3>2. /\ Finish("fetchone", "none")
          /\ FetchedEnd(cursor) \/ FetchedRow(cursor) \/ FetchedLast(cursor)
      BY <1>1, <1>2, <3>1, FetchOneSteady
    <3>3. cursors[cursor].ahead = <<>> /\ Len(wire) <= 2 /\ wire \in Seq(Packets)
      BY <1>1, <1>4, <2>2 DEF Calm, Inv1, Types
    <3>4. Len(Avail(cursor)) <= 2
      <4>1. Avail(cursor) = <<>> \o wire
        BY <3>3 DEF Avail
      <4>2. <<>> \o wire = wire
        BY <3>3
      <4>3. QED
        BY <3>3, <4>1, <4>2
    <3>5. ~FetchedRow(cursor)
      <4>1. Len(Avail(cursor)) \in Nat
        <5>1. Avail(cursor) = <<>> \o wire
          BY <3>3 DEF Avail
        <5>2. Len(<<>> \o wire) \in Nat
          BY <3>3
        <5>3. QED
          BY <5>1, <5>2
      <4>2. \A n \in Nat : n <= 2 => ~(n > 2)
        OBVIOUS
      <4>3. QED
        BY <3>4, <4>1, <4>2 DEF FetchedRow
    <3>6. QED
      BY <1>9, <3>2, <3>5 DEF FetchedEnd, FetchedLast
  <2>3. CASE unread /\ c = "fetchall"
    <3>1. FetchReadsAll(cursor)
      BY <1>2, <1>3, <1>5, <2>3 DEF CallConnector, FetchAll, FetchLost
    <3>2. FetchedAll(cursor) /\ Finish("fetchall", "none")
      BY <1>1, <1>2, <2>3, <3>1, FetchAllSteady
    <3>3. QED
      BY <1>9, <3>2 DEF FetchedAll
  <2>4. QED
    BY <2>1, <2>2, <2>3
<1>11. QED
  BY <1>3, <1>7, <1>8, <1>10, AtOnceSound

(* cursor.close()                                                          *)
LEMMA CloseSound ==
    ASSUME CallsNow("close"), trans' = trans => Kept', ~unread
    PROVE  SoundUp'
<1>1. CloseCursor(cursor) /\ issued' = "close"
  BY DEF CallsNow, CallConnector
<1>2. Finish("close", "none") /\ UNCHANGED <<server, flags>>
  BY <1>1 DEF CloseCursor, RefuseUnread
<1>3. last'.error = "none" /\ pending' = NoCall /\ ~unread' /\ trans' = trans
  BY <1>2 DEF Finish, server, flags
<1>4. QED
  BY <1>1, <1>3, AtOnceSound

(* The next call, whatever it is.                                          *)
LEMMA IssueSound ==
    ASSUME AppInv, link = "up", link' = "up", Issue
    PROVE  SoundUp'
<1>1. PICK c : c = Head(todo)
  OBVIOUS
<1>2. CallsNow(c) /\ todo # <<>> /\ todo' = Tail(todo)
  BY <1>1 DEF Issue, CallsNow
<1>3. Scripted /\ Calm /\ Kept /\ pending = NoCall /\ mode # "idle"
  BY <1>2 DEF CallsNow, AppInv, Sound, SoundUp
<1>4. /\ c \in Calls
      /\ mode = "try" => c \in After(handler, issued)
      /\ mode = "handle" => \/ todo = Undo /\ c = "rollback"
                            \/ todo = Close /\ c = "close"
  BY <1>1, <1>2, <1>3, NextCall
<1>5. CASE mode = "try"
  <2>1. CASE c = "close"
    <3>1. issued = "commit" \/ (issued = "fetchall" /\ handler = <<>>)
      BY <1>4, <1>5, <2>1 DEF After
    <3>2. ~unread
      BY <1>3, <3>1 DEF Calm
    <3>3. trans # "dirty"
      BY <1>3, <1>5, <3>1, Handlers DEF Kept
    <3>4. trans' = trans => Kept'
      BY <3>3 DEF Kept
    <3>5. QED
      BY <1>2, <2>1, <3>2, <3>4, CloseSound
  <2>2. c # "rollback"
    BY <1>4, <1>5 DEF After
  <2>3. CASE c \in {"get", "start", "cursor", "commit", "select", "selectone", "write"}
    BY <1>2, <1>4, <1>5, <2>3, SendSound
  <2>4. CASE c = "reset"
    BY <1>2, <1>4, <1>5, <2>4, RollbackSound
  <2>5. CASE c \in {"fetchone", "fetchall"}
    BY <1>2, <1>4, <1>5, <2>5, FetchSound
  <2>6. QED
    BY <1>4, <2>1, <2>2, <2>3, <2>4, <2>5 DEF Calls
<1>6. CASE mode = "handle"
  <2>1. CASE c = "rollback"
    BY <1>2, <1>6, <2>1, RollbackSound
  <2>2. CASE todo = Close /\ c = "close"
    <3>1. ~unread
      BY <1>3, <1>6 DEF Calm
    <3>2. trans # "dirty"
      BY <1>3, <1>6, <2>2, Handlers DEF Kept
    <3>3. trans' = trans => Kept'
      BY <3>2 DEF Kept
    <3>4. QED
      BY <1>2, <2>2, <3>1, <3>3, CloseSound
  <2>3. QED
    BY <1>4, <1>6, <2>1, <2>2
<1>7. QED
  BY <1>3, <1>5, <1>6 DEF Scripted

(* The steps of the application are steps of its connection.               *)
LEMMA AppSteps ==
    ASSUME [AppNext]_appVars
    PROVE  [Next]_vars
<1>1. cursor \in Cursors
  BY AppAssumption
<1>2. ASSUME NEW c, CallConnector(c) PROVE Next
  <2>1. CASE FetchOne(cursor) \/ FetchAll(cursor) \/ NewCursor(cursor) \/ CloseCursor(cursor)
    BY <1>1, <2>1 DEF Next, Client, CursorCall
  <2>2. CASE c \in {"select", "selectone", "write"} /\ Execute(cursor, c)
    BY <1>1, <2>2 DEF Next, Client, CursorCall
  <2>3. QED
    BY <1>2, <2>1, <2>2 DEF CallConnector, Next, Client
<1>3. CASE Issue
  BY <1>2, <1>3 DEF Issue
<1>4. CASE Receive \/ Lost \/ Answer \/ Break
  BY <1>4 DEF Next, Client
<1>5. CASE UNCHANGED vars
  BY <1>5
<1>6. CASE Except \/ Object \/ Return \/ \E m \in Methods : Begin(m)
  BY <1>6 DEF Except, Object, Unwind, Return, Begin
<1>7. QED
  BY <1>3, <1>4, <1>5, <1>6 DEF AppNext, Method, Server, appVars

(* Only get_connection() brings a lost link up again.                      *)
LEMMA UpAgain ==
    ASSUME AppInv, [AppNext]_appVars, link # "up", link' = "up"
    PROVE  Reopen /\ issued' = "get"
<1>1. \A op : RefuseUnread(op) => link' = link
  BY DEF RefuseUnread
<1>2. \A op, k, kind : Transmit(op, k, kind) => link' = link
  BY DEF Transmit
<1>3. \A op, k, kind : Send(op, k, kind) => link' = link
  BY <1>2 DEF Send
<1>4. ASSUME NEW error, NEW rest, Failed(error, rest), pending # NoCall, UNCHANGED script
      PROVE  Reopen /\ issued' = "get"
  <2>1. pending.op = OpOf(issued) /\ issued \in Calls \cup {"none"} /\ issued' = issued
    BY <1>4 DEF AppInv, Scripted, script
  <2>2. pending.op # "ping" /\ (pending.op = "get" => issued = "get")
    BY <2>1 DEF OpOf, Calls
  <2>3. pending.op = "get"
    BY <1>4, <2>2 DEF Failed
  <2>4. QED
    BY <1>4, <2>1, <2>2, <2>3 DEF Failed
<1>5. CASE (Receive \/ Lost) /\ UNCHANGED script
  BY <1>4, <1>5 DEF Receive, Lost
<1>6. CASE Issue
  <2>1. PICK c : c = Head(todo)
    OBVIOUS
  <2>2. CallConnector(c) /\ issued' = c
    BY <1>6, <2>1 DEF Issue
  <2>3. CASE Commit \/ Rollback \/ Start
    BY <1>1, <1>2, <1>3, <2>3 DEF Commit, Rollback, Start
  <2>4. CASE \/ NewCursor(cursor) \/ CloseCursor(cursor)
             \/ FetchOne(cursor) \/ FetchAll(cursor) \/ Execute(cursor, c)
    BY <1>1, <1>3, <2>4 DEF NewCursor, CloseCursor, Execute, FetchOne, FetchAll
  <2>5. CASE c = "get" /\ GetConnection
    BY <1>3, <2>2, <2>5 DEF GetConnection
  <2>6. QED
    BY <2>2, <2>3, <2>4, <2>5 DEF CallConnector
<1>7. CASE Answer \/ Break \/ UNCHANGED vars
  BY <1>7 DEF Answer, Break, vars
<1>8. CASE Except \/ Object \/ Return \/ \E m \in Methods : Begin(m)
  BY <1>8 DEF Except, Object, Unwind, Return, Begin, vars
<1>9. QED
  BY <1>5, <1>6, <1>7, <1>8 DEF AppNext, Method, Server, appVars

(* Every step of the application keeps the invariant.                      *)
LEMMA StepSound ==
    ASSUME AppInv, [AppNext]_appVars
    PROVE  AppInv'
<1>1. Inv2' /\ Scripted'
  BY AppSteps, StepTypes, StepSteady, ScriptSteps DEF AppInv, Inv2
<1>2. SUFFICES ASSUME link' = "up" PROVE SoundUp'
  BY <1>1 DEF AppInv, Sound
<1>3. CASE link # "up"
  BY <1>2, <1>3, UpAgain, ReopenSound
<1>4. CASE link = "up"
  <2>1. CASE Answer /\ UNCHANGED script
    BY <1>4, <2>1, AnswerSound
  <2>2. CASE Receive /\ UNCHANGED script
    BY <1>4, <2>2, ReceiveSound
  <2>3. CASE Lost \/ Break
    BY <1>2, <1>4, <2>3 DEF Lost, Break
  <2>4. CASE Issue
    BY <1>2, <1>4, <2>4, IssueSound
  <2>5. CASE Except \/ Object \/ Return \/ \E m \in Methods : Begin(m)
    BY <1>4, <2>5, QuietSound
  <2>6. CASE UNCHANGED appVars
    BY <1>4, <2>6 DEF AppInv, Sound, SoundUp, Kept, Calm, Busy, Waiting, Asked, Answered,
                      AnsweredOk, AnsweredErr, AnsweredRows, Noticed, appVars, vars, script,
                      server, flags
  <2>7. QED
    BY <2>1, <2>2, <2>3, <2>4, <2>5, <2>6 DEF AppNext, Method, Server
<1>5. QED
  BY <1>3, <1>4

(* The application starts in it.                                           *)
LEMMA InitSound == AppInit => AppInv
<1> SUFFICES ASSUME AppInit PROVE AppInv
  OBVIOUS
<1>1. Init
  BY DEF AppInit
<1>2. Inv2
  BY <1>1, InitTypes DEF Inv2, Init, Steady, Resting, Noticed
<1>3. Scripted
  BY <1>1 DEF AppInit, Init, Scripted
<1>4. SoundUp
  BY <1>1 DEF AppInit, Init, SoundUp, Kept, Calm
<1>5. QED
  BY <1>2, <1>3, <1>4 DEF AppInv, Sound

(* It always holds.                                                        *)
LEMMA AppInvariant == AppSpec => []AppInv
  BY InitSound, StepSound, PTL DEF AppSpec

(* While the link is up no call of any method is refused by the connector: *)
(* the order in which Category, Product, Customer, Order and the screens   *)
(* call get_connection(), rollback(), start_transaction(), execute(),      *)
(* fetchone() or fetchall(), commit() and close() never meets unread rows, *)
(* an open transaction or a missing result.                                *)
THEOREM NeverRefused == AppSpec => []AppNeverRefused
<1>1. AppInv => AppNeverRefused
  BY DEF AppInv, Sound, SoundUp, AppNeverRefused
<1>2. QED
  BY <1>1, AppInvariant, PTL

(* Between two methods get_connection() finds the connection usable: no    *)
(* method leaves unread rows or packets on it, whatever failed in it.      *)
THEOREM ConnectionKept == AppSpec => []KeepsConnection
<1>1. AppInv => KeepsConnection
  BY DEF AppInv, Inv2, Steady, Resting, Scripted, Sound, SoundUp, Calm, KeepsConnection
<1>2. QED
  BY <1>1, AppInvariant, PTL

(* A method that has returned has committed or rolled back every row it    *)
(* wrote: the commit at the end of its script, the rollback of the except  *)
(* part of Order and of the stock changes, and the one INSERT of the       *)
(* others that leaves nothing when it fails.                               *)
THEOREM RowsEnded == AppSpec => []NoWritesLeft
<1>1. AppInv => NoWritesLeft
  BY DEF AppInv, Sound, SoundUp, Kept, NoWritesLeft
<1>2. QED
  BY <1>1, AppInvariant, PTL

(* The application uses its connection in no other way than Connector      *)
(* says, so that what is proved of Connector holds in it.                  *)
THEOREM AppUsesConnector == AppSpec => Spec
<1>1. AppInit => Init
  BY DEF AppInit
<1>2. [AppNext]_appVars => [Next]_vars
  BY AppSteps
<1>3. QED
  BY <1>1, <1>2, PTL DEF AppSpec, Spec
=============================================================================
