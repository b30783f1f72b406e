------------------------------ MODULE Connector ------------------------------
(***************************************************************************)
(* One connection of the vendored MySQL Connector/Python (pure Python,     *)
(* unbuffered cursors, consume_results off): the commands it sends, the    *)
(* packets the server answers with, the cursors that share the connection, *)
(* and the three things it remembers about the session: whether rows are   *)
(* still unread, whether a transaction is open, and each cursor's row read *)
(* ahead.                                                                  *)
(***************************************************************************)
EXTENDS Naturals, Sequences, SequencesExt

CONSTANTS
    Cursors,        \* the cursor variables of the program
    MaxCommands,    \* bound: the commands sent in a behaviour
    MaxRows,        \* bound: the rows of a result
    Timeouts,       \* TRUE: read_timeout is set and can expire
    None            \* no cursor

ASSUME ConnectorAssumption ==
    /\ MaxCommands \in Nat /\ MaxRows \in Nat \ {0}
    /\ Timeouts \in BOOLEAN
    /\ None \notin Cursors

VARIABLES
    link,       \* the socket and the server session behind it: "up", "down", or
                \* "late", up but a method has given up waiting for its answer
    requests,   \* commands on their way to the server
    wire,       \* packets on their way to the client
    trans,      \* the server's transaction: "none", "clean", or "dirty" rows
    commands,   \* the number of commands so far: the id of the latest
    unread,     \* MySQLConnection._unread_result
    inTrans,    \* MySQLConnection._in_transaction
    cursors,    \* [Cursors -> the fields of the cursor]
    pending,    \* the method that waits for a packet
    last        \* history: the method that returned last, and its error

server == <<requests, wire, trans>>
flags  == <<unread, inTrans>>
vars   == <<link, server, commands, flags, cursors, pending, last>>

NoCall == [op |-> "none", cursor |-> None, id |-> 0]

(* command: the command whose rows the cursor delivers, 0 for _executed =  *)
(* None.  ahead: _nextrow, with at most one row.  got: history, the rows   *)
(* fetched since execute().                                                *)
Closed == [open |-> FALSE, command |-> 0, ahead |-> <<>>, got |-> <<>>]
Fresh  == [Closed EXCEPT !.open = TRUE]

Init ==
    /\ link = "up"
    /\ requests = <<>> /\ wire = <<>> /\ trans = "none"
    /\ commands = 0
    /\ unread = FALSE /\ inTrans = FALSE
    /\ cursors = [k \in Cursors |-> Closed]
    /\ pending = NoCall
    /\ last = [op |-> "none", error |-> "none"]

-----------------------------------------------------------------------------
(* The server (external) answers one command after the other.  status is   *)
(* the SERVER_STATUS_IN_TRANS flag, which an error packet does not carry.  *)
Packet(id, kind, i, status) == [id |-> id, kind |-> kind, i |-> i, status |-> status]

Result(id, n) ==
    <<Packet(id, "columns", 0, TRUE)>>
        \o [i \in 1..n |-> Packet(id, "row", i, TRUE)]
        \o <<Packet(id, "eof", n, TRUE)>>

Reply(packets, after) ==
    /\ requests' = Tail(requests)
    /\ wire' = wire \o packets
    /\ trans' = after

Answer ==
    /\ requests # <<>>
    /\ LET id   == Head(requests).id
           kind == Head(requests).kind
           Ok(after) == Reply(<<Packet(id, "ok", 0, after # "none")>>, after)
           Err(after) == Reply(<<Packet(id, "err", 0, FALSE)>>, after)
           opened == IF trans = "none" THEN "clean" ELSE trans
       IN
       \/ kind = "ping" /\ Ok(trans)
       \/ kind = "end" /\ Ok("none")
       \/ kind = "start" /\ Ok("clean")
       \/ kind = "write" /\ Ok("dirty")
       \/ /\ kind = "select"
          /\ \E n \in 0..MaxRows : Reply(Result(id, n), opened)
       \/ /\ kind = "selectone"
          /\ \E n \in {0, 1} : Reply(Result(id, n), opened)
       \/ /\ kind \in {"select", "selectone", "write"}
          /\ \E after \in {opened, "none"} : Err(after)
    /\ UNCHANGED <<link, commands, flags, cursors, pending, last>>

(* The connection breaks; what the socket had received can still be read.  *)
Break ==
    /\ link # "down"
    /\ link' = "down"
    /\ requests' = <<>>
    /\ \E n \in 0..Len(wire) : wire' = SubSeq(wire, 1, n)
    /\ trans' = "none"
    /\ UNCHANGED <<commands, flags, cursors, pending, last>>

-----------------------------------------------------------------------------
(* A method returns, or raises error.                                      *)
Finish(op, error) ==
    /\ pending' = NoCall
    /\ last' = [op |-> op, error |-> error]

Idle == pending = NoCall

(* handle_unread_result() raises.                                          *)
RefuseUnread(op) ==
    /\ unread
    /\ Finish(op, "unread")
    /\ UNCHANGED <<link, server, commands, flags, cursors>>

(* The command leaves, or the broken socket raises.                        *)
Transmit(op, k, kind) ==
    /\ commands < MaxCommands
    /\ commands' = commands + 1
    /\ IF link # "down"
         THEN /\ requests' = Append(requests, [id |-> commands', kind |-> kind])
              /\ pending' = [op |-> op, cursor |-> k, id |-> commands']
              /\ UNCHANGED last
         ELSE Finish(op, "lost") /\ UNCHANGED requests
    /\ UNCHANGED link

(* Faulty: the socket is used although rows are unread.                    *)
Faulty_Send(op, k, kind) ==
    /\ Transmit(op, k, kind)
    /\ UNCHANGED <<wire, trans>>

(* _send_cmd: nothing is sent while rows are unread.                       *)
Send(op, k, kind) ==
    /\ ~unread
    /\ Transmit(op, k, kind)
    /\ UNCHANGED <<wire, trans>>

(* cmd_query through commit(), and start_transaction()'s check.            *)
Commit ==
    /\ Idle
    /\ \/ RefuseUnread("commit")
       \/ Send("commit", None, "end") /\ UNCHANGED <<flags, cursors>>

Start ==
    /\ Idle
    /\ IF inTrans
         THEN /\ Finish("start", "in progress")
              /\ UNCHANGED <<link, server, commands, flags, cursors>>
         ELSE \/ RefuseUnread("start")
              \/ Send("start", None, "start") /\ UNCHANGED <<flags, cursors>>

EofAt == SelectInSeq(wire, LAMBDA p : p.kind = "eof")

(* rollback(): the unread rows are read and dropped first, behind the      *)
(* backs of the cursors.                                                   *)
Rollback ==
    /\ Idle
    /\ UNCHANGED cursors
    /\ \/ Send("rollback", None, "end") /\ UNCHANGED flags
       \/ /\ unread /\ EofAt # 0
          /\ unread' = FALSE
          /\ inTrans' = wire[EofAt].status
          /\ wire' = SubSeq(wire, EofAt + 1, Len(wire))
          /\ Transmit("rollback", None, "end")
          /\ UNCHANGED trans
       \/ /\ unread /\ EofAt = 0 /\ link = "down"
          /\ unread' = FALSE /\ wire' = <<>>
          /\ Finish("rollback", "lost")
          /\ UNCHANGED <<link, requests, trans, commands, inTrans>>

(* connection.cursor(): is_connected() sends a PING.                       *)
NewCursor(k) ==
    /\ Idle
    /\ UNCHANGED <<flags, cursors>>
    /\ \/ RefuseUnread("cursor")
       \/ Send("cursor", k, "ping")

(* cursor.execute(): the earlier result is reset, then the statement sent. *)
Execute(k, kind) ==
    /\ Idle /\ cursors[k].open
    /\ \/ RefuseUnread("execute")
       \/ /\ Send("execute", k, kind)
          /\ cursors' = [cursors EXCEPT ![k] = [Fresh EXCEPT !.command = commands']]
          /\ UNCHANGED flags

(* Faulty: the cursor lets go of the connection and keeps its result.      *)
Faulty_CloseCursor(k) ==
    /\ Idle /\ cursors[k].open
    /\ \/ RefuseUnread("close")
       \/ /\ ~unread
          /\ cursors' = [cursors EXCEPT ![k].open = FALSE]
          /\ Finish("close", "none")
          /\ UNCHANGED <<link, server, commands, flags>>

(* cursor.close()                                                          *)
CloseCursor(k) ==
    /\ Idle /\ cursors[k].open
    /\ \/ RefuseUnread("close")
       \/ /\ ~unread
          /\ cursors' = [cursors EXCEPT ![k] = Closed]
          /\ Finish("close", "none")
          /\ UNCHANGED <<link, server, commands, flags>>

-----------------------------------------------------------------------------
(* A new socket and server session; the old session's transaction is gone. *)
NewSession(up) ==
    /\ link' = IF up THEN "up" ELSE "down"
    /\ requests' = <<>> /\ wire' = <<>> /\ trans' = "none"

(* reconnect(): close(), connect() and _post_connection(), whose SET       *)
(* commands are refused while unread_result is still TRUE.  By then the OK *)
(* of the new session has told that no transaction is open.                *)
Reconnect(op) ==
    /\ UNCHANGED <<commands, unread, cursors>>
    /\ \/ /\ NewSession(FALSE)
          /\ Finish(op, "unreachable")
          /\ UNCHANGED inTrans
       \/ /\ NewSession(TRUE)
          /\ Finish(op, IF unread THEN "not reconnected" ELSE "none")
          /\ inTrans' = FALSE

(* ping(reconnect=True)                                                    *)
Ping ==
    /\ Idle
    /\ IF unread \/ link = "down" THEN Reconnect("ping")
       ELSE Send("ping", None, "ping") /\ UNCHANGED <<flags, cursors>>

(* DatabaseConnection.get_connection() makes a new connection object when  *)
(* is_connected() is FALSE; the cursors of the old one are dead.           *)
Reopen ==
    \/ /\ NewSession(TRUE)
       /\ unread' = FALSE /\ inTrans' = FALSE
       /\ cursors' = [k \in Cursors |-> Closed]
       /\ Finish("get", "none")
       /\ UNCHANGED commands
    \/ /\ NewSession(FALSE)
       /\ Finish("get", "unreachable")
       /\ UNCHANGED <<commands, flags, cursors>>

GetConnection ==
    /\ Idle
    /\ IF unread \/ link = "down" THEN Reopen
       ELSE Send("get", None, "ping") /\ UNCHANGED <<flags, cursors>>

(* The pending method gets no packet it can use; rest stays on the wire.   *)
Failed(error, rest) ==
    CASE pending.op = "get"  -> Reopen
      [] pending.op = "ping" -> Reconnect("ping")
      [] OTHER -> /\ wire' = rest
                  /\ Finish(pending.op, error)
                  /\ link' = IF error = "timeout" THEN "late" ELSE link
                  /\ UNCHANGED <<requests, trans, commands, flags, cursors>>

(* Faulty: the status flags of OK packets are not looked at.               *)
Faulty_HandleOk(p) ==
    /\ unread' = FALSE
    /\ UNCHANGED inTrans

(* _handle_ok and _handle_server_status, and the cursor's _handle_result.  *)
HandleOk(p) ==
    /\ unread' = IF pending.op = "execute" THEN FALSE ELSE unread
    /\ inTrans' = p.status

(* A packet arrives for the pending method: _handle_ok for a PING, else    *)
(* _handle_result.  A PING takes nothing but OK; the EOF of a result nobody*)
(* waits for any more satisfies everyone but the cursor, who has no use for*)
(* it.                                                                     *)
Receive ==
    /\ pending # NoCall /\ wire # <<>>
    /\ LET p == Head(wire)
           probe == pending.op \in {"get", "ping", "cursor"}
       IN
       CASE p.kind = "ok" ->
              /\ wire' = Tail(wire)
              /\ HandleOk(p)
              /\ cursors' = IF pending.op = "cursor"
                              THEN [cursors EXCEPT ![pending.cursor] = Fresh]
                              ELSE cursors
              /\ Finish(pending.op, "none")
              /\ UNCHANGED <<link, requests, trans, commands>>
         [] p.kind = "columns" /\ ~probe ->
              /\ wire' = Tail(wire)
              /\ unread' = TRUE
              /\ inTrans' = p.status
              /\ Finish(pending.op, "none")
              /\ UNCHANGED <<link, requests, trans, commands, cursors>>
         [] p.kind = "eof" /\ ~probe ->
              /\ wire' = Tail(wire)
              /\ inTrans' = p.status
              /\ Finish(pending.op, IF pending.op = "execute" THEN "garbage" ELSE "none")
              /\ UNCHANGED <<link, requests, trans, commands, unread, cursors>>
         [] OTHER -> Failed(IF p.kind = "err" THEN "server" ELSE "garbage", Tail(wire))

Lost ==
    /\ pending # NoCall /\ wire = <<>> /\ link = "down"
    /\ Failed("lost", <<>>)

(* The answer is late: ReadTimeoutError.  handle_read_write_timeout closes *)
(* the connection for Python's TimeoutError only, which this is not.       *)
TimeOut ==
    /\ Timeouts
    /\ pending # NoCall /\ wire = <<>> /\ link # "down"
    /\ Failed("timeout", <<>>)

-----------------------------------------------------------------------------
(* fetchone() delivers the row read ahead, or the next of the wire, and    *)
(* reads one more to see the end.                                          *)
Delivered(k, row, ahead) ==
    [cursors EXCEPT ![k].got = Append(@, row), ![k].ahead = ahead]

(* The packet p ends the rows: _handle_eof.                                *)
EndOfRows(p) == unread' = FALSE /\ inTrans' = p.status

(* Faulty: the broken link is noticed only by a read that gets a packet.   *)
Faulty_FetchLost(op) ==
    /\ link = "down" /\ wire # <<>>
    /\ unread' = FALSE /\ wire' = <<>>
    /\ Finish(op, "lost")
    /\ UNCHANGED <<inTrans, cursors>>

(* get_rows: the error that ends the reading clears unread_result.         *)
FetchLost(op) ==
    /\ link = "down"
    /\ unread' = FALSE /\ wire' = <<>>
    /\ Finish(op, "lost")
    /\ UNCHANGED <<inTrans, cursors>>

FetchReads(k) ==
    LET avail == cursors[k].ahead \o wire
        Ends(i) == i \in DOMAIN avail /\ avail[i].kind # "row"
        Rows(i) == i \in DOMAIN avail /\ avail[i].kind = "row"
        TakeFirst(n) == wire' = SubSeq(avail, n + 1, Len(avail)) /\ Finish("fetchone", "none")
    IN
    CASE Ends(1) ->
           /\ TakeFirst(1)
           /\ EndOfRows(avail[1])
           /\ UNCHANGED cursors
      [] Rows(1) /\ Rows(2) ->
           /\ TakeFirst(2)
           /\ cursors' = Delivered(k, avail[1], <<avail[2]>>)
           /\ UNCHANGED flags
      [] Rows(1) /\ Ends(2) ->
           /\ TakeFirst(2)
           /\ cursors' = Delivered(k, avail[1], <<>>)
           /\ EndOfRows(avail[2])
      [] OTHER -> FetchLost("fetchone")

FetchOne(k) ==
    /\ Idle /\ cursors[k].open
    /\ IF cursors[k].command = 0 \/ ~unread
         THEN /\ Finish("fetchone", IF cursors[k].command = 0 THEN "no result" ELSE "none")
              /\ UNCHANGED <<wire, flags, cursors>>
         ELSE FetchReads(k)
    /\ UNCHANGED <<link, requests, trans, commands>>

(* Faulty: the row read ahead is forgotten.                                *)
Faulty_FetchReadsAll(k) ==
    /\ EofAt # 0
    /\ cursors' = [cursors EXCEPT ![k].got = @ \o SubSeq(wire, 1, EofAt - 1),
                                  ![k].ahead = <<>>]
    /\ EndOfRows(wire[EofAt])
    /\ wire' = SubSeq(wire, EofAt + 1, Len(wire))
    /\ Finish("fetchall", "none")

(* All rows up to the EOF, with the row read ahead in front.               *)
FetchReadsAll(k) ==
    /\ EofAt # 0
    /\ cursors' = [cursors EXCEPT
          ![k].got = @ \o cursors[k].ahead \o SubSeq(wire, 1, EofAt - 1),
          ![k].ahead = <<>>]
    /\ EndOfRows(wire[EofAt])
    /\ wire' = SubSeq(wire, EofAt + 1, Len(wire))
    /\ Finish("fetchall", "none")

FetchAll(k) ==
    /\ Idle /\ cursors[k].open
    /\ IF cursors[k].command = 0 \/ ~unread
         THEN /\ Finish("fetchall", IF cursors[k].command = 0 THEN "no result" ELSE "none")
              /\ UNCHANGED <<wire, flags, cursors>>
         ELSE \/ FetchReadsAll(k)
              \/ EofAt = 0 /\ FetchLost("fetchall")
    /\ UNCHANGED <<link, requests, trans, commands>>

(* get_rows: a read timeout clears unread_result; the rows read so far are *)
(* lost, and the others are still on their way.                            *)
StopReading(op, read) ==
    /\ link' = "late"
    /\ read <= Len(wire) /\ \A i \in 1..read : wire[i].kind = "row"
    /\ wire' = SubSeq(wire, read + 1, Len(wire))
    /\ unread' = FALSE
    /\ Finish(op, "timeout")
    /\ UNCHANGED <<requests, trans, commands, inTrans, cursors>>

(* A row is late: in rollback(), in fetchall(), or in fetchone(), which    *)
(* asks for a second row if it has a first; a row read ahead stays.        *)
RowsTimeOut ==
    /\ Timeouts
    /\ Idle /\ unread /\ link # "down"
    /\ \/ \E read \in 0..MaxRows : StopReading("rollback", read)
       \/ \E k \in Cursors :
             /\ cursors[k].open /\ cursors[k].command # 0
             /\ \/ \E read \in 0..MaxRows : StopReading("fetchall", read)
                \/ StopReading("fetchone", 0)
                \/ cursors[k].ahead = <<>> /\ StopReading("fetchone", 1)

CursorCall(k) ==
    \/ NewCursor(k) \/ CloseCursor(k) \/ FetchOne(k) \/ FetchAll(k)
    \/ \E kind \in {"select", "selectone", "write"} : Execute(k, kind)

Client ==
    \/ Commit \/ Rollback \/ Start \/ Ping \/ GetConnection
    \/ \E k \in Cursors : CursorCall(k)
    \/ Receive \/ Lost \/ TimeOut \/ RowsTimeOut

Next == Client \/ Answer \/ Break

Spec == Init /\ [][Next]_vars

-----------------------------------------------------------------------------
Packets == [id : 1..MaxCommands, kind : {"ok", "err", "columns", "row", "eof"},
            i : 0..MaxRows, status : BOOLEAN]

(* Every variable holds values of its type; a closed cursor keeps nothing. *)
TypeOK ==
    /\ link \in {"up", "late", "down"} /\ trans \in {"none", "clean", "dirty"}
    /\ requests \in Seq([id : 1..MaxCommands, kind : {"ping", "end", "start", "write",
                                                      "select", "selectone"}])
    /\ wire \in Seq(Packets)
    /\ commands \in 0..MaxCommands
    /\ unread \in BOOLEAN /\ inTrans \in BOOLEAN
    /\ \A k \in Cursors :
          /\ cursors[k] \in [open : BOOLEAN, command : 0..MaxCommands,
                             ahead : Seq(Packets), got : Seq(Packets)]
          /\ Len(cursors[k].ahead) <= 1
          /\ cursors[k].open \/ cursors[k] = Closed
    /\ pending.cursor \in Cursors \cup {None} /\ pending.id \in 0..MaxCommands

(* Unless a method gave up on its answer, the connection is in step with   *)
(* the server: what is on its way is for the pending method, and between   *)
(* two methods packets wait only while unread_result is TRUE.              *)
InStep ==
    link = "up" =>
        IF pending # NoCall
          THEN /\ ~unread
               /\ \A i \in DOMAIN wire : wire[i].id = pending.id
               /\ \A i \in DOMAIN requests : requests[i].id = pending.id
          ELSE requests = <<>> /\ (wire # <<>> => unread)

(* fetchone() and fetchall() that come to the end of a result have         *)
(* delivered all of it, in order: with the row read ahead, none is lost or *)
(* repeated, unless another cursor that has executed a statement shares the*)
(* connection or a method gave up on its answer.                           *)
FetchesAllRows ==
    [][\A k \in Cursors :
          /\ link = "up"
          /\ last'.op \in {"fetchone", "fetchall"} /\ last'.error = "none"
          /\ pending' = NoCall /\ unread /\ ~unread'
          /\ cursors[k].command = wire[EofAt].id
          /\ \A other \in Cursors \ {k} : cursors[other].command = 0
          => cursors'[k].got = [i \in 1..wire[EofAt].i |->
                                  Packet(cursors[k].command, "row", i, TRUE)]]_vars

(* START TRANSACTION commits what is open, but start_transaction() refuses *)
(* in a transaction: unless a method gave up on its answer, it never       *)
(* publishes rows half way.                                                *)
StartPublishesNothing ==
    link = "up" => \A i \in DOMAIN requests : requests[i].kind = "start" => trans # "dirty"
=============================================================================
