----------------------------- MODULE AppSession -----------------------------
(***************************************************************************)
(* The application on its one connection: every Active Record method and   *)
(* every screen as the sequence of connector calls it makes, with its      *)
(* try, except and finally.  The calls themselves are those of Connector.  *)
(***************************************************************************)
EXTENDS Connector

CONSTANTS
    cursor,     \* the cursor variable of the running method
    Methods     \* the methods this instance calls

ASSUME AppAssumption ==
    /\ Cursors = {cursor}
    /\ Methods \subseteq {"order", "category", "product", "customer", "screen"}

VARIABLES
    todo,       \* the calls the running method still makes
    handler,    \* the calls of its except and finally parts
    issued,     \* the latest call of the running method
    mode        \* "idle", "try", or "handle" while the handler runs

script  == <<todo, handler, issued, mode>>
appVars == <<vars, script>>

AppInit ==
    /\ Init
    /\ todo = <<>> /\ handler = <<>>
    /\ issued = "none" /\ mode = "idle"

-----------------------------------------------------------------------------
(* "reset" is the rollback() under `try: ... except: pass`.                *)
Lead  == <<"get", "reset", "start", "cursor">>
Short == <<"get", "cursor">>
Done  == <<"commit", "close">>
Read1 == <<"selectone", "fetchone">>
Read  == <<"select", "fetchall">>

(* Faulty: a failed method only closes its cursor.                         *)
Faulty_Undo == <<"close">>

(* The except and finally parts of the methods.                            *)
Undo  == <<"rollback", "close">>
Close == <<"close">>

Script(calls, h) == [calls |-> calls, handler |-> h]

(* Faulty: a name is not unique among the categories.                      *)
Faulty_Category(found) ==
    Script(Short \o <<"select", "fetchone">>
                 \o (IF found THEN <<>> ELSE <<"write">>) \o Done, Close)

(* Category.save()                                                         *)
Category(found) ==
    Script(Short \o Read1 \o (IF found THEN <<>> ELSE <<"write">>) \o Done, Close)

(* Order.save_transaction() with one item.                                 *)
OrderSave ==
    Script(Lead \o Read1 \o <<"write">> \o Read1 \o <<"write", "write">> \o Done, Undo)

(* Order.update_status()                                                   *)
OrderStatus(cancels) ==
    Script(Lead \o Read1 \o <<"write">>
                \o (IF cancels THEN Read \o <<"write">> ELSE <<>>) \o Done, Undo)

(* Order.delete_transaction()                                              *)
OrderDelete(returns) ==
    Script(Lead \o Read1 \o (IF returns THEN Read \o <<"write">> ELSE <<>>)
                \o <<"write", "write">> \o Done, Undo)

ProductSave  == Script(<<"get", "reset", "cursor", "write">> \o Done, Close)
StockChange  == Script(Short \o <<"write">> \o Done, Undo)
CustomerSave == Script(Short \o <<"write">> \o Done, Close)

(* Faulty: the first row is enough for the screen.                         *)
Faulty_Load == Script(Short \o <<"select", "fetchone">>, <<>>)

(* load_products(), load_customers(), load_report() and export_csv(), and  *)
(* refresh_dropdowns(): no handler closes the cursor.                      *)
Load     == Script(Short \o Read \o Close, <<>>)
Dropdown == Script(Short \o Read \o Read \o Close, <<>>)

ScriptsOf(m) ==
    CASE m = "order"    -> {OrderSave}
                             \cup {OrderStatus(c) : c \in BOOLEAN}
                             \cup {OrderDelete(r) : r \in BOOLEAN}
      [] m = "category" -> {Category(f) : f \in BOOLEAN}
      [] m = "product"  -> {ProductSave, StockChange}
      [] m = "customer" -> {CustomerSave}
      [] m = "screen"   -> {Load, Dropdown}

-----------------------------------------------------------------------------
CallConnector(op) ==
    \/ op = "get" /\ GetConnection
    \/ op \in {"reset", "rollback"} /\ Rollback
    \/ op = "start" /\ Start
    \/ op = "cursor" /\ NewCursor(cursor)
    \/ op = "fetchone" /\ FetchOne(cursor)
    \/ op = "fetchall" /\ FetchAll(cursor)
    \/ op = "commit" /\ Commit
    \/ op = "close" /\ CloseCursor(cursor)
    \/ op \in {"select", "selectone", "write"} /\ Execute(cursor, op)

Longest == 12   \* bound: the commands of the longest script and its handler

Begin(m) ==
    /\ mode = "idle" /\ commands + Longest <= MaxCommands
    /\ \E s \in ScriptsOf(m) : todo' = s.calls /\ handler' = s.handler
    /\ issued' = "none" /\ mode' = "try"
    /\ UNCHANGED vars

Raised ==
    /\ mode = "try" /\ issued \notin {"none", "reset"}
    /\ last.error # "none"

(* The next call; an error of the handler's rollback() still runs close(). *)
Issue ==
    /\ mode # "idle" /\ pending = NoCall /\ todo # <<>> /\ ~Raised
    /\ CallConnector(Head(todo))
    /\ issued' = Head(todo) /\ todo' = Tail(todo)
    /\ UNCHANGED <<handler, mode>>

Unwind ==
    /\ IF issued \in {"get", "start", "cursor"}
         THEN mode' = "idle" /\ todo' = <<>>
         ELSE mode' = "handle" /\ todo' = handler
    /\ UNCHANGED <<vars, handler, issued>>

Except == pending = NoCall /\ Raised /\ Unwind

(* The method itself raises: a ValueError about a row, an error of the     *)
(* window or of the exported file.                                         *)
Object ==
    /\ mode = "try" /\ pending = NoCall /\ ~Raised
    /\ \/ handler = Undo /\ issued \in {"fetchone", "write"}
       \/ handler = <<>> /\ issued = "fetchall"
    /\ Unwind

Return ==
    /\ mode # "idle" /\ pending = NoCall /\ todo = <<>> /\ ~Raised
    /\ mode' = "idle"
    /\ UNCHANGED <<vars, todo, handler, issued>>

Method == Issue \/ Except \/ Return \/ ((Receive \/ Lost) /\ UNCHANGED script)
Server == Answer /\ UNCHANGED script

AppNext ==
    \/ \E m \in Methods : Begin(m)
    \/ Method \/ Object \/ Server
    \/ Break /\ UNCHANGED script

AppSpec == AppInit /\ [][AppNext]_appVars

(* The running method goes on and the server answers; nothing else must    *)
(* happen.                                                                 *)
FairAppSpec == AppSpec /\ WF_appVars(Method) /\ WF_appVars(Server)

-----------------------------------------------------------------------------
(* While the link is up a call of the application fails only by an error   *)
(* of the server: no "Unread result found", no "Transaction already in     *)
(* progress", no "No result set to fetch from".                            *)
AppNeverRefused == link = "up" => last.error \in {"none", "server"}

(* Between two methods no rows are unread, so that is_connected() is TRUE  *)
(* and get_connection() keeps the connection while the link is up.         *)
KeepsConnection == mode = "idle" /\ link = "up" => ~unread /\ wire = <<>>

(* A method that has returned leaves no uncommitted rows behind, whatever  *)
(* failed in it: at most a read view or locks.                             *)
NoWritesLeft == mode = "idle" /\ link = "up" => trans # "dirty"

(* Every method comes to its end, also when the server goes away between   *)
(* two rows.                                                               *)
MethodsReturn == mode # "idle" ~> mode = "idle"
=============================================================================
