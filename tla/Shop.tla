-------------------------------- MODULE Shop --------------------------------
(***************************************************************************)
(* What the Active Record classes of src/models share: the tables products,*)
(* orders and order_items, the database sessions, and the way every method *)
(* ends, by COMMIT or by the except branch's ROLLBACK.  A client is one    *)
(* running application; it is single-threaded (Tkinter), so it has at most *)
(* one method under way.  Between two SQL statements of a method, other    *)
(* clients' statements may run.                                            *)
(***************************************************************************)
EXTENDS Integers, Sequences, FiniteSets

CONSTANTS
    Clients,        \* running applications connected to one database
    Products,       \* product ids
    LineLists,      \* the item lists orders are created with
    InitialStock,   \* [Products -> Nat or Absent]: the products table at start
    NewStock,       \* the stock quantities a new product is saved with
    NewStatuses,    \* the statuses orders are set to
    MaxInt,         \* the largest value of an INT column
    MaxOrders,      \* bound: the order ids AUTO_INCREMENT can hand out
    MaxQty,         \* bound: the largest quantity a restock adds
    MaxRestocks,    \* bound: the number of calls of add_stock
    Ops,            \* the methods the clients of this instance call
    Serial,         \* TRUE: methods of two applications never overlap
    Absent,         \* a row that does not exist
    NoView          \* no read view is open

OrderIds == 1..MaxOrders
Statuses == {"PENDING", "PAID", "SHIPPED", "CANCELLED"}

(* One item of Order.items.  qty = 0 stands for every item the validation  *)
(* refuses: no product id, no quantity, or a quantity that is not positive.*)
Line == [product : Products, qty : Nat]

(* A product row keeps, next to stock_quantity, a history column: the units *)
(* ever supplied (saved with the product or added by a restock).           *)
ProductRow == [stock : 0..MaxInt, supplied : Nat]

NewProduct(n) == [stock |-> n, supplied |-> n]

ASSUME ShopAssumption ==
    /\ MaxOrders \in Nat /\ MaxQty \in Nat /\ MaxRestocks \in Nat
    /\ MaxInt \in Nat
    /\ Absent \notin Statuses /\ Absent \notin ProductRow /\ Absent \notin Seq(Line)
    /\ LineLists \subseteq Seq(Line) \ {<<>>}
    /\ \A p \in Products : InitialStock[p] # Absent => InitialStock[p] \in 0..MaxInt
    /\ NewStock \subseteq 0..MaxInt
    /\ NewStatuses \subseteq Statuses
    /\ Serial \in BOOLEAN

Prod(p)  == <<"products", p>>
Ord(o)   == <<"orders", o>>
Items(o) == <<"order_items", o>>     \* all order_items rows of order o

ProdRows == {Prod(p) : p \in Products}
OrdRows  == {Ord(o) : o \in OrderIds}
ItemRows == {Items(o) : o \in OrderIds}
Rows     == ProdRows \cup OrdRows \cup ItemRows

VARIABLES
    newest, committed, view, written, xlock, slock,     \* see InnoDB
    pc,         \* [Clients -> label]: the statement the client sends next
    job,        \* [Clients -> arguments and locals of the running method]
    nextOrder,  \* AUTO_INCREMENT counter of orders, never rolled back
    fresh,      \* product ids AUTO_INCREMENT has not handed out
    restocks,   \* bound: the calls of add_stock still allowed
    listed,     \* history: rows committed at some time, so perhaps on a screen
    placed      \* history: the item list order o was created from

INSTANCE InnoDB

engine == <<newest, committed, view, written, xlock, slock>>
counters == <<nextOrder, fresh, restocks>>
history == <<listed, placed>>
vars == <<engine, pc, job, counters, history>>

-----------------------------------------------------------------------------
NoOrder == 0

(* op: the method.  lines: the items still to be handled.  amount: the     *)
(* stock read for the line under way, or the quantity add_stock adds.      *)
NoJob == [op |-> "none", order |-> NoOrder, lines |-> <<>>, product |-> Absent,
          new |-> Absent, old |-> Absent, amount |-> 0]

Goto(c, label) == pc' = [pc EXCEPT ![c] = label]

(* A method is called on an idle client.                                   *)
Call(c, fields, label) ==
    /\ fields.op \in Ops
    /\ pc[c] = "idle"
    /\ Serial => \A d \in Clients : pc[d] = "idle"
    /\ job' = [job EXCEPT ![c] = fields]
    /\ Goto(c, label)
    /\ UNCHANGED <<nextOrder, history>>

(* get_connection() and connection.rollback(), which open every method but *)
(* add_stock and delete_product.  start_transaction() sends no read and    *)
(* takes no snapshot.  PrologueFails is a rollback() that fails.           *)
CallAfterRollback(c, fields, label) ==
    /\ Call(c, fields, label)
    /\ Rollback(c)
    /\ UNCHANGED restocks

(* raise: nothing more is sent, the except branch runs next.               *)
Raise(c) ==
    /\ Goto(c, "raise")
    /\ UNCHANGED <<engine, job>>

(* "UPDATE products SET stock_quantity = ..." sets p's row; without such a *)
(* row the statement succeeds and changes nothing.                         *)
UpdateProduct(c, p, row) ==
    /\ MayWrite(c, Prod(p))
    /\ IF newest[Prod(p)] = Absent THEN UNCHANGED engine
                                   ELSE Write(c, Prod(p), row, {})

(* "stock_quantity + q" leaves the INT column's range: the UPDATE fails.   *)
Overflows(p, q) ==
    newest[Prod(p)] # Absent /\ newest[Prod(p)].stock + q > MaxInt

-----------------------------------------------------------------------------
Finish(c) ==
    /\ Goto(c, "idle")
    /\ job' = [job EXCEPT ![c] = NoJob]
    /\ UNCHANGED <<counters, placed>>

Publish(c) ==
    /\ Commit(c)
    /\ listed' = listed \cup {r \in Rows : committed'[r] # Absent}

(* connection.commit()                                                     *)
CommitCall(c) ==
    /\ pc[c] = "commit"
    /\ Publish(c)
    /\ Finish(c)

(* The server commits but the connection dies before the reply arrives:    *)
(* the method fails although its work is done.                             *)
CommitReplyLost(c) ==
    /\ pc[c] = "commit"
    /\ Publish(c)
    /\ Goto(c, "raise")
    /\ UNCHANGED <<job, counters, placed>>

(* Faulty: the except branch forgets the rollback.                         *)
Faulty_HandleError(c) ==
    /\ pc[c] = "raise"
    /\ Finish(c)
    /\ UNCHANGED <<engine, listed>>

(* except: connection.rollback(); raise                                    *)
HandleError(c) ==
    /\ pc[c] = "raise"
    /\ Rollback(c)
    /\ Finish(c)
    /\ UNCHANGED listed

(* The connection is lost, and the server rolls the transaction back and   *)
(* drops its locks.                                                        *)
Lose(c, label) ==
    /\ Rollback(c)
    /\ Goto(c, label)
    /\ UNCHANGED <<job, counters, history>>

(* It is lost within a method, which fails at its next statement.          *)
Disconnect(c) == pc[c] \notin {"idle", "raise"} /\ Lose(c, "raise")

(* It is lost between two methods, or while one begins: the failure of that*)
(* rollback() is swallowed, but start_transaction() or cursor() then raises*)
(* outside the try block, before the first statement is sent.              *)
PrologueFails(c) == pc[c] = "idle" /\ InTransaction(c) /\ Lose(c, "idle")

(* load_products, load_report and refresh_dropdowns SELECT without ending  *)
(* the transaction: with autocommit off, the read view stays open.         *)
Browse(c) ==
    /\ "browse" \in Ops
    /\ pc[c] = "idle"
    /\ view[c] = NoView
    /\ OpenView(c)
    /\ UNCHANGED <<pc, job, counters, history>>
=============================================================================
