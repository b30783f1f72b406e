----------------------------- MODULE OrderRecord -----------------------------
(***************************************************************************)
(* src/models/order.py, one action per SQL statement: save_transaction,    *)
(* update_status and delete_transaction.  Each of them rolls back whatever *)
(* the connection has open, reads, decides from what it read, writes, and  *)
(* commits; an exception anywhere leads to HandleError of Shop.            *)
(***************************************************************************)
EXTENDS Shop

(* Every statement is sent at its label and leaves the next one behind.    *)
(* The product counters and the committed rows stay as they are.           *)
OrderStep(c, label) ==
    /\ pc[c] = label
    /\ UNCHANGED <<fresh, restocks, listed>>

(* The line a loop is at, and the loop's next iteration or its end.        *)
ThisLine(c) == Head(job[c].lines)
LoopTo(lines, again, done) == IF lines = <<>> THEN done ELSE again

-----------------------------------------------------------------------------
(* Order(customer_id, items).save_transaction()                            *)
SaveTransaction(c, lines) ==
    /\ CallAfterRollback(c, [NoJob EXCEPT !.op = "save", !.lines = lines],
                         "save_customer")
    /\ UNCHANGED fresh

(* SELECT customer_id: the first read, so it fixes the read view.  Whether *)
(* the customer exists is not part of this module: both answers happen.    *)
SelectCustomer(c) ==
    /\ OrderStep(c, "save_customer")
    /\ OpenView(c)
    /\ \/ Goto(c, "save_header")
       \/ Goto(c, "raise")
    /\ UNCHANGED <<job, nextOrder, placed>>

(* INSERT INTO orders; when the ids are used up the statement fails.       *)
InsertOrder(c) ==
    /\ OrderStep(c, "save_header")
    /\ nextOrder \in OrderIds
    /\ Write(c, Ord(nextOrder), "PENDING", {})
    /\ job' = [job EXCEPT ![c].order = nextOrder]
    /\ placed' = [placed EXCEPT ![nextOrder] = job[c].lines]
    /\ nextOrder' = nextOrder + 1
    /\ Goto(c, "save_read")

OrderIdsUsedUp(c) ==
    /\ OrderStep(c, "save_header")
    /\ nextOrder \notin OrderIds
    /\ Raise(c)
    /\ UNCHANGED <<nextOrder, placed>>

(* Faulty: the stock is not compared with the quantity.                    *)
Faulty_Refused(c, line) ==
    IF Seen(c, Prod(line.product)) = Absent THEN TRUE ELSE line.qty <= 0

(* The item is refused: invalid, its product unknown, or too little stock. *)
Refused(c, line) ==
    LET row == Seen(c, Prod(line.product)) IN
    IF row = Absent THEN TRUE ELSE line.qty <= 0 \/ row.stock < line.qty

(* SELECT price, stock_quantity FROM products                              *)
ReadProduct(c) ==
    /\ OrderStep(c, "save_read")
    /\ ~Refused(c, ThisLine(c))
    /\ OpenView(c)
    /\ job' = [job EXCEPT ![c].amount = Seen(c, Prod(ThisLine(c).product)).stock]
    /\ Goto(c, "save_line")
    /\ UNCHANGED <<nextOrder, placed>>

(* Faulty: the refusal ends the loop, and the order is committed.          *)
Faulty_RefuseLine(c) ==
    /\ OrderStep(c, "save_read")
    /\ Refused(c, ThisLine(c))
    /\ Goto(c, "commit")
    /\ UNCHANGED <<engine, job, nextOrder, placed>>

RefuseLine(c) ==
    /\ OrderStep(c, "save_read")
    /\ Refused(c, ThisLine(c))
    /\ Raise(c)
    /\ UNCHANGED <<nextOrder, placed>>

(* Faulty: a failed foreign key check ends the loop, the order is committed.*)
Faulty_InsertLine(c) ==
    LET p == ThisLine(c).product
        r == Items(job[c].order)
        earlier == IF newest[r] = Absent THEN <<>> ELSE newest[r]
    IN
    /\ OrderStep(c, "save_line")
    /\ MayShare(c, Prod(p))
    /\ \/ /\ newest[Prod(p)] = Absent
          /\ Goto(c, "commit")
          /\ UNCHANGED <<engine, job>>
       \/ /\ newest[Prod(p)] # Absent
          /\ Write(c, r, Append(earlier, ThisLine(c)), {Prod(p)})
          /\ Goto(c, "save_stock")
          /\ UNCHANGED job
    /\ UNCHANGED <<nextOrder, placed>>

(* INSERT INTO order_items: the foreign key check share-locks the product, *)
(* and fails when a concurrent delete_product has removed it.              *)
InsertLine(c) ==
    LET p == ThisLine(c).product
        r == Items(job[c].order)
        earlier == IF newest[r] = Absent THEN <<>> ELSE newest[r]
    IN
    /\ OrderStep(c, "save_line")
    /\ MayShare(c, Prod(p))
    /\ \/ /\ newest[Prod(p)] = Absent
          /\ Raise(c)
       \/ /\ newest[Prod(p)] # Absent
          /\ Write(c, r, Append(earlier, ThisLine(c)), {Prod(p)})
          /\ Goto(c, "save_stock")
          /\ UNCHANGED job
    /\ UNCHANGED <<nextOrder, placed>>

(* UPDATE products SET stock_quantity = <the stock read> - quantity        *)
DeductStock(c) ==
    LET p == ThisLine(c).product
        row == newest[Prod(p)]
        rest == Tail(job[c].lines)
    IN
    /\ OrderStep(c, "save_stock")
    /\ UpdateProduct(c, p, [row EXCEPT !.stock = job[c].amount - ThisLine(c).qty])
    /\ job' = [job EXCEPT ![c].lines = rest]
    /\ Goto(c, LoopTo(rest, "save_read", "commit"))
    /\ UNCHANGED <<nextOrder, placed>>

-----------------------------------------------------------------------------
(* Order.update_status(order_id, new_status)                               *)
UpdateStatus(c, o, status) ==
    /\ CallAfterRollback(c, [NoJob EXCEPT !.op = "status", !.order = o, !.new = status],
                         "status_read")
    /\ UNCHANGED fresh

(* SELECT status FROM orders, and the two checks on what it returns.       *)
ReadStatus(c) ==
    LET old == Seen(c, Ord(job[c].order)) IN
    /\ OrderStep(c, "status_read")
    /\ OpenView(c)
    /\ job' = [job EXCEPT ![c].old = old]
    /\ Goto(c, IF old = Absent \/ (old = "CANCELLED" /\ job[c].new # "CANCELLED")
                 THEN "raise" ELSE "status_write")
    /\ UNCHANGED <<nextOrder, placed>>

(* Faulty: an order that is cancelled already is restocked again.          *)
Faulty_Cancels(j) == j.new = "CANCELLED"

Cancels(j) == j.new = "CANCELLED" /\ j.old # "CANCELLED"

(* UPDATE orders SET status: no row is changed if the order is gone.       *)
WriteStatus(c) ==
    LET r == Ord(job[c].order) IN
    /\ OrderStep(c, "status_write")
    /\ MayWrite(c, r)
    /\ IF newest[r] = Absent THEN UNCHANGED engine
                             ELSE Write(c, r, job[c].new, {})
    /\ Goto(c, IF Cancels(job[c]) THEN "items_read" ELSE "commit")
    /\ UNCHANGED <<job, nextOrder, placed>>

-----------------------------------------------------------------------------
(* Order.delete_transaction(order_id)                                      *)
DeleteTransaction(c, o) ==
    /\ CallAfterRollback(c, [NoJob EXCEPT !.op = "delete", !.order = o], "delete_read")
    /\ UNCHANGED fresh

(* SELECT status: only a live order that is not cancelled is restocked.    *)
ReadForDelete(c) ==
    LET old == Seen(c, Ord(job[c].order)) IN
    /\ OrderStep(c, "delete_read")
    /\ OpenView(c)
    /\ job' = [job EXCEPT ![c].old = old]
    /\ Goto(c, IF old \in {Absent, "CANCELLED"} THEN "delete_lines" ELSE "items_read")
    /\ UNCHANGED <<nextOrder, placed>>

(* Where the two restocking loops lead.                                    *)
AfterRestock(c) == IF job[c].op = "delete" THEN "delete_lines" ELSE "commit"

(* SELECT product_id, quantity FROM order_items, in both methods.          *)
ReadItems(c) ==
    LET seen == Seen(c, Items(job[c].order))
        lines == IF seen = Absent THEN <<>> ELSE seen
    IN
    /\ OrderStep(c, "items_read")
    /\ OpenView(c)
    /\ job' = [job EXCEPT ![c].lines = lines]
    /\ Goto(c, LoopTo(lines, "restock", AfterRestock(c)))
    /\ UNCHANGED <<nextOrder, placed>>

(* UPDATE products SET stock_quantity = stock_quantity + quantity          *)
Restock(c) ==
    LET p == ThisLine(c).product
        q == ThisLine(c).qty
        row == newest[Prod(p)]
        rest == Tail(job[c].lines)
    IN
    /\ OrderStep(c, "restock")
    /\ MayWrite(c, Prod(p))
    /\ \/ /\ Overflows(p, q)
          /\ Raise(c)
       \/ /\ ~Overflows(p, q)
          /\ UpdateProduct(c, p, [row EXCEPT !.stock = @ + q])
          /\ job' = [job EXCEPT ![c].lines = rest]
          /\ Goto(c, LoopTo(rest, "restock", AfterRestock(c)))
    /\ UNCHANGED <<nextOrder, placed>>

(* DELETE FROM order_items; DELETE FROM orders: gone already is no error.  *)
DeleteRow(c, r) ==
    /\ MayWrite(c, r)
    /\ IF newest[r] = Absent THEN UNCHANGED engine
                             ELSE Write(c, r, Absent, {})
    /\ UNCHANGED <<job, nextOrder, placed>>

DeleteLines(c) ==
    /\ OrderStep(c, "delete_lines")
    /\ DeleteRow(c, Items(job[c].order))
    /\ Goto(c, "delete_header")

DeleteHeader(c) ==
    /\ OrderStep(c, "delete_header")
    /\ DeleteRow(c, Ord(job[c].order))
    /\ Goto(c, "commit")

-----------------------------------------------------------------------------
OrderCall(c) ==
    \/ \E lines \in LineLists : SaveTransaction(c, lines)
    \/ \E o \in OrderIds :
         /\ Ord(o) \in listed
         /\ \/ DeleteTransaction(c, o)
            \/ \E status \in NewStatuses : UpdateStatus(c, o, status)

OrderStatement(c) ==
    \/ SelectCustomer(c) \/ InsertOrder(c) \/ OrderIdsUsedUp(c)
    \/ ReadProduct(c) \/ RefuseLine(c) \/ InsertLine(c) \/ DeductStock(c)
    \/ ReadStatus(c) \/ WriteStatus(c)
    \/ ReadForDelete(c) \/ ReadItems(c) \/ Restock(c)
    \/ DeleteLines(c) \/ DeleteHeader(c)
=============================================================================
