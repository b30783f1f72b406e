---------------------------- MODULE ProductRecord ----------------------------
(***************************************************************************)
(* src/models/product.py, one action per SQL statement: save (a product    *)
(* form or an imported item, always an INSERT), add_stock and              *)
(* delete_product.  The last two do not begin with a rollback: they run in *)
(* whatever transaction the screens' SELECTs have left open.               *)
(***************************************************************************)
EXTENDS Shop

ProductStep(c, label) ==
    /\ pc[c] = label
    /\ UNCHANGED <<nextOrder, restocks, history>>

-----------------------------------------------------------------------------
(* Product(...).save() of a validated product without an id                *)
SaveProduct(c, p, n) ==
    /\ p \in fresh
    /\ CallAfterRollback(c, [NoJob EXCEPT !.op = "new", !.product = p, !.amount = n],
                         "insert_product")
    /\ fresh' = fresh \ {p}

InsertProduct(c) ==
    /\ ProductStep(c, "insert_product")
    /\ Write(c, Prod(job[c].product), NewProduct(job[c].amount), {})
    /\ Goto(c, "commit")
    /\ UNCHANGED <<job, fresh>>

-----------------------------------------------------------------------------
(* Product.add_stock(product_id, quantity)                                 *)
CallAddStock(c, p, q) ==
    /\ restocks > 0
    /\ Call(c, [NoJob EXCEPT !.op = "add", !.product = p, !.amount = q], "add_stock")
    /\ restocks' = restocks - 1
    /\ UNCHANGED <<engine, fresh>>

AddStock(c) ==
    LET p == job[c].product
        q == job[c].amount
        row == newest[Prod(p)]
    IN
    /\ ProductStep(c, "add_stock")
    /\ MayWrite(c, Prod(p))
    /\ \/ /\ Overflows(p, q)
          /\ Raise(c)
       \/ /\ ~Overflows(p, q)
          /\ UpdateProduct(c, p, [row EXCEPT !.stock = @ + q, !.supplied = @ + q])
          /\ Goto(c, "commit")
          /\ UNCHANGED job
    /\ UNCHANGED fresh

-----------------------------------------------------------------------------
(* Product.delete_product(product_id)                                      *)
CallDeleteProduct(c, p) ==
    /\ Call(c, [NoJob EXCEPT !.op = "remove", !.product = p], "delete_product")
    /\ UNCHANGED <<engine, fresh, restocks>>

(* The orders with p among their items in this version of the tables.      *)
References(tables, p) ==
    {o \in OrderIds : /\ tables[Items(o)] # Absent
                      /\ \E i \in DOMAIN tables[Items(o)] :
                            tables[Items(o)][i].product = p}

(* The item rows the foreign key check looks at, deleted ones included as  *)
(* long as their deletion is not committed.                                *)
ChildRows(p) ==
    {Items(o) : o \in References(newest, p) \cup References(committed, p)}

(* Faulty: the references are looked up in the committed rows, unlocked.   *)
Faulty_DeleteProduct(c) ==
    LET p == job[c].product IN
    /\ ProductStep(c, "delete_product")
    /\ \/ /\ newest[Prod(p)] = Absent \/ References(committed, p) # {}
          /\ Raise(c)
       \/ /\ newest[Prod(p)] # Absent /\ References(committed, p) = {}
          /\ newest' = [newest EXCEPT ![Prod(p)] = Absent]
          /\ written' = [written EXCEPT ![c] = @ \cup {Prod(p)}]
          /\ Goto(c, "commit")
          /\ UNCHANGED <<committed, view, xlock, slock, job>>
    /\ UNCHANGED fresh

(* DELETE FROM products: refused when no such row exists (rowcount 0) or   *)
(* when order_items still refer to it.                                     *)
DeleteProduct(c) ==
    LET p == job[c].product IN
    /\ ProductStep(c, "delete_product")
    /\ MayWrite(c, Prod(p))
    /\ \A r \in ChildRows(p) : MayShare(c, r)
    /\ \/ /\ newest[Prod(p)] = Absent \/ References(newest, p) # {}
          /\ Raise(c)
       \/ /\ newest[Prod(p)] # Absent /\ References(newest, p) = {}
          /\ Write(c, Prod(p), Absent, ChildRows(p))
          /\ Goto(c, "commit")
          /\ UNCHANGED job
    /\ UNCHANGED fresh

-----------------------------------------------------------------------------
ProductCall(c) ==
    \/ \E p \in Products, n \in NewStock : SaveProduct(c, p, n)
    \/ \E p \in Products :
         /\ Prod(p) \in listed
         /\ \/ CallDeleteProduct(c, p)
            \/ \E q \in 1..MaxQty : CallAddStock(c, p, q)

ProductStatement(c) == InsertProduct(c) \/ AddStock(c) \/ DeleteProduct(c)
=============================================================================
