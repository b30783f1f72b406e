------------------------------- MODULE StoreSQL -------------------------------
(***************************************************************************)
(* Several running applications on one database: the statements of         *)
(* OrderRecord and ProductRecord interleaved, with screens that leave read *)
(* views open, lock waits, deadlocks and lost connections.                 *)
(***************************************************************************)
EXTENDS OrderRecord, ProductRecord

(* What the comparison with Store needs beyond ShopAssumption.             *)
ASSUME StoreAssumption ==
    /\ InitialStock \in [Products -> 0..MaxInt \cup {Absent}]
    /\ Absent \notin Nat
    /\ Absent \notin [status : Statuses, lines : Seq(Line)]

Init ==
    /\ EngineInit([r \in Rows |->
          IF r \in ProdRows /\ InitialStock[r[2]] # Absent
            THEN NewProduct(InitialStock[r[2]]) ELSE Absent])
    /\ pc = [c \in Clients |-> "idle"]
    /\ job = [c \in Clients |-> NoJob]
    /\ nextOrder = 1
    /\ fresh = {p \in Products : InitialStock[p] = Absent}
    /\ restocks = MaxRestocks
    /\ listed = {Prod(p) : p \in Products \ fresh}
    /\ placed = [o \in OrderIds |-> <<>>]

-----------------------------------------------------------------------------
(* The rows the next statement of c locks exclusively, and in share mode.  *)
WritesNext(c) ==
    LET j == job[c] IN
    CASE pc[c] \in {"save_stock", "restock"}                  -> {Prod(ThisLine(c).product)}
      [] pc[c] \in {"status_write", "delete_header"}          -> {Ord(j.order)}
      [] pc[c] = "delete_lines"                               -> {Items(j.order)}
      [] pc[c] \in {"add_stock", "delete_product"}            -> {Prod(j.product)}
      [] OTHER                                                -> {}

SharesNext(c) ==
    CASE pc[c] = "save_line"      -> {Prod(ThisLine(c).product)}
      [] pc[c] = "delete_product" -> ChildRows(job[c].product)
      [] OTHER                    -> {}

Waits(c) ==
    \/ \E r \in WritesNext(c) : ~MayWrite(c, r)
    \/ \E r \in SharesNext(c) : ~MayShare(c, r)

(* Faulty: the statement is sent again, without giving up any lock.        *)
Faulty_LockError(c) ==
    /\ Waits(c)
    /\ UNCHANGED vars

(* A waiting statement fails: the lock wait times out, or the deadlock     *)
(* detector chooses its transaction.                                       *)
LockError(c) ==
    /\ Waits(c)
    /\ Raise(c)
    /\ UNCHANGED <<counters, history>>

Proceed(c) ==
    \/ OrderStatement(c) \/ ProductStatement(c)
    \/ CommitCall(c) \/ HandleError(c) \/ LockError(c)

Next ==
    \E c \in Clients : \/ OrderCall(c) \/ ProductCall(c) \/ Browse(c)
                       \/ Proceed(c)
                       \/ CommitReplyLost(c) \/ Disconnect(c) \/ PrologueFails(c)

Spec == Init /\ [][Next]_vars

(* A method that was called goes on: the application sends its statements  *)
(* one after the other, and the server answers, with an error if need be.  *)
(* Nobody has to call a method, and no connection has to be lost.          *)
Fairness == \A c \in Clients : WF_vars(Proceed(c))
FairSpec == Spec /\ Fairness

-----------------------------------------------------------------------------
Labels == {"idle", "save_customer", "save_header", "save_read", "save_line",
           "save_stock", "status_read", "status_write", "items_read", "restock",
           "delete_read", "delete_lines", "delete_header", "insert_product",
           "add_stock", "delete_product", "commit", "raise"}

Job == [op : {"none", "save", "status", "delete", "new", "add", "remove"},
        order : OrderIds \cup {NoOrder}, lines : Seq(Line),
        product : Products \cup {Absent}, new : Statuses \cup {Absent},
        old : Statuses \cup {Absent}, amount : Nat]

(* What a row of each of the three tables can hold.                        *)
ValuesOf(r) ==
    CASE r[1] = "products"    -> ProductRow \cup {Absent}
      [] r[1] = "orders"      -> Statuses \cup {Absent}
      [] r[1] = "order_items" -> Seq(Line) \cup {Absent}

(* One version of the three tables.                                        *)
IsContents(tables) ==
    /\ tables = [r \in Rows |-> tables[r]]
    /\ \A r \in Rows : tables[r] \in ValuesOf(r)

(* Every variable holds values of its type.                                *)
TypeOK ==
    /\ IsContents(newest) /\ IsContents(committed)
    /\ view = [c \in Clients |-> view[c]]
    /\ \A c \in Clients : view[c] = NoView \/ IsContents(view[c])
    /\ written \in [Clients -> SUBSET Rows]
    /\ xlock \in [Clients -> SUBSET Rows]
    /\ slock \in [Clients -> SUBSET Rows]
    /\ pc \in [Clients -> Labels]
    /\ job \in [Clients -> Job]
    /\ nextOrder \in Nat
    /\ fresh \subseteq Products
    /\ restocks \in Nat
    /\ listed \subseteq Rows
    /\ placed \in [OrderIds -> Seq(Line)]

-----------------------------------------------------------------------------
(* No order, however stale the stock it was decided from, and no restock   *)
(* drives a committed stock out of the range 0..MaxInt: the check of line  *)
(* 59 of order.py and the absolute UPDATE of line 66 use one snapshot.     *)
StockInRange ==
    \A p \in Products :
        committed[Prod(p)] # Absent => committed[Prod(p)].stock \in 0..MaxInt

(* An order is visible to others whole or not at all: a committed order    *)
(* row comes with all the items it was placed with, in that order, and no  *)
(* item row survives its order (save_transaction, delete_transaction).     *)
OrdersWhole ==
    \A o \in OrderIds :
        committed[Items(o)] = IF committed[Ord(o)] = Absent THEN Absent ELSE placed[o]

(* No committed item refers to a product that does not exist, whatever     *)
(* orders are placed while delete_product runs.                            *)
NoDanglingLines ==
    \A p \in Products : References(committed, p) # {} => committed[Prod(p)] # Absent

(* An application that is between two methods of order.py and product.py   *)
(* holds no row lock: every way out of one of them ends its transaction, so*)
(* its user's idle time blocks no other order.  (Category.save and         *)
(* Customer.save do leave locks when they fail: see Catalog.)              *)
IdleHoldsNoLocks ==
    \A c \in Clients : pc[c] = "idle" => /\ xlock[c] = {} /\ slock[c] = {}
                                         /\ written[c] = {}

-----------------------------------------------------------------------------
(* The tables as the abstract store sees them.                             *)
Stock(tables) ==
    [p \in Products |-> IF tables[Prod(p)] = Absent THEN Absent
                                                    ELSE tables[Prod(p)].stock]

Orders(tables) ==
    [o \in OrderIds |-> IF tables[Ord(o)] = Absent THEN Absent
                        ELSE [status |-> tables[Ord(o)], lines |-> tables[Items(o)]]]

AtomicStore == INSTANCE Store WITH
    stock <- Stock(committed),
    orders <- Orders(committed),
    unused <- {o \in OrderIds : Ord(o) \notin listed}

(* As long as the methods of two applications do not overlap, each of them *)
(* is one atomic step of the store or none at all, whatever views the      *)
(* screens hold open, whichever statement fails and whichever reply is     *)
(* lost.                                                                   *)
MethodsAreAtomic == AtomicStore!Spec

(* The units of p in orders that are not cancelled.                        *)
Sold(p) ==
    Cardinality(UNION {{o} \X AtomicStore!Units(committed[Items(o)], p) :
        o \in {n \in OrderIds : committed[Ord(n)] \notin {Absent, "CANCELLED"}}})

(* Every unit ever supplied is in stock or in an order that is not         *)
(* cancelled: "Purchased items are automatically deducted from stock" and  *)
(* "Cancelling an order returns items to stock" (README.md, lines 26, 31). *)
StockAccounted ==
    \A p \in Products :
        committed[Prod(p)] # Absent
            => committed[Prod(p)].stock + Sold(p) = committed[Prod(p)].supplied

(* Every method returns or raises, also when applications wait for each    *)
(* other's locks and when connections are lost.                            *)
EveryCallReturns == \A c \in Clients : pc[c] # "idle" ~> pc[c] = "idle"
=============================================================================
