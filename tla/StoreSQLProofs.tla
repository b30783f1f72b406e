---------------------------- MODULE StoreSQLProofs ----------------------------
(***************************************************************************)
(* What holds of StoreSQL for any number of applications, products and     *)
(* orders, whether or not methods overlap: types, sessions, the references *)
(* between the tables, and orders that are whole or not there.             *)
(***************************************************************************)
EXTENDS StoreSQL, TLAPS

(* The part of TypeOK that speaks of the engine.                           *)
EngineTypes ==
    /\ IsContents(newest) /\ IsContents(committed)
    /\ view = [c \in Clients |-> view[c]]
    /\ \A c \in Clients : view[c] = NoView \/ IsContents(view[c])
    /\ written \in [Clients -> SUBSET Rows]
    /\ xlock \in [Clients -> SUBSET Rows]
    /\ slock \in [Clients -> SUBSET Rows]

(* The locals a method has set by the time it reaches a statement.         *)
SaveLabels == {"save_customer", "save_header", "save_read", "save_line", "save_stock"}
OrderLabels == {"save_read", "save_line", "save_stock", "status_read", "status_write",
                "items_read", "restock", "delete_read", "delete_lines", "delete_header"}

JobReady(c) ==
    /\ pc[c] \in SaveLabels \cup {"restock"} => job[c].lines # <<>>
    /\ pc[c] \in OrderLabels => job[c].order \in OrderIds
    /\ pc[c] \in {"save_line", "save_stock"} =>
          job[c].amount \in 0..MaxInt /\ ThisLine(c).qty <= job[c].amount
    /\ pc[c] \in {"status_read", "status_write"} => job[c].new \in Statuses
    /\ pc[c] \in {"insert_product", "add_stock", "delete_product"} =>
          job[c].product \in Products
    /\ pc[c] = "insert_product" => job[c].amount \in 0..MaxInt

JobsReady == \A c \in Clients : JobReady(c)

-----------------------------------------------------------------------------
(* The rows of the three tables, and what each of them holds.              *)
LEMMA RowsAndValues ==
    /\ \A p \in Products : Prod(p) \in Rows /\ ValuesOf(Prod(p)) = ProductRow \cup {Absent}
    /\ \A o \in OrderIds : /\ Ord(o) \in Rows
                           /\ ValuesOf(Ord(o)) = Statuses \cup {Absent}
                           /\ Items(o) \in Rows
                           /\ ValuesOf(Items(o)) = Seq(Line) \cup {Absent}
  BY DEF Rows, ProdRows, OrdRows, ItemRows, Prod, Ord, Items, ValuesOf

(* A statement that writes a fitting value keeps the engine's types.       *)
LEMMA WriteTypes ==
    ASSUME EngineTypes, NEW c \in Clients, NEW r \in Rows, NEW v \in ValuesOf(r),
           NEW parents \in SUBSET Rows, Write(c, r, v, parents)
    PROVE  EngineTypes'
  BY DEF EngineTypes, IsContents, Write

(* A SELECT that fixes the read view keeps them.                           *)
LEMMA OpenViewTypes ==
    ASSUME EngineTypes, NEW c \in Clients, OpenView(c)
    PROVE  EngineTypes'
  BY DEF EngineTypes, IsContents, OpenView, ReadView

(* COMMIT keeps them.                                                      *)
LEMMA CommitTypes ==
    ASSUME EngineTypes, NEW c \in Clients, Commit(c)
    PROVE  EngineTypes'
  BY DEF EngineTypes, IsContents, Commit, EndTransaction

(* ROLLBACK keeps them.                                                    *)
LEMMA RollbackTypes ==
    ASSUME EngineTypes, NEW c \in Clients, Rollback(c)
    PROVE  EngineTypes'
  BY DEF EngineTypes, IsContents, Rollback, EndTransaction

(* So does a step that sends nothing to the server.                        *)
LEMMA IdleTypes ==
    ASSUME EngineTypes, UNCHANGED engine
    PROVE  EngineTypes'
  BY DEF EngineTypes, IsContents, engine

(* A SELECT returns a value of its row.                                    *)
LEMMA SeenValue ==
    ASSUME EngineTypes, NEW c \in Clients, NEW r \in Rows
    PROVE  Seen(c, r) \in ValuesOf(r)
  BY DEF EngineTypes, IsContents, Seen, ReadView

-----------------------------------------------------------------------------
(* The inductive invariant: the types of the engine's variables and of the *)
(* applications', and the locals each statement relies on.                 *)
AppTypes ==
    /\ pc \in [Clients -> Labels]
    /\ job \in [Clients -> Job]
    /\ nextOrder \in Nat \ {0}
    /\ fresh \subseteq Products
    /\ restocks \in Nat
    /\ listed \subseteq Rows
    /\ placed \in [OrderIds -> Seq(Line)]

Inv1 == EngineTypes /\ AppTypes /\ JobsReady

(* The inductive invariant contains the type invariant.                    *)
LEMMA Inv1ImpliesTypeOK == Inv1 => TypeOK
  BY DEF Inv1, EngineTypes, AppTypes, TypeOK

(* An idle application has no job, and that is of the right type, too.     *)
LEMMA NoJobIsAJob == NoJob \in Job
  BY DEF NoJob, Job, NoOrder

(* Initially the tables hold the products of InitialStock and no order.    *)
LEMMA InitInv1 == Init => Inv1
<1> SUFFICES ASSUME Init PROVE Inv1
  OBVIOUS
<1> USE ShopAssumption
<1>1. \A r \in Rows : newest[r] \in ValuesOf(r)
  <2>1. \A p \in Products : InitialStock[p] # Absent
                            => NewProduct(InitialStock[p]) \in ProductRow
    BY DEF NewProduct, ProductRow, ShopAssumption
  <2>2. \A r \in ProdRows : r[2] \in Products /\ r = Prod(r[2])
    BY DEF ProdRows, Prod
  <2>3. QED
    BY <2>1, <2>2, RowsAndValues
       DEF Init, EngineInit, Rows, ProdRows, OrdRows, ItemRows
<1>2. EngineTypes
  BY <1>1 DEF Init, EngineInit, EngineTypes, IsContents
<1>4. AppTypes
  BY NoJobIsAJob, RowsAndValues DEF Init, AppTypes, Labels
<1>5. JobsReady
  BY DEF Init, JobsReady, JobReady, SaveLabels, OrderLabels
<1>6. QED
  BY <1>2, <1>4, <1>5 DEF Inv1

(* The first line of a list that is not empty, and the lines after it.     *)
LEMMA Lines ==
    ASSUME NEW lines \in Seq(Line), lines # <<>>
    PROVE  /\ Head(lines) \in Line /\ Head(lines).product \in Products
           /\ Head(lines).qty \in Nat /\ Tail(lines) \in Seq(Line)
<1>1. Len(lines) \in Nat /\ Len(lines) # 0 /\ DOMAIN lines = 1..Len(lines)
  OBVIOUS
<1>2. Head(lines) = lines[1] /\ lines[1] \in Line
  BY <1>1
<1>3. Tail(lines) \in Seq(Line)
  OBVIOUS
<1>4. QED
  BY <1>2, <1>3 DEF Line

-----------------------------------------------------------------------------
(* A call rolls back, or leaves the engine alone, and has its arguments.   *)
LEMMA OrderCallInv1 ==
    ASSUME Inv1, NEW c \in Clients, OrderCall(c) PROVE Inv1'
<1> USE DEF Inv1, AppTypes
<1>1. CASE \E lines \in LineLists : SaveTransaction(c, lines)
  <2> PICK lines \in LineLists : SaveTransaction(c, lines)
    BY <1>1
  <2>1. EngineTypes'
    BY RollbackTypes DEF SaveTransaction, CallAfterRollback
  <2>2. [NoJob EXCEPT !.op = "save", !.lines = lines] \in Job /\ lines # <<>>
    BY ShopAssumption, NoJobIsAJob DEF ShopAssumption, Job
  <2>3. AppTypes'
    BY <2>2 DEF SaveTransaction, CallAfterRollback, Call, Goto, Labels, counters, history
  <2>4. JobsReady'
    BY <2>2 DEF SaveTransaction, CallAfterRollback, Call, Goto, counters, history,
                JobsReady, JobReady, ThisLine, SaveLabels, OrderLabels, NoJob
  <2>5. QED
    BY <2>1, <2>3, <2>4
<1>2. ASSUME NEW o \in OrderIds, DeleteTransaction(c, o) PROVE Inv1'
  <2>1. EngineTypes'
    BY <1>2, RollbackTypes DEF DeleteTransaction, CallAfterRollback
  <2>2. [NoJob EXCEPT !.op = "delete", !.order = o] \in Job
    BY NoJobIsAJob DEF Job
  <2>3. AppTypes'
    BY <1>2, <2>2 DEF DeleteTransaction, CallAfterRollback, Call, Goto, Labels, counters, history
  <2>4. JobsReady'
    BY <1>2, <2>2 DEF DeleteTransaction, CallAfterRollback, Call, Goto, counters, history,
                JobsReady, JobReady, ThisLine, SaveLabels, OrderLabels, NoJob
  <2>5. QED
    BY <2>1, <2>3, <2>4
<1>3. ASSUME NEW o \in OrderIds, NEW status \in NewStatuses, UpdateStatus(c, o, status)
      PROVE  Inv1'
  <2>1. EngineTypes'
    BY <1>3, RollbackTypes DEF UpdateStatus, CallAfterRollback
  <2>2. /\ [NoJob EXCEPT !.op = "status", !.order = o, !.new = status] \in Job
        /\ status \in Statuses
    BY ShopAssumption, NoJobIsAJob DEF ShopAssumption, Job
  <2>3. AppTypes'
    BY <1>3, <2>2 DEF UpdateStatus, CallAfterRollback, Call, Goto, Labels, counters, history
  <2>4. JobsReady'
    BY <1>3, <2>2 DEF UpdateStatus, CallAfterRollback, Call, Goto, counters, history,
                JobsReady, JobReady, ThisLine, SaveLabels, OrderLabels, NoJob
  <2>5. QED
    BY <2>1, <2>3, <2>4
<1>4. QED
  BY <1>1, <1>2, <1>3 DEF OrderCall

(* Calls of the product methods: save rolls back, the others leave the     *)
(* engine as it is.                                                        *)
LEMMA ProductCallInv1 ==
    ASSUME Inv1, NEW c \in Clients, ProductCall(c) PROVE Inv1'
<1> USE DEF Inv1, AppTypes
<1>1. ASSUME NEW p \in Products, NEW n \in NewStock, SaveProduct(c, p, n) PROVE Inv1'
  <2>1. EngineTypes'
    BY <1>1, RollbackTypes DEF SaveProduct, CallAfterRollback
  <2>n. n \in 0..MaxInt /\ n \in Nat
    BY ShopAssumption DEF ShopAssumption
  <2>2. [NoJob EXCEPT !.op = "new", !.product = p, !.amount = n] \in Job
    BY <2>n, NoJobIsAJob DEF Job
  <2>3. AppTypes'
    BY <1>1, <2>2, <2>n DEF SaveProduct, CallAfterRollback, Call, Goto, Labels, counters, history
  <2>4. JobsReady'
    BY <1>1, <2>2, <2>n DEF SaveProduct, CallAfterRollback, Call, Goto, counters, history,
                JobsReady, JobReady, ThisLine, SaveLabels, OrderLabels, NoJob
  <2>5. QED
    BY <2>1, <2>3, <2>4
<1>2. ASSUME NEW p \in Products, CallDeleteProduct(c, p) PROVE Inv1'
  <2>1. EngineTypes'
    BY <1>2, IdleTypes DEF CallDeleteProduct
  <2>2. [NoJob EXCEPT !.op = "remove", !.product = p] \in Job
    BY NoJobIsAJob DEF Job
  <2>3. AppTypes'
    BY <1>2, <2>2 DEF CallDeleteProduct, Call, Goto, Labels, counters, history
  <2>4. JobsReady'
    BY <1>2, <2>2 DEF CallDeleteProduct, Call, Goto, counters, history,
                JobsReady, JobReady, ThisLine, SaveLabels, OrderLabels, NoJob
  <2>5. QED
    BY <2>1, <2>3, <2>4
<1>3. ASSUME NEW p \in Products, NEW q \in 1..MaxQty, CallAddStock(c, p, q) PROVE Inv1'
  <2>1. EngineTypes'
    BY <1>3, IdleTypes DEF CallAddStock
  <2>q. q \in Nat
    BY ShopAssumption DEF ShopAssumption
  <2>2. [NoJob EXCEPT !.op = "add", !.product = p, !.amount = q] \in Job
    BY <2>q, NoJobIsAJob DEF Job
  <2>3. AppTypes'
    BY <1>3, <2>2 DEF CallAddStock, Call, Goto, Labels, counters, history
  <2>4. JobsReady'
    BY <1>3, <2>2 DEF CallAddStock, Call, Goto, counters, history,
                JobsReady, JobReady, ThisLine, SaveLabels, OrderLabels, NoJob
  <2>5. QED
    BY <2>1, <2>3, <2>4
<1>4. QED
  BY <1>1, <1>2, <1>3 DEF ProductCall

-----------------------------------------------------------------------------
(* The statements of the engine-independent kind: a transaction ends, a    *)
(* connection is lost, a lock wait fails, a screen reads.                  *)
LEMMA SessionInv1 ==
    ASSUME Inv1, NEW c \in Clients,
           CommitCall(c) \/ CommitReplyLost(c) \/ HandleError(c) \/ Disconnect(c)
             \/ PrologueFails(c) \/ LockError(c) \/ Browse(c)
    PROVE  Inv1'
<1> USE NoJobIsAJob
    DEF Inv1, AppTypes, Goto, Labels, counters, history, JobsReady, JobReady, ThisLine,
        SaveLabels, OrderLabels
<1>1. CASE CommitCall(c)
  BY <1>1, CommitTypes DEF CommitCall, Publish, Finish
<1>2. CASE CommitReplyLost(c)
  BY <1>2, CommitTypes DEF CommitReplyLost, Publish
<1>3. CASE HandleError(c)
  BY <1>3, RollbackTypes DEF HandleError, Finish
<1>4. CASE Disconnect(c) \/ PrologueFails(c)
  BY <1>4, RollbackTypes DEF Disconnect, PrologueFails, Lose
<1>5. CASE LockError(c)
  BY <1>5, IdleTypes DEF LockError, Raise
<1>6. CASE Browse(c)
  BY <1>6, OpenViewTypes DEF Browse
<1>7. QED
  BY <1>1, <1>2, <1>3, <1>4, <1>5, <1>6

-----------------------------------------------------------------------------
(* save_transaction: what DeductStock writes is what ReadProduct read less *)
(* the quantity, and ReadProduct has seen that it is enough.               *)
LEMMA SaveInv1 ==
    ASSUME Inv1, NEW c \in Clients,
           SelectCustomer(c) \/ InsertOrder(c) \/ OrderIdsUsedUp(c) \/ ReadProduct(c)
             \/ RefuseLine(c) \/ InsertLine(c) \/ DeductStock(c)
    PROVE  Inv1'
<1> USE DEF Inv1, AppTypes, Goto, Labels, JobsReady, JobReady, ThisLine, SaveLabels,
            OrderLabels, OrderStep
<1> job[c] \in Job /\ job[c].lines \in Seq(Line)
  BY DEF Job
<1>1. CASE SelectCustomer(c)
  BY <1>1, OpenViewTypes DEF SelectCustomer
<1>2. CASE InsertOrder(c)
  <2>0. Ord(nextOrder) \in Rows /\ "PENDING" \in ValuesOf(Ord(nextOrder))
    BY <1>2, RowsAndValues DEF InsertOrder, Statuses
  <2>1. EngineTypes'
    <3>1. Write(c, Ord(nextOrder), "PENDING", {})
      BY <1>2 DEF InsertOrder
    <3>2. QED
      BY <2>0, <3>1, WriteTypes
  <2>2. [job[c] EXCEPT !.order = nextOrder] \in Job
    BY <1>2 DEF Job, InsertOrder
  <2>3. AppTypes'
    BY <1>2, <2>2 DEF InsertOrder
  <2>4. JobsReady'
    BY <1>2, <2>2 DEF InsertOrder
  <2>5. QED
    BY <2>1, <2>3, <2>4
<1>3. CASE OrderIdsUsedUp(c)
  BY <1>3, IdleTypes DEF OrderIdsUsedUp, Raise
<1>4. CASE ReadProduct(c)
  <2> DEFINE line == ThisLine(c)
             row == Seen(c, Prod(line.product))
  <2>1. line \in Line /\ line.product \in Products /\ line.qty \in Nat
    BY <1>4, Lines DEF ReadProduct
  <2>2. row \in ProductRow /\ row.stock >= line.qty
    BY <1>4, <2>1, SeenValue, RowsAndValues, ShopAssumption
       DEF ReadProduct, Refused, ProductRow, ShopAssumption
  <2>3. row.stock \in 0..MaxInt /\ row.stock \in Nat
    BY <2>2, ShopAssumption DEF ProductRow, ShopAssumption
  <2>4. [job[c] EXCEPT !.amount = row.stock] \in Job
    BY <2>3 DEF Job
  <2>5. EngineTypes'
    BY <1>4, OpenViewTypes DEF ReadProduct
  <2>6. AppTypes'
    BY <1>4, <2>4 DEF ReadProduct
  <2>7. JobsReady'
    BY <1>4, <2>2, <2>3 DEF ReadProduct
  <2>8. QED
    BY <2>5, <2>6, <2>7
<1>5. CASE RefuseLine(c)
  BY <1>5, IdleTypes DEF RefuseLine, Raise
<1>6. CASE InsertLine(c)
  <2> DEFINE r == Items(job[c].order)
             earlier == IF newest[r] = Absent THEN <<>> ELSE newest[r]
  <2>1. /\ ThisLine(c) \in Line /\ Prod(ThisLine(c).product) \in Rows
        /\ r \in Rows /\ ValuesOf(r) = Seq(Line) \cup {Absent}
    BY <1>6, Lines, RowsAndValues DEF InsertLine
  <2>2. earlier \in Seq(Line)
    BY <2>1 DEF EngineTypes, IsContents
  <2>3. Append(earlier, ThisLine(c)) \in ValuesOf(r)
    BY <2>1, <2>2
  <2>4. EngineTypes'
    <3>1. CASE Raise(c)
      BY <3>1, IdleTypes DEF Raise
    <3>2. CASE Write(c, r, Append(earlier, ThisLine(c)), {Prod(ThisLine(c).product)})
      <4>1. {Prod(ThisLine(c).product)} \in SUBSET Rows
        BY <2>1
      <4>2. QED
        BY <2>1, <2>3, <3>2, <4>1, WriteTypes
    <3>3. QED
      BY <1>6, <3>1, <3>2 DEF InsertLine
  <2>5. AppTypes' /\ JobsReady'
    BY <1>6 DEF InsertLine, Raise
  <2>6. QED
    BY <2>4, <2>5
<1>7. CASE DeductStock(c)
  <2> DEFINE line == ThisLine(c)
             p == line.product
             left == [newest[Prod(p)] EXCEPT !.stock = job[c].amount - line.qty]
  <2>1. /\ p \in Products /\ line.qty \in Nat /\ Tail(job[c].lines) \in Seq(Line)
        /\ job[c].amount \in 0..MaxInt /\ line.qty <= job[c].amount
    BY <1>7, Lines DEF DeductStock
  <2>2. job[c].amount - line.qty \in 0..MaxInt
    BY <2>1, ShopAssumption DEF ShopAssumption
  <2>3. newest[Prod(p)] # Absent => left \in ValuesOf(Prod(p))
    <3>1. /\ Prod(p) \in Rows
          /\ ValuesOf(Prod(p)) = ProductRow \cup {Absent}
      BY <2>1, RowsAndValues
    <3>2. newest[Prod(p)] \in ValuesOf(Prod(p))
      BY <3>1 DEF EngineTypes, IsContents
    <3>3. newest[Prod(p)] # Absent => newest[Prod(p)] \in ProductRow
      BY <3>1, <3>2
    <3>4. newest[Prod(p)] # Absent => left \in ProductRow
      BY <2>2, <3>3 DEF ProductRow
    <3>5. QED
      BY <3>1, <3>4
  <2>4. EngineTypes'
    BY <1>7, <2>1, <2>3, WriteTypes, IdleTypes, RowsAndValues
       DEF DeductStock, UpdateProduct
  <2>5. [job[c] EXCEPT !.lines = Tail(job[c].lines)] \in Job
    BY <2>1 DEF Job
  <2>6. AppTypes'
    BY <1>7, <2>5 DEF DeductStock, LoopTo
  <2>7. JobsReady'
    BY <1>7, <2>1, <2>5 DEF DeductStock, LoopTo
  <2>8. QED
    BY <2>4, <2>6, <2>7
<1>8. QED
  BY <1>1, <1>2, <1>3, <1>4, <1>5, <1>6, <1>7

-----------------------------------------------------------------------------
(* A relative UPDATE that does not overflow leaves a product row: its stock *)
(* is an INT that is not negative.                                         *)
LEMMA AddedStock ==
    ASSUME EngineTypes, NEW p \in Products, NEW q \in Nat,
           newest[Prod(p)] # Absent, ~Overflows(p, q)
    PROVE  /\ [newest[Prod(p)] EXCEPT !.stock = @ + q] \in ProductRow
           /\ [newest[Prod(p)] EXCEPT !.stock = @ + q, !.supplied = @ + q] \in ProductRow
<1>1. newest[Prod(p)] \in ProductRow
  BY RowsAndValues DEF EngineTypes, IsContents
<1>2. newest[Prod(p)].stock + q \in 0..MaxInt
  BY <1>1, ShopAssumption DEF Overflows, ProductRow, ShopAssumption
<1>3. newest[Prod(p)].supplied \in Nat /\ newest[Prod(p)].supplied + q \in Nat
  BY <1>1 DEF ProductRow
<1>4. QED
  BY <1>1, <1>2, <1>3 DEF ProductRow

(* update_status and delete_transaction, the restocking loop included.     *)
LEMMA ChangeInv1 ==
    ASSUME Inv1, NEW c \in Clients,
           ReadStatus(c) \/ WriteStatus(c) \/ ReadForDelete(c) \/ ReadItems(c)
             \/ Restock(c) \/ DeleteLines(c) \/ DeleteHeader(c)
    PROVE  Inv1'
<1> USE DEF Inv1, AppTypes, Goto, Labels, JobsReady, JobReady, ThisLine, SaveLabels,
            OrderLabels, OrderStep
<1> job[c] \in Job /\ job[c].lines \in Seq(Line)
  BY DEF Job
<1>1. ASSUME NEW old, old = Seen(c, Ord(job[c].order)), job[c].order \in OrderIds
      PROVE  [job[c] EXCEPT !.old = old] \in Job
  BY <1>1, SeenValue, RowsAndValues DEF Job
<1>2. CASE ReadStatus(c)
  BY <1>2, <1>1, OpenViewTypes DEF ReadStatus
<1>3. CASE WriteStatus(c)
  <2> DEFINE r == Ord(job[c].order)
  <2>1. r \in Rows /\ job[c].new \in ValuesOf(r)
    BY <1>3, RowsAndValues DEF WriteStatus
  <2>2. EngineTypes'
    BY <1>3, <2>1, WriteTypes, IdleTypes DEF WriteStatus
  <2>3. AppTypes' /\ JobsReady'
    BY <1>3 DEF WriteStatus
  <2>4. QED
    BY <2>2, <2>3
<1>4. CASE ReadForDelete(c)
  BY <1>4, <1>1, OpenViewTypes DEF ReadForDelete
<1>5. CASE ReadItems(c)
  <2> DEFINE seen == Seen(c, Items(job[c].order))
             lines == IF seen = Absent THEN <<>> ELSE seen
  <2>1. lines \in Seq(Line)
    BY <1>5, SeenValue, RowsAndValues DEF ReadItems
  <2>2. [job[c] EXCEPT !.lines = lines] \in Job
    BY <2>1 DEF Job
  <2>3. EngineTypes'
    BY <1>5, OpenViewTypes DEF ReadItems
  <2>4. AppTypes'
    BY <1>5, <2>2 DEF ReadItems, LoopTo, AfterRestock
  <2>5. JobsReady'
    BY <1>5, <2>1, <2>2 DEF ReadItems, LoopTo, AfterRestock
  <2>6. QED
    BY <2>3, <2>4, <2>5
<1>6. CASE Restock(c)
  <2> DEFINE p == ThisLine(c).product
             q == ThisLine(c).qty
             more == [newest[Prod(p)] EXCEPT !.stock = @ + q]
  <2>1. p \in Products /\ q \in Nat /\ Tail(job[c].lines) \in Seq(Line)
    BY <1>6, Lines DEF Restock
  <2>2. [job[c] EXCEPT !.lines = Tail(job[c].lines)] \in Job
    BY <2>1 DEF Job
  <2>3. EngineTypes'
    <3>1. CASE UNCHANGED engine
      BY <3>1, IdleTypes
    <3>2. CASE ~Overflows(p, q) /\ newest[Prod(p)] # Absent /\ Write(c, Prod(p), more, {})
      <4>1. Prod(p) \in Rows /\ more \in ValuesOf(Prod(p))
        BY <2>1, <3>2, AddedStock, RowsAndValues
      <4>2. Write(c, Prod(p), more, {})
        BY <3>2
      <4>3. QED
        BY <4>1, <4>2, WriteTypes
    <3>3. QED
      BY <1>6, <3>1, <3>2 DEF Restock, Raise, UpdateProduct
  <2>4. AppTypes'
    BY <1>6, <2>2 DEF Restock, Raise, LoopTo, AfterRestock
  <2>5. JobsReady'
    <3>1. CASE Raise(c)
      BY <1>6, <3>1 DEF Restock, Raise
    <3>2. CASE /\ job' = [job EXCEPT ![c].lines = Tail(job[c].lines)]
               /\ Goto(c, LoopTo(Tail(job[c].lines), "restock", AfterRestock(c)))
      BY <1>6, <2>1, <2>2, <3>2 DEF Restock, LoopTo, AfterRestock
    <3>3. QED
      BY <1>6, <3>1, <3>2 DEF Restock
  <2>6. QED
    BY <2>3, <2>4, <2>5
<1>7. ASSUME NEW r \in Rows, DeleteRow(c, r) PROVE EngineTypes'
  <2>1. Absent \in ValuesOf(r)
    BY RowsAndValues DEF Rows, ProdRows, OrdRows, ItemRows
  <2>2. QED
    BY <1>7, <2>1, WriteTypes, IdleTypes DEF DeleteRow
<1>8. CASE DeleteLines(c)
  <2>1. EngineTypes'
    BY <1>7, <1>8, RowsAndValues DEF DeleteLines
  <2>2. AppTypes' /\ JobsReady'
    BY <1>8 DEF DeleteLines, DeleteRow
  <2>3. QED
    BY <2>1, <2>2
<1>9. CASE DeleteHeader(c)
  <2>1. EngineTypes'
    BY <1>7, <1>9, RowsAndValues DEF DeleteHeader
  <2>2. AppTypes' /\ JobsReady'
    BY <1>9 DEF DeleteHeader, DeleteRow
  <2>3. QED
    BY <2>1, <2>2
<1>10. QED
  BY <1>2, <1>3, <1>4, <1>5, <1>6, <1>8, <1>9

-----------------------------------------------------------------------------
(* The product methods' statements.                                        *)
LEMMA ProductInv1 ==
    ASSUME Inv1, NEW c \in Clients, ProductStatement(c)
    PROVE  Inv1'
<1> USE DEF Inv1, AppTypes, Goto, Labels, JobsReady, JobReady, ThisLine, SaveLabels,
            OrderLabels, ProductStep, history
<1> job[c] \in Job /\ job[c].lines \in Seq(Line)
  BY DEF Job
<1>1. CASE InsertProduct(c)
  <2> DEFINE r == Prod(job[c].product)
             v == NewProduct(job[c].amount)
  <2>1. r \in Rows /\ v \in ValuesOf(r)
    BY <1>1, RowsAndValues, ShopAssumption
       DEF InsertProduct, NewProduct, ProductRow, ShopAssumption
  <2>2. EngineTypes'
    <3>1. Write(c, r, v, {})
      BY <1>1 DEF InsertProduct
    <3>2. QED
      BY <2>1, <3>1, WriteTypes
  <2>3. AppTypes' /\ JobsReady'
    BY <1>1 DEF InsertProduct
  <2>4. QED
    BY <2>2, <2>3
<1>2. CASE AddStock(c)
  <2> DEFINE p == job[c].product
             q == job[c].amount
             more == [newest[Prod(p)] EXCEPT !.stock = @ + q, !.supplied = @ + q]
  <2>1. p \in Products /\ q \in Nat
    BY <1>2 DEF AddStock, Job
  <2>2. EngineTypes'
    <3>1. CASE UNCHANGED engine
      BY <3>1, IdleTypes
    <3>2. CASE ~Overflows(p, q) /\ newest[Prod(p)] # Absent /\ Write(c, Prod(p), more, {})
      <4>1. Prod(p) \in Rows /\ more \in ValuesOf(Prod(p))
        BY <2>1, <3>2, AddedStock, RowsAndValues
      <4>2. Write(c, Prod(p), more, {})
        BY <3>2
      <4>3. QED
        BY <4>1, <4>2, WriteTypes
    <3>3. QED
      BY <1>2, <3>1, <3>2 DEF AddStock, Raise, UpdateProduct
  <2>3. AppTypes' /\ JobsReady'
    BY <1>2 DEF AddStock, Raise
  <2>4. QED
    BY <2>2, <2>3
<1>3. CASE DeleteProduct(c)
  <2> DEFINE r == Prod(job[c].product)
             children == ChildRows(job[c].product)
  <2>1. r \in Rows /\ Absent \in ValuesOf(r)
    BY <1>3, RowsAndValues DEF DeleteProduct
  <2>2. children \in SUBSET Rows
    BY RowsAndValues DEF ChildRows, References
  <2>3. EngineTypes'
    <3>1. CASE UNCHANGED engine
      BY <3>1, IdleTypes
    <3>2. CASE Write(c, r, Absent, children)
      BY <2>1, <2>2, <3>2, WriteTypes
    <3>3. QED
      BY <1>3, <3>1, <3>2 DEF DeleteProduct, Raise
  <2>4. AppTypes' /\ JobsReady'
    BY <1>3 DEF DeleteProduct, Raise
  <2>5. QED
    BY <2>3, <2>4
<1>4. QED
  BY <1>1, <1>2, <1>3 DEF ProductStatement

-----------------------------------------------------------------------------
(* Every step keeps the invariant.                                         *)
LEMMA StepInv1 == Inv1 /\ [Next]_vars => Inv1'
<1> SUFFICES ASSUME Inv1, [Next]_vars PROVE Inv1'
  OBVIOUS
<1>1. CASE UNCHANGED vars
  BY <1>1, IdleTypes
     DEF Inv1, AppTypes, JobsReady, JobReady, ThisLine, vars, counters, history
<1>2. CASE Next
  BY <1>2, OrderCallInv1, ProductCallInv1, SessionInv1, SaveInv1, ChangeInv1,
     ProductInv1
     DEF Next, Proceed, OrderStatement
<1>3. QED
  BY <1>1, <1>2

(* Every variable keeps its type, whatever applications do at once.        *)
THEOREM TypesHold == Spec => []TypeOK
<1>1. QED
  BY InitInv1, StepInv1, Inv1ImpliesTypeOK, PTL DEF Spec

(* No interleaving of orders, cancellations, deletions and restocks drives *)
(* a committed stock below zero or out of the INT column: save_transaction *)
(* writes what it read less what it checked against that (order.py, lines  *)
(* 59 and 66), and a relative UPDATE that overflows fails.                 *)
THEOREM StockStaysInRange == Spec => []StockInRange
<1>1. Inv1 => StockInRange
  BY RowsAndValues DEF Inv1, EngineTypes, IsContents, StockInRange, ProductRow
<1>2. QED
  BY <1>1, InitInv1, StepInv1, PTL DEF Spec

-----------------------------------------------------------------------------
(* Locks and views of the clients: what a step of c leaves alone.          *)
OthersKept(c) ==
    \A d \in Clients \ {c} :
        /\ pc'[d] = pc[d]
        /\ view'[d] = view[d] /\ written'[d] = written[d]
        /\ xlock'[d] = xlock[d] /\ slock'[d] = slock[d]

HoldsNothing(c) == xlock[c] = {} /\ slock[c] = {} /\ written[c] = {}

(* delete_product runs in whatever transaction a screen has left open, but *)
(* screens only read.                                                      *)
DeletesWithoutLocks ==
    \A c \in Clients : pc[c] = "delete_product" => HoldsNothing(c)

SessionInv == IdleHoldsNoLocks /\ DeletesWithoutLocks

(* A statement touches the session of its own client, and is followed by   *)
(* another statement of the same method.                                   *)
LEMMA StatementSession ==
    ASSUME Inv1, NEW c \in Clients,
           OrderStatement(c) \/ ProductStatement(c) \/ LockError(c) \/ CommitReplyLost(c)
    PROVE  OthersKept(c) /\ pc'[c] \notin {"idle", "delete_product"}
<1> USE DEF Inv1, AppTypes, EngineTypes, OthersKept, Goto, OrderStep,
            ProductStep, Write, OpenView, Commit, EndTransaction, Raise, engine,
            UpdateProduct, DeleteRow
<1>1. CASE SelectCustomer(c) \/ InsertOrder(c) \/ OrderIdsUsedUp(c) \/ ReadProduct(c)
             \/ RefuseLine(c)
  BY <1>1 DEF SelectCustomer, InsertOrder, OrderIdsUsedUp, ReadProduct, RefuseLine
<1>2. CASE InsertLine(c) \/ DeductStock(c)
  BY <1>2 DEF InsertLine, DeductStock, LoopTo
<1>3. CASE ReadStatus(c) \/ WriteStatus(c) \/ ReadForDelete(c)
  BY <1>3 DEF ReadStatus, WriteStatus, ReadForDelete
<1>4. CASE ReadItems(c) \/ Restock(c) \/ DeleteLines(c) \/ DeleteHeader(c)
  BY <1>4 DEF ReadItems, Restock, DeleteLines, DeleteHeader, LoopTo, AfterRestock
<1>5. CASE ProductStatement(c)
  BY <1>5 DEF ProductStatement, InsertProduct, AddStock, DeleteProduct
<1>6. CASE LockError(c) \/ CommitReplyLost(c)
  BY <1>6 DEF LockError, CommitReplyLost, Publish
<1>7. QED
  BY <1>1, <1>2, <1>3, <1>4, <1>5, <1>6 DEF OrderStatement

(* Calls that roll back, COMMIT, ROLLBACK and a lost connection leave the  *)
(* client without a transaction.                                           *)
LEMMA TransactionEnds ==
    ASSUME Inv1, NEW c \in Clients,
           \/ OrderCall(c)
           \/ \E p \in Products, n \in NewStock : SaveProduct(c, p, n)
           \/ CommitCall(c) \/ HandleError(c) \/ Disconnect(c) \/ PrologueFails(c)
    PROVE  OthersKept(c) /\ HoldsNothing(c)' /\ view'[c] = NoView
<1> USE DEF Inv1, AppTypes, EngineTypes, OthersKept, HoldsNothing, Goto, Commit, Rollback,
            EndTransaction
<1>1. CASE OrderCall(c)
  BY <1>1 DEF OrderCall, SaveTransaction, UpdateStatus, DeleteTransaction,
              CallAfterRollback, Call
<1>2. CASE \E p \in Products, n \in NewStock : SaveProduct(c, p, n)
  BY <1>2 DEF SaveProduct, CallAfterRollback, Call
<1>3. CASE CommitCall(c) \/ HandleError(c) \/ Disconnect(c) \/ PrologueFails(c)
  BY <1>3 DEF CommitCall, Publish, Finish, HandleError, Disconnect, PrologueFails, Lose
<1>4. QED
  BY <1>1, <1>2, <1>3

(* The calls that do not roll back, and the screens, take no locks.        *)
LEMMA NoRollbackSession ==
    ASSUME Inv1, NEW c \in Clients,
           \/ \E p \in Products : CallDeleteProduct(c, p)
           \/ \E p \in Products, q \in 1..MaxQty : CallAddStock(c, p, q)
           \/ Browse(c)
    PROVE  /\ OthersKept(c)
           /\ written' = written /\ xlock' = xlock /\ slock' = slock
           /\ pc[c] = "idle"
  BY DEF Inv1, AppTypes, EngineTypes, OthersKept, Goto, Call, engine,
         CallDeleteProduct, CallAddStock, Browse, OpenView

(* Every step keeps idle clients, and those about to delete a product,     *)
(* without locks.                                                          *)
LEMMA StepSession == Inv1 /\ SessionInv /\ [Next]_vars => SessionInv'
<1> SUFFICES ASSUME Inv1, SessionInv, [Next]_vars PROVE SessionInv'
  OBVIOUS
<1> USE DEF SessionInv, IdleHoldsNoLocks, DeletesWithoutLocks, OthersKept, HoldsNothing
<1>1. CASE UNCHANGED vars
  BY <1>1 DEF vars, engine
<1>2. ASSUME NEW c \in Clients,
             OrderStatement(c) \/ ProductStatement(c) \/ LockError(c) \/ CommitReplyLost(c)
      PROVE  SessionInv'
  BY <1>2, StatementSession
<1>3. ASSUME NEW c \in Clients,
             \/ OrderCall(c)
             \/ \E p \in Products, n \in NewStock : SaveProduct(c, p, n)
             \/ CommitCall(c) \/ HandleError(c) \/ Disconnect(c) \/ PrologueFails(c)
      PROVE  SessionInv'
  BY <1>3, TransactionEnds
<1>4. ASSUME NEW c \in Clients,
             \/ \E p \in Products : CallDeleteProduct(c, p)
             \/ \E p \in Products, q \in 1..MaxQty : CallAddStock(c, p, q)
             \/ Browse(c)
      PROVE  SessionInv'
  BY <1>4, NoRollbackSession
<1>5. QED
  BY <1>1, <1>2, <1>3, <1>4 DEF Next, Proceed, ProductCall

(* At first no client has a transaction.                                   *)
LEMMA InitSession == Init => SessionInv
  BY DEF Init, EngineInit, SessionInv, IdleHoldsNoLocks, DeletesWithoutLocks

(* Between two methods an application holds no row lock, so nobody waits   *)
(* for a user who is thinking: every except branch rolls back (order.py,   *)
(* lines 71, 114 and 149; product.py, lines 67 and 85).                    *)
THEOREM IdleNeverBlocks == Spec => []IdleHoldsNoLocks
<1>1. SessionInv => IdleHoldsNoLocks
  BY DEF SessionInv
<1>2. QED
  BY <1>1, InitInv1, StepInv1, InitSession, StepSession, PTL DEF Spec

-----------------------------------------------------------------------------
(* What the engine promises its clients: changed rows are locked by their  *)
(* author alone, and a row nobody is changing has one version.             *)
Locked ==
    /\ \A c \in Clients : written[c] \subseteq xlock[c]
    /\ \A c, d \in Clients : c # d => /\ xlock[c] \cap xlock[d] = {}
                                      /\ xlock[c] \cap slock[d] = {}
    /\ \A r \in Rows : newest[r] = committed[r] \/ \E c \in Clients : r \in written[c]

(* The items inserted for order o so far.                                  *)
SoFar(o) == IF newest[Items(o)] = Absent THEN <<>> ELSE newest[Items(o)]

(* What a step of client c does to the engine, in every method: the two    *)
(* writes that can break a reference keep what their guards have found.    *)
EngineStep(c) ==
    \/ UNCHANGED engine \/ OpenView(c) \/ Commit(c) \/ Rollback(c)
    \/ \E p \in Products, row \in ProductRow : Write(c, Prod(p), row, {})
    \/ \E p \in Products : /\ HoldsNothing(c)
                           /\ References(newest, p) = {}
                           /\ Write(c, Prod(p), Absent, ChildRows(p))
    \/ \E o \in OrderIds, v \in Statuses \cup {Absent} : Write(c, Ord(o), v, {})
    \/ \E o \in OrderIds : Write(c, Items(o), Absent, {})
    \/ \E o \in OrderIds, line \in Line :
          /\ newest[Prod(line.product)] # Absent
          /\ Write(c, Items(o), Append(SoFar(o), line), {Prod(line.product)})

-----------------------------------------------------------------------------
(* The rows of different tables, products and orders are different rows.   *)
LEMMA RowsDiffer ==
    /\ \A p, q : Prod(p) = Prod(q) => p = q
    /\ \A o, e : Ord(o) = Ord(e) => o = e
    /\ \A o, e : Items(o) = Items(e) => o = e
    /\ \A p, o : Prod(p) # Ord(o) /\ Prod(p) # Items(o)
    /\ \A o, e : Ord(o) # Items(e)
  BY DEF Prod, Ord, Items

(* A write keeps rows locked by their authors.                             *)
LEMMA WriteLocked ==
    ASSUME EngineTypes, Locked, NEW c \in Clients, NEW r \in Rows, NEW v,
           NEW parents \in SUBSET Rows, Write(c, r, v, parents)
    PROVE  Locked'
<1> USE DEF EngineTypes, IsContents, Locked, Write, MayWrite, MayShare
<1>1. (\A d \in Clients : written[d] \subseteq xlock[d])'
  OBVIOUS
<1>2. (\A b, d \in Clients : b # d => xlock[b] \cap xlock[d] = {}
                                      /\ xlock[b] \cap slock[d] = {})'
  OBVIOUS
<1>3. (\A q \in Rows : newest[q] = committed[q] \/ \E d \in Clients : q \in written[d])'
  OBVIOUS
<1>4. QED
  BY <1>1, <1>2, <1>3

(* So does the end of a transaction, whichever way it ends.                *)
LEMMA EndLocked ==
    ASSUME EngineTypes, Locked, NEW c \in Clients, Commit(c) \/ Rollback(c)
    PROVE  Locked'
<1> USE DEF EngineTypes, IsContents, Locked, Commit, Rollback, EndTransaction
<1>1. (\A d \in Clients : written[d] \subseteq xlock[d])'
  OBVIOUS
<1>2. (\A b, d \in Clients : b # d => xlock[b] \cap xlock[d] = {}
                                      /\ xlock[b] \cap slock[d] = {})'
  OBVIOUS
<1>3. (\A q \in Rows : newest[q] = committed[q] \/ \E d \in Clients : q \in written[d])'
  OBVIOUS
<1>4. QED
  BY <1>1, <1>2, <1>3

(* Every step is a step of the engine, or of none of its variables.        *)
LEMMA StepLocked ==
    ASSUME EngineTypes, Locked, NEW c \in Clients, EngineStep(c)
    PROVE  Locked'
<1>1. CASE UNCHANGED engine \/ OpenView(c)
  BY <1>1 DEF Locked, engine, OpenView
<1>2. CASE Commit(c) \/ Rollback(c)
  BY <1>2, EndLocked
<1>3. ASSUME NEW r \in Rows, NEW v, NEW parents \in SUBSET Rows, Write(c, r, v, parents)
      PROVE  Locked'
  BY <1>3, WriteLocked
<1>4. ASSUME NEW p \in Products, NEW row, Write(c, Prod(p), row, {}) PROVE Locked'
  BY <1>3, <1>4, RowsAndValues
<1>5. ASSUME NEW p \in Products, Write(c, Prod(p), Absent, ChildRows(p)) PROVE Locked'
  <2>1. ChildRows(p) \in SUBSET Rows
    BY RowsAndValues DEF ChildRows, References
  <2>2. QED
    BY <1>3, <1>5, <2>1, RowsAndValues
<1>6. ASSUME NEW o \in OrderIds, NEW v, Write(c, Ord(o), v, {}) \/ Write(c, Items(o), v, {})
      PROVE  Locked'
  BY <1>3, <1>6, RowsAndValues
<1>7. ASSUME NEW o \in OrderIds, NEW v, NEW line \in Line,
             Write(c, Items(o), v, {Prod(line.product)})
      PROVE  Locked'
  <2>1. {Prod(line.product)} \in SUBSET Rows
    BY RowsAndValues DEF Line
  <2>2. QED
    BY <1>3, <1>7, <2>1, RowsAndValues
<1>8. QED
  BY <1>1, <1>2, <1>4, <1>5, <1>6, <1>7 DEF EngineStep

-----------------------------------------------------------------------------
(* Foreign keys: a reference has its product, in the newest version and in *)
(* the committed one, and one that is not committed yet has its product    *)
(* locked in share mode by the transaction that wrote it.                  *)
Refers(tables, o, p) == o \in References(tables, p)

ProductsLast ==
    \A p \in Products, o \in OrderIds :
        Refers(newest, o, p) \/ Refers(committed, o, p) => newest[Prod(p)] # Absent

ProductsCommitted ==
    \A p \in Products, o \in OrderIds :
        Refers(committed, o, p) => committed[Prod(p)] # Absent

ProductsLocked ==
    \A p \in Products, o \in OrderIds :
        Refers(newest, o, p) /\ ~Refers(committed, o, p)
            => \E c \in Clients : Items(o) \in written[c] /\ Prod(p) \in slock[c]

ReferencesKept == ProductsLast /\ ProductsCommitted /\ ProductsLocked

(* Only the item row of an order decides which products it refers to.      *)
LEMMA SameItemsSameReferences ==
    ASSUME NEW t, NEW u, NEW o \in OrderIds, t[Items(o)] = u[Items(o)], NEW p
    PROVE  Refers(t, o, p) <=> Refers(u, o, p)
  BY DEF Refers, References

(* COMMIT publishes references whose products it still holds.              *)
LEMMA CommitReferences ==
    ASSUME EngineTypes, Locked, ReferencesKept, NEW c \in Clients, Commit(c)
    PROVE  ReferencesKept'
<1> USE DEF EngineTypes, IsContents, Commit, EndTransaction
<1>0. ASSUME NEW o \in OrderIds, NEW p \in Products
      PROVE  /\ Refers(newest', o, p) <=> Refers(newest, o, p)
             /\ Items(o) \in written[c] => (Refers(committed', o, p) <=> Refers(newest, o, p))
             /\ Items(o) \notin written[c]
                  => (Refers(committed', o, p) <=> Refers(committed, o, p))
  BY RowsAndValues, SameItemsSameReferences
<1>1. ProductsLast'
  BY <1>0 DEF ReferencesKept, ProductsLast
<1>2. ProductsCommitted'
  <2> SUFFICES ASSUME NEW p \in Products, NEW o \in OrderIds, Refers(committed', o, p)
               PROVE  committed'[Prod(p)] # Absent
    BY DEF ProductsCommitted
  <2>1. newest[Prod(p)] # Absent
    BY <1>0 DEF ReferencesKept, ProductsLast
  <2>2. CASE Refers(committed, o, p)
    BY <2>1, <2>2, RowsAndValues DEF ReferencesKept, ProductsCommitted
  <2>3. CASE ~Refers(committed, o, p)
    <3>1. PICK d \in Clients : Items(o) \in written[d] /\ Prod(p) \in slock[d]
      BY <1>0, <2>3 DEF ReferencesKept, ProductsLocked
    <3>2. d = c
      BY <1>0, <2>3, <3>1 DEF Locked
    <3>3. newest[Prod(p)] = committed[Prod(p)] \/ Prod(p) \in written[c]
      BY <3>1, <3>2, RowsAndValues DEF Locked
    <3>4. QED
      BY <2>1, <3>3, RowsAndValues
  <2>4. QED
    BY <2>2, <2>3
<1>3. ProductsLocked'
  <2> SUFFICES ASSUME NEW p \in Products, NEW o \in OrderIds,
                      Refers(newest', o, p), ~Refers(committed', o, p)
               PROVE  (\E d \in Clients : Items(o) \in written[d] /\ Prod(p) \in slock[d])'
    BY DEF ProductsLocked
  <2>1. Items(o) \notin written[c] /\ Refers(newest, o, p) /\ ~Refers(committed, o, p)
    BY <1>0
  <2>2. PICK d \in Clients : Items(o) \in written[d] /\ Prod(p) \in slock[d]
    BY <2>1 DEF ReferencesKept, ProductsLocked
  <2>3. QED
    BY <2>1, <2>2
<1>4. QED
  BY <1>1, <1>2, <1>3 DEF ReferencesKept

(* ROLLBACK brings no product row back to a state before the orders that   *)
(* refer to it: those hold it locked.                                      *)
LEMMA RollbackReferences ==
    ASSUME EngineTypes, Locked, ReferencesKept, NEW c \in Clients, Rollback(c)
    PROVE  ReferencesKept'
<1> USE DEF EngineTypes, IsContents, Rollback, EndTransaction
<1>0. ASSUME NEW o \in OrderIds, NEW p \in Products
      PROVE  /\ Refers(committed', o, p) <=> Refers(committed, o, p)
             /\ Items(o) \in written[c] => (Refers(newest', o, p) <=> Refers(committed, o, p))
             /\ Items(o) \notin written[c] => (Refers(newest', o, p) <=> Refers(newest, o, p))
  BY RowsAndValues, SameItemsSameReferences
<1>1. ProductsLast'
  <2> SUFFICES ASSUME NEW p \in Products, NEW o \in OrderIds,
                      Refers(newest', o, p) \/ Refers(committed', o, p)
               PROVE  newest'[Prod(p)] # Absent
    BY DEF ProductsLast
  <2>1. newest[Prod(p)] # Absent
    BY <1>0 DEF ReferencesKept, ProductsLast
  <2>2. CASE Refers(committed, o, p)
    BY <2>1, <2>2, RowsAndValues DEF ReferencesKept, ProductsCommitted
  <2>3. CASE ~Refers(committed, o, p)
    <3>1. Items(o) \notin written[c] /\ Refers(newest, o, p)
      BY <1>0, <2>3
    <3>2. PICK d \in Clients : Items(o) \in written[d] /\ Prod(p) \in slock[d]
      BY <2>3, <3>1 DEF ReferencesKept, ProductsLocked
    <3>3. Prod(p) \notin written[c]
      BY <3>1, <3>2 DEF Locked
    <3>4. QED
      BY <2>1, <3>3, RowsAndValues
  <2>4. QED
    BY <2>2, <2>3
<1>2. ProductsCommitted'
  BY <1>0 DEF ReferencesKept, ProductsCommitted
<1>3. ProductsLocked'
  <2> SUFFICES ASSUME NEW p \in Products, NEW o \in OrderIds,
                      Refers(newest', o, p), ~Refers(committed', o, p)
               PROVE  (\E d \in Clients : Items(o) \in written[d] /\ Prod(p) \in slock[d])'
    BY DEF ProductsLocked
  <2>1. Items(o) \notin written[c] /\ Refers(newest, o, p) /\ ~Refers(committed, o, p)
    BY <1>0
  <2>2. PICK d \in Clients : Items(o) \in written[d] /\ Prod(p) \in slock[d]
    BY <2>1 DEF ReferencesKept, ProductsLocked
  <2>3. QED
    BY <2>1, <2>2
<1>4. QED
  BY <1>1, <1>2, <1>3 DEF ReferencesKept

(* A write that changes no reference and removes no product keeps them.    *)
LEMMA OtherWriteReferences ==
    ASSUME EngineTypes, ReferencesKept, NEW c \in Clients, NEW r \in Rows, NEW v,
           NEW parents, Write(c, r, v, parents),
           \A p \in Products : r = Prod(p) => v # Absent,
           \A o \in OrderIds : r = Items(o) => v = Absent
    PROVE  ReferencesKept'
<1> USE DEF EngineTypes, IsContents, Write
<1>1. ASSUME NEW o \in OrderIds, NEW p \in Products
      PROVE  /\ Refers(committed', o, p) <=> Refers(committed, o, p)
             /\ Refers(newest', o, p) => Refers(newest, o, p)
  <2>1. CASE r = Items(o)
    BY <2>1, RowsAndValues DEF Refers, References
  <2>2. CASE r # Items(o)
    BY <2>2, RowsAndValues, SameItemsSameReferences
  <2>3. QED
    BY <2>1, <2>2
<1>2. ProductsLast'
  BY <1>1, RowsAndValues DEF ReferencesKept, ProductsLast
<1>3. ProductsCommitted'
  BY <1>1 DEF ReferencesKept, ProductsCommitted
<1>4. ProductsLocked'
  BY <1>1 DEF ReferencesKept, ProductsLocked
<1>5. QED
  BY <1>2, <1>3, <1>4 DEF ReferencesKept

(* INSERT INTO order_items: the product is there and locked from now on.   *)
LEMMA InsertReferences ==
    ASSUME EngineTypes, ReferencesKept, NEW c \in Clients, NEW e \in OrderIds,
           NEW line \in Line, newest[Prod(line.product)] # Absent,
           Write(c, Items(e), Append(SoFar(e), line), {Prod(line.product)})
    PROVE  ReferencesKept'
<1> USE DEF EngineTypes, IsContents, Write
<1>0. SoFar(e) \in Seq(Line) /\ line.product \in Products
  <2>1. newest[Items(e)] \in Seq(Line) \cup {Absent}
    BY RowsAndValues
  <2>2. QED
    BY <2>1 DEF SoFar, Line
<1>1. newest'[Items(e)] = Append(SoFar(e), line)
  BY RowsAndValues
<1>2. Items(e) \in written'[c] /\ Prod(line.product) \in slock'[c]
  <2>1. Append(SoFar(e), line) # newest[Items(e)]
    <3>1. Len(Append(SoFar(e), line)) = Len(SoFar(e)) + 1 /\ Len(SoFar(e)) \in Nat
      BY <1>0
    <3>2. Append(SoFar(e), line) \in Seq(Line)
      BY <1>0
    <3>3. QED
      BY <3>1, <3>2, ShopAssumption DEF SoFar, ShopAssumption
  <2>2. QED
    BY <2>1
<1>3. ASSUME NEW o \in OrderIds, NEW p \in Products
      PROVE  /\ Refers(committed', o, p) <=> Refers(committed, o, p)
             /\ Refers(newest', o, p) => Refers(newest, o, p)
                                           \/ (o = e /\ p = line.product)
  <2>1. CASE o = e
    <3>1. ASSUME NEW i \in DOMAIN Append(SoFar(e), line)
          PROVE  Append(SoFar(e), line)[i] = line
                   \/ /\ i \in DOMAIN SoFar(e)
                      /\ Append(SoFar(e), line)[i] = SoFar(e)[i]
      BY <1>0
    <3>2. \A i \in DOMAIN SoFar(e) : newest[Items(e)] # Absent /\ SoFar(e) = newest[Items(e)]
      BY DEF SoFar
    <3>3. QED
      BY <2>1, <1>1, <3>1, <3>2 DEF Refers, References
  <2>2. CASE o # e
    BY <2>2, RowsAndValues, RowsDiffer, SameItemsSameReferences
  <2>3. QED
    BY <2>1, <2>2
<1>4. ASSUME NEW p \in Products PROVE newest'[Prod(p)] = newest[Prod(p)]
  BY RowsAndValues, RowsDiffer
<1>5. ProductsLast'
  BY <1>3, <1>4 DEF ReferencesKept, ProductsLast
<1>6. ProductsCommitted'
  BY <1>3 DEF ReferencesKept, ProductsCommitted
<1>7. ProductsLocked'
  <2> SUFFICES ASSUME NEW p \in Products, NEW o \in OrderIds,
                      Refers(newest', o, p), ~Refers(committed', o, p)
               PROVE  (\E d \in Clients : Items(o) \in written[d] /\ Prod(p) \in slock[d])'
    BY DEF ProductsLocked
  <2>1. CASE o = e /\ p = line.product
    BY <2>1, <1>2
  <2>2. CASE Refers(newest, o, p)
    BY <2>2, <1>3 DEF ReferencesKept, ProductsLocked
  <2>3. QED
    BY <2>1, <2>2, <1>3
<1>8. QED
  BY <1>5, <1>6, <1>7 DEF ReferencesKept

(* DELETE FROM products: no version that could come back refers to it, for *)
(* the item rows of both are free of other transactions.                   *)
LEMMA DeleteReferences ==
    ASSUME EngineTypes, Locked, ReferencesKept, NEW c \in Clients, NEW q \in Products,
           HoldsNothing(c), References(newest, q) = {},
           Write(c, Prod(q), Absent, ChildRows(q))
    PROVE  ReferencesKept'
<1> USE DEF EngineTypes, IsContents, Write
<1>1. ASSUME NEW o \in OrderIds PROVE ~Refers(newest, o, q) /\ ~Refers(committed, o, q)
  <2>1. ~Refers(newest, o, q)
    BY DEF Refers
  <2>2. ASSUME Refers(committed, o, q) PROVE FALSE
    <3>1. Items(o) \in ChildRows(q)
      BY <2>2 DEF ChildRows, Refers
    <3>2. \A d \in Clients : Items(o) \notin written[d]
      BY <3>1 DEF MayShare, Locked, HoldsNothing
    <3>3. newest[Items(o)] = committed[Items(o)]
      BY <3>2, RowsAndValues DEF Locked
    <3>4. QED
      BY <2>1, <2>2, <3>3, SameItemsSameReferences
  <2>3. QED
    BY <2>1, <2>2
<1>2. ASSUME NEW o \in OrderIds, NEW p \in Products
      PROVE  /\ Refers(committed', o, p) <=> Refers(committed, o, p)
             /\ Refers(newest', o, p) <=> Refers(newest, o, p)
  BY RowsAndValues, RowsDiffer, SameItemsSameReferences
<1>3. ProductsLast'
  <2>1. ASSUME NEW p \in Products, p # q PROVE newest'[Prod(p)] = newest[Prod(p)]
    BY <2>1, RowsAndValues, RowsDiffer
  <2>2. QED
    BY <1>1, <1>2, <2>1 DEF ReferencesKept, ProductsLast
<1>4. ProductsCommitted'
  BY <1>2 DEF ReferencesKept, ProductsCommitted
<1>5. ProductsLocked'
  BY <1>2 DEF ReferencesKept, ProductsLocked
<1>6. QED
  BY <1>3, <1>4, <1>5 DEF ReferencesKept

(* Every step of the engine keeps the references.                          *)
LEMMA StepReferences ==
    ASSUME EngineTypes, Locked, ReferencesKept, NEW c \in Clients, EngineStep(c)
    PROVE  ReferencesKept'
<1>1. CASE UNCHANGED engine \/ OpenView(c)
  BY <1>1 DEF ReferencesKept, ProductsLast, ProductsCommitted, ProductsLocked, Refers,
              References, engine, OpenView
<1>2. CASE Commit(c) \/ Rollback(c)
  BY <1>2, CommitReferences, RollbackReferences
<1>3. ASSUME NEW p \in Products, NEW row \in ProductRow, Write(c, Prod(p), row, {})
      PROVE  ReferencesKept'
  <2>1. row # Absent
    BY ShopAssumption DEF ShopAssumption
  <2>2. QED
    BY <1>3, <2>1, OtherWriteReferences, RowsAndValues, RowsDiffer
<1>4. ASSUME NEW p \in Products, HoldsNothing(c), References(newest, p) = {},
             Write(c, Prod(p), Absent, ChildRows(p))
      PROVE  ReferencesKept'
  BY <1>4, DeleteReferences
<1>5. ASSUME NEW o \in OrderIds, NEW v, Write(c, Ord(o), v, {}) PROVE ReferencesKept'
  BY <1>5, OtherWriteReferences, RowsAndValues, RowsDiffer
<1>6. ASSUME NEW o \in OrderIds, Write(c, Items(o), Absent, {}) PROVE ReferencesKept'
  BY <1>6, OtherWriteReferences, RowsAndValues, RowsDiffer
<1>7. ASSUME NEW o \in OrderIds, NEW line \in Line, newest[Prod(line.product)] # Absent,
             Write(c, Items(o), Append(SoFar(o), line), {Prod(line.product)})
      PROVE  ReferencesKept'
  BY <1>7, InsertReferences
<1>8. QED
  BY <1>1, <1>2, <1>3, <1>4, <1>5, <1>6, <1>7 DEF EngineStep

-----------------------------------------------------------------------------
(* The calls, the ends of a transaction and the steps that only read.      *)
LEMMA SessionEngineStep ==
    ASSUME NEW c \in Clients,
           \/ OrderCall(c) \/ ProductCall(c) \/ Browse(c)
           \/ CommitCall(c) \/ HandleError(c) \/ LockError(c)
           \/ CommitReplyLost(c) \/ Disconnect(c) \/ PrologueFails(c)
    PROVE  UNCHANGED engine \/ OpenView(c) \/ Commit(c) \/ Rollback(c)
<1>1. CASE OrderCall(c)
  BY <1>1 DEF OrderCall, SaveTransaction, UpdateStatus, DeleteTransaction, CallAfterRollback
<1>2. CASE ProductCall(c)
  BY <1>2 DEF ProductCall, SaveProduct, CallDeleteProduct, CallAddStock, CallAfterRollback
<1>3. CASE \/ Browse(c) \/ CommitCall(c) \/ HandleError(c) \/ LockError(c)
           \/ CommitReplyLost(c) \/ Disconnect(c) \/ PrologueFails(c)
  BY <1>3 DEF Browse, CommitCall, HandleError, LockError, CommitReplyLost, Disconnect,
              PrologueFails, Lose, Publish, Raise
<1>4. QED
  BY <1>1, <1>2, <1>3

(* The statements of the order methods.                                    *)
LEMMA OrderEngineStep ==
    ASSUME Inv1, NEW c \in Clients, OrderStatement(c)
    PROVE  EngineStep(c)
<1> USE DEF Inv1, AppTypes, JobsReady, JobReady, ThisLine, SaveLabels, OrderLabels,
            OrderStep, EngineStep
<1> job[c] \in Job /\ job[c].lines \in Seq(Line)
  BY DEF Job
<1>1. CASE \/ SelectCustomer(c) \/ OrderIdsUsedUp(c) \/ ReadProduct(c) \/ RefuseLine(c)
           \/ ReadStatus(c) \/ ReadForDelete(c) \/ ReadItems(c)
  BY <1>1 DEF SelectCustomer, OrderIdsUsedUp, ReadProduct, RefuseLine, ReadStatus,
              ReadForDelete, ReadItems, Raise
<1>2. CASE InsertOrder(c)
  <2>1. "PENDING" \in Statuses
    BY DEF Statuses
  <2>2. QED
    BY <1>2, <2>1 DEF InsertOrder
<1>3. CASE InsertLine(c)
  <2>1. /\ job[c].order \in OrderIds
        /\ Head(job[c].lines) \in Line
    BY <1>3, Lines DEF InsertLine
  <2>2. QED
    BY <1>3, <2>1 DEF InsertLine, Raise, SoFar
<1>5. CASE DeductStock(c)
  <2> DEFINE line == ThisLine(c)
             p == line.product
             left == [newest[Prod(p)] EXCEPT !.stock = job[c].amount - line.qty]
  <2>1. /\ p \in Products /\ line.qty \in Nat
        /\ job[c].amount \in 0..MaxInt /\ line.qty <= job[c].amount
    BY <1>5, Lines DEF DeductStock
  <2>2. job[c].amount - line.qty \in 0..MaxInt
    BY <2>1, ShopAssumption DEF ShopAssumption
  <2>3. newest[Prod(p)] # Absent => newest[Prod(p)] \in ProductRow
    BY <2>1, RowsAndValues DEF EngineTypes, IsContents
  <2>4. newest[Prod(p)] # Absent => left \in ProductRow
    BY <2>2, <2>3 DEF ProductRow
  <2>5. UpdateProduct(c, p, left)
    BY <1>5 DEF DeductStock
  <2>6. QED
    BY <2>1, <2>4, <2>5 DEF UpdateProduct
<1>6. CASE Restock(c)
  <2> DEFINE p == ThisLine(c).product
             q == ThisLine(c).qty
             more == [newest[Prod(p)] EXCEPT !.stock = @ + q]
  <2>1. p \in Products /\ q \in Nat
    BY <1>6, Lines DEF Restock
  <2>2. ~Overflows(p, q) /\ newest[Prod(p)] # Absent => more \in ProductRow
    BY <2>1, AddedStock
  <2>3. QED
    BY <1>6, <2>1, <2>2 DEF Restock, Raise, UpdateProduct
<1>7. CASE WriteStatus(c)
  BY <1>7 DEF WriteStatus
<1>8. CASE DeleteLines(c) \/ DeleteHeader(c)
  BY <1>8 DEF DeleteLines, DeleteHeader, DeleteRow
<1>9. QED
  BY <1>1, <1>2, <1>3, <1>5, <1>6, <1>7, <1>8 DEF OrderStatement

(* The statements of the product methods.                                  *)
LEMMA ProductEngineStep ==
    ASSUME Inv1, SessionInv, NEW c \in Clients, ProductStatement(c)
    PROVE  EngineStep(c)
<1> USE DEF Inv1, AppTypes, JobsReady, JobReady, ProductStep, EngineStep
<1> job[c] \in Job
  OBVIOUS
<1>1. CASE InsertProduct(c)
  <2>1. NewProduct(job[c].amount) \in ProductRow /\ job[c].product \in Products
    BY <1>1, ShopAssumption
       DEF InsertProduct, NewProduct, ProductRow, ShopAssumption
  <2>2. QED
    BY <1>1, <2>1 DEF InsertProduct
<1>2. CASE AddStock(c)
  <2> DEFINE p == job[c].product
             q == job[c].amount
             more == [newest[Prod(p)] EXCEPT !.stock = @ + q, !.supplied = @ + q]
  <2>1. p \in Products /\ q \in Nat
    BY <1>2 DEF AddStock, Job
  <2>2. ~Overflows(p, q) /\ newest[Prod(p)] # Absent => more \in ProductRow
    BY <2>1, AddedStock
  <2>3. QED
    BY <1>2, <2>1, <2>2 DEF AddStock, Raise, UpdateProduct
<1>3. CASE DeleteProduct(c)
  <2>1. HoldsNothing(c) /\ job[c].product \in Products
    BY <1>3 DEF DeleteProduct, SessionInv, DeletesWithoutLocks
  <2>2. QED
    BY <1>3, <2>1 DEF DeleteProduct, Raise
<1>4. QED
  BY <1>1, <1>2, <1>3 DEF ProductStatement

(* Every action is a step of the engine.                                   *)
LEMMA ActionEngineStep ==
    ASSUME Inv1, SessionInv, NEW c \in Clients,
           \/ OrderCall(c) \/ ProductCall(c) \/ Browse(c) \/ Proceed(c)
           \/ CommitReplyLost(c) \/ Disconnect(c) \/ PrologueFails(c)
    PROVE  EngineStep(c)
  BY SessionEngineStep, OrderEngineStep, ProductEngineStep DEF Proceed, EngineStep

EngineInv == Locked /\ ReferencesKept

(* At first no order exists, so nothing is referred to.                    *)
LEMMA InitEngineInv == Init => EngineInv
<1> SUFFICES ASSUME Init PROVE EngineInv
  OBVIOUS
<1>1. Locked
  BY DEF Init, EngineInit, Locked
<1>2. \A o \in OrderIds : newest[Items(o)] = Absent /\ committed[Items(o)] = Absent
  BY RowsAndValues DEF Init, EngineInit, ProdRows, Prod, Items
<1>3. \A o \in OrderIds, p \in Products : ~Refers(newest, o, p) /\ ~Refers(committed, o, p)
  BY <1>2 DEF Refers, References
<1>4. QED
  BY <1>1, <1>3 DEF EngineInv, ReferencesKept, ProductsLast, ProductsCommitted, ProductsLocked

(* And every step keeps both parts.                                        *)
LEMMA StepEngineInv == Inv1 /\ SessionInv /\ EngineInv /\ [Next]_vars => EngineInv'
<1> SUFFICES ASSUME Inv1, SessionInv, EngineInv, [Next]_vars PROVE EngineInv'
  OBVIOUS
<1>1. CASE UNCHANGED vars
  BY <1>1 DEF EngineInv, Locked, ReferencesKept, ProductsLast, ProductsCommitted,
              ProductsLocked, Refers, References, vars, engine
<1>2. CASE Next
  BY <1>2, ActionEngineStep, StepLocked, StepReferences DEF Next, EngineInv, Inv1
<1>3. QED
  BY <1>1, <1>2

(* No committed item refers to a product that does not exist: InsertLine   *)
(* keeps the product it found locked in share mode until its COMMIT, and   *)
(* delete_product looks at item rows no other transaction is changing      *)
(* (order.py, line 63, against product.py, line 80).                       *)
THEOREM ReferencesHold == Spec => []NoDanglingLines
<1>1. EngineInv => NoDanglingLines
  <2> SUFFICES ASSUME EngineInv, NEW p \in Products, NEW o \in References(committed, p)
               PROVE  committed[Prod(p)] # Absent
    BY DEF NoDanglingLines
  <2>1. o \in OrderIds /\ Refers(committed, o, p)
    BY DEF References, Refers
  <2>2. QED
    BY <2>1 DEF EngineInv, ReferencesKept, ProductsCommitted
<1>2. QED
  BY <1>1, InitInv1, StepInv1, InitSession, StepSession, InitEngineInv, StepEngineInv, PTL
     DEF Spec

-----------------------------------------------------------------------------
(* Where a method can be, by the operation it carries out.                 *)
OpFits(c) ==
    /\ pc[c] \in SaveLabels => job[c].op = "save"
    /\ pc[c] \in {"status_read", "status_write"} => job[c].op = "status"
    /\ pc[c] \in {"delete_read", "delete_lines", "delete_header"} => job[c].op = "delete"
    /\ pc[c] \in {"items_read", "restock"} => job[c].op \in {"status", "delete"}
    /\ pc[c] \in {"insert_product", "add_stock", "delete_product"} =>
          job[c].op \in {"new", "add", "remove"}

(* A method changes the rows of its own order and of no other, and save    *)
(* has none before it has inserted one.                                    *)
OwnOrder(c) ==
    /\ pc[c] # "raise" =>
          \A o \in OrderIds :
              Ord(o) \in written[c] \/ Items(o) \in written[c] =>
                  o = job[c].order /\ job[c].op \in {"save", "status", "delete"}
    /\ pc[c] \in {"save_customer", "save_header"} => job[c].order = NoOrder

(* Orders are changed and deleted by the ids on the screens.               *)
KnownOrder(c) ==
    job[c].op \in {"status", "delete"} =>
        job[c].order \in OrderIds /\ Ord(job[c].order) \in listed

(* An order being saved belongs to its author alone: what it has of the    *)
(* items it was placed with and what is still to come make up the list.    *)
Saves(c) == \/ pc[c] \in {"save_read", "save_line", "save_stock"}
            \/ pc[c] = "commit" /\ job[c].op = "save"

ToCome(c) == CASE pc[c] \in {"save_read", "save_line"} -> job[c].lines
               [] pc[c] = "save_stock"                 -> Tail(job[c].lines)
               [] OTHER                                -> <<>>

HalfSaved(c, o) ==
    /\ o \in OrderIds
    /\ Ord(o) \in written[c] /\ Ord(o) \notin listed
    /\ newest[Ord(o)] # Absent /\ committed[Ord(o)] = Absent
    /\ newest[Items(o)] # Absent => Items(o) \in written[c]
    /\ placed[o] # <<>>
    /\ placed[o] = SoFar(o) \o ToCome(c)

SavesWhole(c) == Saves(c) => HalfSaved(c, job[c].order)

(* A new status goes to an order that is there, and to its header only.    *)
ChangesHeader(c) ==
    job[c].op = "status" /\ pc[c] # "raise" =>
        /\ Items(job[c].order) \notin written[c]
        /\ Ord(job[c].order) \in written[c] =>
              newest[Ord(job[c].order)] # Absent /\ committed[Ord(job[c].order)] # Absent

(* A row delete_transaction is done with will be gone after its COMMIT.    *)
Gone(c, r) == newest[r] = Absent /\ (r \in written[c] \/ committed[r] = Absent)

DeletesWhole(c) ==
    /\ pc[c] = "delete_header" => Gone(c, Items(job[c].order))
    /\ pc[c] = "commit" /\ job[c].op = "delete" =>
          Gone(c, Items(job[c].order)) /\ Gone(c, Ord(job[c].order))

Work(c) == /\ OpFits(c) /\ OwnOrder(c) /\ KnownOrder(c)
           /\ SavesWhole(c) /\ ChangesHeader(c) /\ DeletesWhole(c)

(* Ids AUTO_INCREMENT has not handed out have no rows in any version.      *)
UnusedIds ==
    \A o \in OrderIds : o >= nextOrder =>
        /\ Ord(o) \notin listed
        /\ newest[Ord(o)] = Absent /\ committed[Ord(o)] = Absent
        /\ newest[Items(o)] = Absent /\ committed[Items(o)] = Absent

(* Items change in the transaction that inserts their order, or after it   *)
(* was committed.                                                          *)
ItemsAfterOrder ==
    \A c \in Clients, o \in OrderIds :
        Items(o) \in written[c] => Ord(o) \in written[c] \cup listed

OrderInv == /\ OrdersWhole /\ UnusedIds /\ ItemsAfterOrder
            /\ \A c \in Clients : Work(c)

-----------------------------------------------------------------------------
(* What a step of c does to orders: nothing, one of the four statements    *)
(* that change them, COMMIT or ROLLBACK.                                   *)
OrdersKept(c) ==
    /\ \A o \in OrderIds :
          /\ newest'[Ord(o)] = newest[Ord(o)] /\ committed'[Ord(o)] = committed[Ord(o)]
          /\ newest'[Items(o)] = newest[Items(o)]
          /\ committed'[Items(o)] = committed[Items(o)]
          /\ Ord(o) \in written'[c] <=> Ord(o) \in written[c]
          /\ Items(o) \in written'[c] <=> Items(o) \in written[c]
    /\ UNCHANGED <<nextOrder, history>>

OrderEffect(c) ==
    \/ OrdersKept(c)
    \/ /\ nextOrder \in OrderIds
       /\ Write(c, Ord(nextOrder), "PENDING", {})
       /\ placed' = [placed EXCEPT ![nextOrder] = job[c].lines]
       /\ nextOrder' = nextOrder + 1
       /\ UNCHANGED listed
    \/ \E o \in OrderIds, v \in Seq(Line), parents \in SUBSET Rows :
          /\ Ord(o) \in written[c] /\ Ord(o) \notin listed /\ newest[Ord(o)] # Absent
          /\ Write(c, Items(o), v, parents)
          /\ UNCHANGED <<nextOrder, history>>
    \/ \E o \in OrderIds, v \in Statuses \cup {Absent} :
          /\ Ord(o) \in listed /\ newest[Ord(o)] # Absent
          /\ Write(c, Ord(o), v, {})
          /\ UNCHANGED <<nextOrder, history>>
    \/ \E o \in OrderIds :
          /\ Ord(o) \in listed
          /\ Write(c, Items(o), Absent, {})
          /\ UNCHANGED <<nextOrder, history>>
    \/ Publish(c) /\ pc[c] = "commit" /\ UNCHANGED <<nextOrder, placed>>
    \/ Rollback(c) /\ UNCHANGED <<nextOrder, history>>

-----------------------------------------------------------------------------
(* An order on a screen, or under way, has an id that was handed out.      *)
LEMMA UsedId ==
    ASSUME UnusedIds, nextOrder \in Nat, NEW o \in OrderIds,
           Ord(o) \in listed \/ newest[Ord(o)] # Absent
    PROVE  o < nextOrder
<1>1. ~(o >= nextOrder)
  BY DEF UnusedIds
<1>2. o \in Nat
  BY ShopAssumption DEF OrderIds, ShopAssumption
<1>3. QED
  BY <1>1, <1>2

(* Nobody else's changed rows are touched by a step of c.                  *)
LEMMA OthersRowsKept ==
    ASSUME EngineTypes, Locked, NEW c \in Clients, OrderEffect(c),
           NEW d \in Clients, d # c, NEW o \in OrderIds
    PROVE  /\ Ord(o) \in written[d] => /\ newest'[Ord(o)] = newest[Ord(o)]
                                       /\ committed'[Ord(o)] = committed[Ord(o)]
           /\ Items(o) \in written[d] => /\ newest'[Items(o)] = newest[Items(o)]
                                         /\ committed'[Items(o)] = committed[Items(o)]
<1> USE DEF EngineTypes, IsContents
<1>1. CASE OrdersKept(c)
  BY <1>1 DEF OrdersKept
<1>2. ASSUME NEW r \in Rows, NEW v, NEW parents, Write(c, r, v, parents),
             NEW q \in Rows, q \in written[d]
      PROVE  newest'[q] = newest[q] /\ committed'[q] = committed[q]
  <2>1. q # r
    BY <1>2 DEF Write, MayWrite, Locked
  <2>2. QED
    BY <1>2, <2>1 DEF Write
<1>3. CASE Commit(c) \/ Rollback(c)
  <2>1. \A q \in Rows : q \in written[d] => q \notin written[c]
    BY DEF Locked
  <2>2. QED
    BY <1>3, <2>1, RowsAndValues DEF Commit, Rollback
<1>4. QED
  BY <1>1, <1>2, <1>3, RowsAndValues DEF OrderEffect, Publish

(* An order another client is saving, and has not committed, stays as it   *)
(* is: its items are out of reach, and it is not on any screen.            *)
LEMMA OthersOrderKept ==
    ASSUME Inv1, Locked, UnusedIds, ItemsAfterOrder,
           NEW c \in Clients, OrderEffect(c), NEW d \in Clients, d # c, NEW o \in OrderIds,
           Ord(o) \in written[d], Ord(o) \notin listed,
           newest[Ord(o)] # Absent, committed[Ord(o)] = Absent
    PROVE  /\ newest'[Ord(o)] = newest[Ord(o)] /\ committed'[Ord(o)] = committed[Ord(o)]
           /\ newest'[Items(o)] = newest[Items(o)]
           /\ placed'[o] = placed[o]
           /\ Ord(o) \notin listed'
<1> USE DEF Inv1, EngineTypes, AppTypes, IsContents
<1>0. Ord(o) \in Rows /\ Items(o) \in Rows
  BY RowsAndValues
<1>1. newest'[Ord(o)] = newest[Ord(o)] /\ committed'[Ord(o)] = committed[Ord(o)]
  BY OthersRowsKept
<1>2. Ord(o) \notin written[c] /\ Items(o) \notin written[c]
  <2>1. Ord(o) \notin written[c]
    BY DEF Locked
  <2>2. QED
    BY <2>1 DEF ItemsAfterOrder
<1>3. o < nextOrder
  BY UsedId
<1>4. CASE OrdersKept(c)
  BY <1>1, <1>4 DEF OrdersKept, history
<1>5. ASSUME NEW r \in Rows, NEW v, NEW parents, Write(c, r, v, parents), r # Items(o)
      PROVE  newest'[Items(o)] = newest[Items(o)]
  BY <1>5, <1>0 DEF Write
<1>6. CASE /\ nextOrder \in OrderIds
           /\ Write(c, Ord(nextOrder), "PENDING", {})
           /\ placed' = [placed EXCEPT ![nextOrder] = job[c].lines]
           /\ UNCHANGED listed
  BY <1>1, <1>3, <1>5, <1>6, RowsDiffer, RowsAndValues DEF OrderIds
<1>7. ASSUME NEW e \in OrderIds, NEW v, NEW parents, Write(c, Items(e), v, parents),
             Ord(e) \in written[c] \cup listed, UNCHANGED history
      PROVE  newest'[Items(o)] = newest[Items(o)] /\ UNCHANGED <<placed, listed>>
  <2>1. e # o
    BY <1>2, <1>7
  <2>2. QED
    BY <1>5, <1>7, <2>1, RowsDiffer, RowsAndValues DEF history
<1>8. ASSUME NEW e \in OrderIds, NEW v, Write(c, Ord(e), v, {}), UNCHANGED history
      PROVE  newest'[Items(o)] = newest[Items(o)] /\ UNCHANGED <<placed, listed>>
  BY <1>5, <1>8, RowsDiffer, RowsAndValues DEF history
<1>9. CASE Publish(c) /\ UNCHANGED placed
  BY <1>0, <1>1, <1>9 DEF Publish, Commit
<1>10. CASE Rollback(c) /\ UNCHANGED history
  BY <1>0, <1>1, <1>2, <1>10 DEF Rollback, history
<1>11. QED
  BY <1>1, <1>4, <1>6, <1>7, <1>8, <1>9, <1>10 DEF OrderEffect

(* A row of a committed order that is gone for good, or whose deletion its *)
(* client has under way, does not come back.                               *)
LEMMA OthersGone ==
    ASSUME Inv1, Locked, UnusedIds, NEW c \in Clients, OrderEffect(c),
           NEW d \in Clients, d # c, written'[d] = written[d],
           NEW o \in OrderIds, Ord(o) \in listed, NEW r \in {Ord(o), Items(o)}, Gone(d, r)
    PROVE  Gone(d, r)'
<1> USE DEF Inv1, EngineTypes, AppTypes, IsContents, Gone
<1>0. r \in Rows /\ o < nextOrder
  BY RowsAndValues, UsedId
<1>1. CASE r \in written[d]
  BY <1>1, OthersRowsKept
<1>2. CASE newest[r] = Absent /\ committed[r] = Absent
  <2>1. CASE OrdersKept(c)
    BY <1>2, <2>1 DEF OrdersKept
  <2>2. ASSUME NEW q \in Rows, NEW v, NEW parents, Write(c, q, v, parents),
               q # r \/ v = Absent
        PROVE  newest'[r] = Absent /\ committed'[r] = Absent
    BY <1>0, <1>2, <2>2 DEF Write
  <2>3. CASE nextOrder \in OrderIds /\ Write(c, Ord(nextOrder), "PENDING", {})
    BY <1>0, <2>2, <2>3, RowsDiffer, RowsAndValues DEF OrderIds
  <2>4. ASSUME NEW e \in OrderIds, NEW v, NEW parents, Write(c, Items(e), v, parents),
               Ord(e) \notin listed \/ v = Absent
        PROVE  newest'[r] = Absent /\ committed'[r] = Absent
    BY <2>2, <2>4, RowsDiffer, RowsAndValues
  <2>5. ASSUME NEW e \in OrderIds, NEW v, Write(c, Ord(e), v, {}), newest[Ord(e)] # Absent
        PROVE  newest'[r] = Absent /\ committed'[r] = Absent
    BY <1>2, <2>2, <2>5, RowsDiffer, RowsAndValues
  <2>6. CASE Commit(c) \/ Rollback(c)
    BY <1>0, <1>2, <2>6 DEF Commit, Rollback
  <2>7. QED
    BY <2>1, <2>3, <2>4, <2>5, <2>6 DEF OrderEffect, Publish
<1>3. QED
  BY <1>1, <1>2

(* Rows are never taken off the screens.                                   *)
LEMMA ListedGrows ==
    ASSUME NEW c \in Clients, OrderEffect(c)
    PROVE  listed \subseteq listed'
  BY DEF OrderEffect, OrdersKept, Publish, history

(* The work of the others is none of c's business.                         *)
LEMMA OthersWork ==
    ASSUME Inv1, Locked, OrderInv, NEW c \in Clients, OrderEffect(c),
           NEW d \in Clients, d # c,
           pc'[d] = pc[d], job'[d] = job[d], written'[d] = written[d]
    PROVE  Work(d)'
<1> DEFINE o == job[d].order
<1>0. Work(d) /\ UnusedIds /\ ItemsAfterOrder
  BY DEF OrderInv
<1>1. OpFits(d)' /\ OwnOrder(d)'
  BY <1>0 DEF Work, OpFits, OwnOrder
<1>2. KnownOrder(d)'
  BY <1>0, ListedGrows DEF Work, KnownOrder
<1>3. SavesWhole(d)'
  <2> SUFFICES ASSUME Saves(d) PROVE HalfSaved(d, o)'
    BY DEF SavesWhole, Saves
  <2>1. HalfSaved(d, o)
    BY <1>0 DEF Work, SavesWhole
  <2>2. /\ newest'[Ord(o)] = newest[Ord(o)] /\ committed'[Ord(o)] = committed[Ord(o)]
        /\ newest'[Items(o)] = newest[Items(o)]
        /\ placed'[o] = placed[o] /\ Ord(o) \notin listed'
    BY <1>0, <2>1, OthersOrderKept DEF HalfSaved
  <2>3. ToCome(d)' = ToCome(d) /\ SoFar(o)' = SoFar(o)
    BY <2>2 DEF ToCome, SoFar
  <2>4. QED
    BY <2>1, <2>2, <2>3 DEF HalfSaved
<1>4. ChangesHeader(d)'
  <2> SUFFICES ASSUME job[d].op = "status", pc[d] # "raise" PROVE ChangesHeader(d)'
    BY DEF ChangesHeader
  <2>1. o \in OrderIds /\ ChangesHeader(d)
    BY <1>0 DEF Work, KnownOrder
  <2>2. Ord(o) \in written[d] => /\ newest'[Ord(o)] = newest[Ord(o)]
                                 /\ committed'[Ord(o)] = committed[Ord(o)]
    BY <2>1, OthersRowsKept DEF Inv1
  <2>3. QED
    BY <2>1, <2>2 DEF ChangesHeader
<1>5. DeletesWhole(d)'
  <2> SUFFICES ASSUME pc[d] = "delete_header" \/ (pc[d] = "commit" /\ job[d].op = "delete")
               PROVE  DeletesWhole(d)'
    BY DEF DeletesWhole
  <2>1. o \in OrderIds /\ Ord(o) \in listed
    BY <1>0 DEF Work, OpFits, KnownOrder
  <2>2. \A r \in {Ord(o), Items(o)} : Gone(d, r) => Gone(d, r)'
    BY <1>0, <2>1, OthersGone
  <2>3. QED
    BY <1>0, <2>2 DEF Work, DeletesWhole
<1>6. QED
  BY <1>1, <1>2, <1>3, <1>4, <1>5 DEF Work

-----------------------------------------------------------------------------
(* Ids are handed out one after the other.                                 *)
LEMMA StepUnused ==
    ASSUME Inv1, UnusedIds, NEW c \in Clients, OrderEffect(c)
    PROVE  UnusedIds'
<1> SUFFICES ASSUME NEW o \in OrderIds, (o >= nextOrder)'
             PROVE  /\ Ord(o) \notin listed'
                    /\ newest'[Ord(o)] = Absent /\ committed'[Ord(o)] = Absent
                    /\ newest'[Items(o)] = Absent /\ committed'[Items(o)] = Absent
  BY DEF UnusedIds
<1> USE DEF Inv1, EngineTypes, AppTypes, IsContents
<1>0. o \in Nat /\ nextOrder \in Nat
  BY ShopAssumption DEF OrderIds, ShopAssumption
<1>1. o >= nextOrder /\ nextOrder' \in {nextOrder, nextOrder + 1}
  <2>1. nextOrder' \in {nextOrder, nextOrder + 1}
    BY DEF OrderEffect, OrdersKept
  <2>2. QED
    BY <1>0, <2>1
<1>2. /\ Ord(o) \notin listed
      /\ newest[Ord(o)] = Absent /\ committed[Ord(o)] = Absent
      /\ newest[Items(o)] = Absent /\ committed[Items(o)] = Absent
  BY <1>1 DEF UnusedIds
<1>3. CASE OrdersKept(c)
  BY <1>2, <1>3 DEF OrdersKept, history
<1>4. ASSUME NEW r \in Rows, NEW v, NEW parents, Write(c, r, v, parents),
             r # Ord(o), r # Items(o), UNCHANGED listed
      PROVE  /\ Ord(o) \notin listed'
             /\ newest'[Ord(o)] = Absent /\ committed'[Ord(o)] = Absent
             /\ newest'[Items(o)] = Absent /\ committed'[Items(o)] = Absent
  BY <1>2, <1>4, RowsAndValues DEF Write
<1>5. CASE /\ nextOrder \in OrderIds /\ Write(c, Ord(nextOrder), "PENDING", {})
           /\ nextOrder' = nextOrder + 1 /\ UNCHANGED listed
  <2>1. o # nextOrder
    BY <1>0, <1>5
  <2>2. QED
    BY <1>4, <1>5, <2>1, RowsDiffer, RowsAndValues
<1>6. ASSUME NEW e \in OrderIds, NEW v, NEW parents,
             Write(c, Ord(e), v, parents) \/ Write(c, Items(e), v, parents),
             Ord(e) \in listed \/ newest[Ord(e)] # Absent, UNCHANGED listed
      PROVE  /\ Ord(o) \notin listed'
             /\ newest'[Ord(o)] = Absent /\ committed'[Ord(o)] = Absent
             /\ newest'[Items(o)] = Absent /\ committed'[Items(o)] = Absent
  <2>1. e # o
    BY <1>2, <1>6
  <2>2. QED
    BY <1>4, <1>6, <2>1, RowsDiffer, RowsAndValues
<1>7. CASE Publish(c)
  BY <1>2, <1>7, RowsAndValues DEF Publish, Commit
<1>8. CASE Rollback(c) /\ UNCHANGED listed
  BY <1>2, <1>8, RowsAndValues DEF Rollback
<1>9. QED
  BY <1>3, <1>5, <1>6, <1>7, <1>8 DEF OrderEffect, history

(* The items of an order follow its header into the tables.                *)
LEMMA StepItems ==
    ASSUME Inv1, ItemsAfterOrder, NEW c \in Clients, OrderEffect(c),
           \A d \in Clients \ {c} : written'[d] = written[d]
    PROVE  ItemsAfterOrder'
<1> SUFFICES ASSUME NEW d \in Clients, NEW o \in OrderIds, Items(o) \in written'[d]
             PROVE  Ord(o) \in written'[d] \cup listed'
  BY DEF ItemsAfterOrder
<1> USE DEF Inv1, EngineTypes, AppTypes, IsContents
<1>1. CASE d # c
  BY <1>1, ListedGrows DEF ItemsAfterOrder
<1>2. CASE d = c /\ OrdersKept(c)
  BY <1>2 DEF ItemsAfterOrder, OrdersKept, history
<1>3. ASSUME d = c, NEW r \in Rows, NEW v, NEW parents, Write(c, r, v, parents),
             r = Items(o) => Ord(o) \in written[c] \cup listed
      PROVE  Ord(o) \in written'[d] \cup listed'
  BY <1>3, ListedGrows DEF ItemsAfterOrder, Write
<1>4. CASE Commit(c) \/ Rollback(c)
  BY <1>1, <1>4 DEF Commit, Rollback, EndTransaction
<1>5. QED
  BY <1>1, <1>2, <1>3, <1>4, RowsDiffer, RowsAndValues DEF OrderEffect, Publish

-----------------------------------------------------------------------------
(* COMMIT publishes a whole order, a new status of one that is there, or   *)
(* the end of both its rows.                                               *)
LEMMA CommitWhole ==
    ASSUME Inv1, OrdersWhole, NEW c \in Clients, Work(c), pc[c] = "commit", Publish(c),
           placed' = placed
    PROVE  OrdersWhole'
<1> SUFFICES ASSUME NEW o \in OrderIds
             PROVE  committed'[Items(o)] = IF committed'[Ord(o)] = Absent THEN Absent
                                                                          ELSE placed[o]
  BY DEF OrdersWhole
<1>0. /\ committed'[Ord(o)] = IF Ord(o) \in written[c] THEN newest[Ord(o)]
                                                        ELSE committed[Ord(o)]
      /\ committed'[Items(o)] = IF Items(o) \in written[c] THEN newest[Items(o)]
                                                            ELSE committed[Items(o)]
  BY RowsAndValues DEF Publish, Commit
<1>1. committed[Items(o)] = IF committed[Ord(o)] = Absent THEN Absent ELSE placed[o]
  BY DEF OrdersWhole
<1>2. CASE Ord(o) \notin written[c] /\ Items(o) \notin written[c]
  BY <1>0, <1>1, <1>2
<1>3. CASE Ord(o) \in written[c] \/ Items(o) \in written[c]
  <2>1. o = job[c].order /\ job[c].op \in {"save", "status", "delete"}
    BY <1>3 DEF Work, OwnOrder
  <2>2. CASE job[c].op = "save"
    <3>1. HalfSaved(c, o) /\ ToCome(c) = <<>>
      BY <2>1, <2>2 DEF Work, SavesWhole, Saves, ToCome
    <3>2. SoFar(o) \in Seq(Line)
      <4>1. newest[Items(o)] \in Seq(Line) \cup {Absent}
        BY RowsAndValues DEF Inv1, EngineTypes, IsContents
      <4>2. QED
        BY <4>1 DEF SoFar
    <3>3. placed[o] = SoFar(o) /\ SoFar(o) # <<>>
      BY <3>1, <3>2 DEF HalfSaved
    <3>4. newest[Items(o)] = placed[o] /\ Items(o) \in written[c]
      BY <3>1, <3>3 DEF HalfSaved, SoFar
    <3>5. QED
      BY <1>0, <3>1, <3>4 DEF HalfSaved
  <2>3. CASE job[c].op = "status"
    BY <1>0, <1>1, <2>1, <2>3 DEF Work, ChangesHeader
  <2>4. CASE job[c].op = "delete"
    BY <1>0, <2>1, <2>4 DEF Work, DeletesWhole, Gone
  <2>5. QED
    BY <2>1, <2>2, <2>3, <2>4
<1>4. QED
  BY <1>2, <1>3

(* No other step changes what is committed.                                *)
LEMMA StepWhole ==
    ASSUME Inv1, OrderInv, NEW c \in Clients, OrderEffect(c)
    PROVE  OrdersWhole'
<1> USE DEF OrderInv
<1>1. CASE OrdersKept(c)
  BY <1>1 DEF OrdersKept, OrdersWhole, history
<1>2. CASE /\ committed' = committed
           /\ nextOrder \in OrderIds
           /\ placed' = [placed EXCEPT ![nextOrder] = job[c].lines]
  <2>1. /\ committed[Ord(nextOrder)] = Absent /\ committed[Items(nextOrder)] = Absent
        /\ \A o \in OrderIds : o # nextOrder => placed'[o] = placed[o]
    BY <1>2 DEF UnusedIds, Inv1, AppTypes
  <2>2. QED
    BY <1>2, <2>1 DEF OrdersWhole
<1>3. CASE committed' = committed /\ placed' = placed
  BY <1>3 DEF OrdersWhole
<1>4. CASE Publish(c) /\ pc[c] = "commit" /\ placed' = placed
  BY <1>4, CommitWhole
<1>5. QED
  BY <1>1, <1>2, <1>3, <1>4 DEF OrderEffect, Write, Rollback, history

-----------------------------------------------------------------------------
(* Product rows are no order rows.                                         *)
LEMMA ProductWriteKeepsOrders ==
    ASSUME Inv1, NEW c \in Clients, NEW p \in Products, NEW v, NEW parents,
           Write(c, Prod(p), v, parents), UNCHANGED <<nextOrder, history>>
    PROVE  OrdersKept(c)
  BY RowsAndValues, RowsDiffer
     DEF Inv1, EngineTypes, IsContents, OrdersKept, Write

(* Neither do reads change orders, nor statements that fail.               *)
LEMMA ReadKeepsOrders ==
    ASSUME NEW c \in Clients, UNCHANGED engine \/ OpenView(c),
           UNCHANGED <<nextOrder, history>>
    PROVE  OrdersKept(c)
  BY DEF OrdersKept, engine, OpenView

(* The work of a client at a statement that changes no order, before and   *)
(* after: its rows stay, and what is to come stays the same.               *)
LEMMA WorkKept ==
    ASSUME NEW c \in Clients, Work(c), OrdersKept(c),
           job'[c].op = job[c].op, job'[c].order = job[c].order,
           pc'[c] # "delete_header", pc'[c] = "commit" => job[c].op # "delete",
           OpFits(c)', Saves(c)' => Saves(c) /\ ToCome(c)' = ToCome(c),
           pc[c] = "raise" => pc'[c] = "raise",
           pc'[c] \in {"save_customer", "save_header"} => pc[c] = "save_customer"
    PROVE  Work(c)'
<1> USE DEF Work, OrdersKept, history
<1>1. OwnOrder(c)'
  BY DEF OwnOrder, OpFits, SaveLabels
<1>2. KnownOrder(c)'
  BY DEF KnownOrder
<1>3. SavesWhole(c)'
  <2> SUFFICES ASSUME Saves(c)' PROVE HalfSaved(c, job[c].order)'
    BY DEF SavesWhole
  <2>1. HalfSaved(c, job[c].order) /\ ToCome(c)' = ToCome(c)
    BY DEF SavesWhole
  <2>2. SoFar(job[c].order)' = SoFar(job[c].order)
    BY <2>1 DEF SoFar, HalfSaved
  <2>3. QED
    BY <2>1, <2>2 DEF HalfSaved
<1>4. ChangesHeader(c)'
  BY DEF ChangesHeader, KnownOrder
<1>5. DeletesWhole(c)'
  BY DEF DeletesWhole
<1>6. QED
  BY <1>1, <1>2, <1>3, <1>4, <1>5

(* The work of a client that has changed nothing, or nothing any more.     *)
LEMMA NoWork ==
    ASSUME NEW c \in Clients, written'[c] = {},
           pc'[c] \notin {"save_read", "save_line", "save_stock", "delete_header", "commit"},
           OpFits(c)', KnownOrder(c)', pc'[c] \in SaveLabels => job'[c].order = NoOrder
    PROVE  Work(c)'
  BY DEF Work, OwnOrder, SavesWhole, Saves, ChangesHeader, DeletesWhole, SaveLabels

-----------------------------------------------------------------------------
(* Calls: the transaction is new, or empty still.                          *)
LEMMA CallWork ==
    ASSUME Inv1, SessionInv, NEW c \in Clients, OrderCall(c) \/ ProductCall(c)
    PROVE  OrderEffect(c) /\ Work(c)'
<1> USE DEF Inv1, AppTypes, NoJob, OpFits, KnownOrder, SaveLabels, Goto, Call
<1>1. CASE OrderCall(c)
  <2>1. written'[c] = {}
    BY <1>1, TransactionEnds DEF HoldsNothing
  <2>2. Rollback(c) /\ UNCHANGED <<nextOrder, history>>
    BY <1>1 DEF OrderCall, SaveTransaction, UpdateStatus, DeleteTransaction,
                CallAfterRollback
  <2>3. CASE \E lines \in LineLists : SaveTransaction(c, lines)
    BY <2>1, <2>2, <2>3, NoWork DEF SaveTransaction, CallAfterRollback, OrderEffect
  <2>4. ASSUME NEW o \in OrderIds, Ord(o) \in listed, DeleteTransaction(c, o)
        PROVE  OrderEffect(c) /\ Work(c)'
    <3>1. Work(c)'
      BY <2>1, <2>2, <2>4, NoWork DEF DeleteTransaction, CallAfterRollback, history
    <3>2. QED
      BY <2>2, <3>1 DEF OrderEffect
  <2>5. ASSUME NEW o \in OrderIds, Ord(o) \in listed,
               NEW status \in NewStatuses, UpdateStatus(c, o, status)
        PROVE  OrderEffect(c) /\ Work(c)'
    <3>1. Work(c)'
      BY <2>1, <2>2, <2>5, NoWork DEF UpdateStatus, CallAfterRollback, history
    <3>2. QED
      BY <2>2, <3>1 DEF OrderEffect
  <2>6. QED
    BY <1>1, <2>3, <2>4, <2>5 DEF OrderCall
<1>2. CASE \E p \in Products, n \in NewStock : SaveProduct(c, p, n)
  <2>1. written'[c] = {}
    BY <1>2, TransactionEnds DEF HoldsNothing
  <2>2. QED
    BY <1>2, <2>1, NoWork DEF SaveProduct, CallAfterRollback, OrderEffect
<1>3. CASE \/ \E p \in Products : CallDeleteProduct(c, p)
           \/ \E p \in Products, q \in 1..MaxQty : CallAddStock(c, p, q)
  <2>1. written'[c] = {} /\ OrdersKept(c)
    BY <1>3, ReadKeepsOrders
       DEF CallDeleteProduct, CallAddStock, engine, SessionInv, IdleHoldsNoLocks
  <2>2. ASSUME NEW p \in Products, CallDeleteProduct(c, p) PROVE Work(c)'
    BY <2>1, <2>2, NoWork DEF CallDeleteProduct
  <2>3. ASSUME NEW p \in Products, NEW q, CallAddStock(c, p, q) PROVE Work(c)'
    BY <2>1, <2>3, NoWork DEF CallAddStock
  <2>4. QED
    BY <1>3, <2>1, <2>2, <2>3 DEF OrderEffect
<1>4. QED
  BY <1>1, <1>2, <1>3 DEF ProductCall, OrderCall

(* The ends of a transaction, failed statements and the screens.           *)
LEMMA SessionWork ==
    ASSUME Inv1, NEW c \in Clients, Work(c),
           \/ CommitCall(c) \/ CommitReplyLost(c) \/ HandleError(c) \/ Disconnect(c)
           \/ PrologueFails(c) \/ LockError(c) \/ Browse(c)
    PROVE  OrderEffect(c) /\ Work(c)'
<1> USE DEF Inv1, AppTypes, OpFits, SaveLabels, Goto, OrderEffect
<1>1. CASE CommitCall(c) \/ HandleError(c)
  <2>1. written'[c] = {}
    BY <1>1, TransactionEnds DEF HoldsNothing
  <2>2. QED
    BY <1>1, <2>1, NoWork
       DEF CommitCall, HandleError, Finish, KnownOrder, NoJob, counters, history
<1>2. CASE CommitReplyLost(c)
  <2>1. written'[c] = {} /\ listed \subseteq listed'
    BY <1>2 DEF CommitReplyLost, Publish, Commit, EndTransaction, EngineTypes
  <2>2. KnownOrder(c)'
    BY <1>2, <2>1 DEF CommitReplyLost, KnownOrder, Work
  <2>3. QED
    BY <1>2, <2>1, <2>2, NoWork DEF CommitReplyLost, counters
<1>3. CASE Disconnect(c) \/ PrologueFails(c)
  <2>1. written'[c] = {}
    BY <1>3, TransactionEnds DEF HoldsNothing
  <2>2. KnownOrder(c)'
    BY <1>3 DEF Disconnect, PrologueFails, Lose, KnownOrder, Work, history
  <2>3. QED
    BY <1>3, <2>1, <2>2, NoWork DEF Disconnect, PrologueFails, Lose, counters, history
<1>4. CASE LockError(c) \/ Browse(c)
  <2>1. OrdersKept(c)
    BY <1>4, ReadKeepsOrders DEF LockError, Browse, Raise, counters, history
  <2>2. QED
    BY <1>4, <2>1, WorkKept DEF LockError, Browse, Raise, Saves, Work
<1>5. QED
  BY <1>1, <1>2, <1>3, <1>4

(* The statements that change no order row.                                *)
LEMMA QuietWork ==
    ASSUME Inv1, NEW c \in Clients, Work(c),
           \/ SelectCustomer(c) \/ OrderIdsUsedUp(c) \/ ReadProduct(c) \/ RefuseLine(c)
           \/ DeductStock(c) \/ ReadStatus(c) \/ ReadForDelete(c) \/ ReadItems(c)
           \/ Restock(c) \/ ProductStatement(c)
    PROVE  OrderEffect(c) /\ Work(c)'
<1> USE DEF Inv1, AppTypes, OpFits, SaveLabels, Goto, OrderStep, ProductStep, Raise, Saves,
            JobsReady, JobReady, ThisLine, OrderLabels
<1> job[c] \in Job /\ job[c].lines \in Seq(Line)
  BY DEF Job
<1>0. ASSUME NEW p \in Products, NEW row, UpdateProduct(c, p, row),
             UNCHANGED <<nextOrder, history>>
      PROVE  OrdersKept(c)
  BY <1>0, ProductWriteKeepsOrders, ReadKeepsOrders DEF UpdateProduct
<1>1. CASE SelectCustomer(c) \/ OrderIdsUsedUp(c) \/ RefuseLine(c)
  <2>1. OrdersKept(c)
    BY <1>1, ReadKeepsOrders DEF SelectCustomer, OrderIdsUsedUp, RefuseLine, history
  <2>2. QED
    BY <1>1, <2>1, WorkKept DEF SelectCustomer, OrderIdsUsedUp, RefuseLine, OrderEffect, Work
<1>2. CASE ReadProduct(c)
  <2>1. OrdersKept(c)
    BY <1>2, ReadKeepsOrders DEF ReadProduct, history
  <2>2. QED
    BY <1>2, <2>1, WorkKept DEF ReadProduct, OrderEffect, Work, ToCome
<1>3. CASE DeductStock(c)
  <2>1. OrdersKept(c)
    BY <1>3, <1>0, Lines DEF DeductStock, history
  <2>2. ToCome(c)' = ToCome(c)
    <3>1. /\ job'[c].lines = Tail(job[c].lines) /\ pc[c] = "save_stock"
          /\ pc'[c] = IF Tail(job[c].lines) = <<>> THEN "commit" ELSE "save_read"
      BY <1>3 DEF DeductStock, LoopTo
    <3>2. QED
      BY <3>1 DEF ToCome
  <2>3. QED
    BY <1>3, <2>1, <2>2, WorkKept DEF DeductStock, OrderEffect, Work, LoopTo
<1>4. CASE ReadStatus(c) \/ ReadForDelete(c)
  <2>1. OrdersKept(c)
    BY <1>4, ReadKeepsOrders DEF ReadStatus, ReadForDelete, history
  <2>2. /\ job'[c].op = job[c].op /\ job'[c].order = job[c].order
        /\ pc'[c] \notin SaveLabels \cup {"delete_header", "commit"} /\ pc[c] # "raise"
        /\ OpFits(c)'
    <3>1. CASE ReadStatus(c)
      BY <3>1 DEF ReadStatus, Work
    <3>2. CASE ReadForDelete(c)
      BY <3>2 DEF ReadForDelete, Work
    <3>3. QED
      BY <1>4, <3>1, <3>2
  <2>3. QED
    BY <2>1, <2>2, WorkKept DEF OrderEffect
<1>5. CASE ReadItems(c)
  <2>1. OrdersKept(c)
    BY <1>5, ReadKeepsOrders DEF ReadItems, history
  <2>2. QED
    BY <1>5, <2>1, WorkKept DEF ReadItems, OrderEffect, Work, LoopTo, AfterRestock
<1>6. CASE Restock(c)
  <2>1. OrdersKept(c)
    BY <1>6, <1>0, Lines, ReadKeepsOrders DEF Restock, history
  <2>2. CASE Raise(c)
    BY <1>6, <2>1, <2>2, WorkKept DEF Restock, OrderEffect, Work
  <2>3. CASE /\ job' = [job EXCEPT ![c].lines = Tail(job[c].lines)]
             /\ Goto(c, LoopTo(Tail(job[c].lines), "restock", AfterRestock(c)))
    <3>1. pc[c] = "restock" /\ job[c].op \in {"status", "delete"}
      BY <1>6 DEF Restock, Work
    <3>2. job'[c].op = job[c].op /\ job'[c].order = job[c].order
      BY <2>3
    <3>3. \/ pc'[c] = "restock"
          \/ pc'[c] = "delete_lines" /\ job[c].op = "delete"
          \/ pc'[c] = "commit" /\ job[c].op # "delete"
      BY <2>3 DEF LoopTo, AfterRestock
    <3>4. OpFits(c)' /\ ~Saves(c)'
      BY <3>1, <3>2, <3>3
    <3>5. QED
      BY <2>1, <3>1, <3>2, <3>3, <3>4, WorkKept DEF OrderEffect
  <2>4. QED
    BY <1>6, <2>2, <2>3 DEF Restock
<1>7. CASE ProductStatement(c)
  <2>1. job[c].product \in Products
    BY <1>7 DEF ProductStatement, InsertProduct, AddStock, DeleteProduct
  <2>2. OrdersKept(c)
    BY <1>7, <1>0, <2>1, ReadKeepsOrders, ProductWriteKeepsOrders
       DEF ProductStatement, InsertProduct, AddStock, DeleteProduct
  <2>3. QED
    BY <1>7, <2>2, WorkKept
       DEF ProductStatement, InsertProduct, AddStock, DeleteProduct, OrderEffect, Work
<1>8. QED
  BY <1>1, <1>2, <1>3, <1>4, <1>5, <1>6, <1>7

-----------------------------------------------------------------------------
(* INSERT INTO orders: none of the items is there yet.                     *)
LEMMA InsertOrderWork ==
    ASSUME Inv1, UnusedIds, NEW c \in Clients, Work(c), InsertOrder(c)
    PROVE  OrderEffect(c) /\ Work(c)'
<1> USE DEF Inv1, AppTypes, OpFits, SaveLabels, Goto, OrderStep, InsertOrder
<1> PICK o : o = nextOrder
  OBVIOUS
<1>0. job[c] \in Job /\ job[c].lines \in Seq(Line) /\ job[c].lines # <<>>
  BY DEF Job, JobsReady, JobReady
<1>1. /\ o \in OrderIds /\ Ord(o) \in Rows /\ Items(o) \in Rows /\ Ord(o) \notin listed
      /\ newest[Ord(o)] = Absent /\ committed[Ord(o)] = Absent
      /\ newest[Items(o)] = Absent
  BY RowsAndValues DEF UnusedIds
<1>2. Write(c, Ord(o), "PENDING", {}) /\ "PENDING" # Absent
  BY ShopAssumption DEF ShopAssumption, Statuses
<1>3. /\ written'[c] = written[c] \cup {Ord(o)}
      /\ newest'[Ord(o)] = "PENDING" /\ newest'[Items(o)] = Absent
      /\ committed' = committed
  BY <1>1, <1>2, RowsDiffer DEF Write, EngineTypes, IsContents
<1>4. /\ job'[c].order = o /\ job'[c].op = "save" /\ job'[c].lines = job[c].lines
      /\ pc'[c] = "save_read" /\ listed' = listed /\ placed'[o] = job[c].lines
  BY <1>0, <1>1 DEF Work
<1>5. OwnOrder(c)'
  <2>1. \A e \in OrderIds : Ord(e) \notin written[c] /\ Items(e) \notin written[c]
    BY ShopAssumption DEF Work, OwnOrder, NoOrder, OrderIds, ShopAssumption
  <2>2. QED
    BY <1>3, <1>4, <2>1, RowsDiffer DEF OwnOrder
<1>6. SavesWhole(c)'
  <2>1. SoFar(o)' = <<>> /\ ToCome(c)' = job[c].lines
    BY <1>3, <1>4 DEF SoFar, ToCome
  <2>2. <<>> \o job[c].lines = job[c].lines
    BY <1>0
  <2>3. HalfSaved(c, o)'
    BY <1>0, <1>1, <1>2, <1>3, <1>4, <2>1, <2>2 DEF HalfSaved
  <2>4. QED
    BY <1>4, <2>3 DEF SavesWhole
<1>7. QED
  BY <1>1, <1>2, <1>4, <1>5, <1>6
     DEF OrderEffect, Work, KnownOrder, ChangesHeader, DeletesWhole

(* Moving the first of what is to come to what is there.                   *)
LEMMA MoveOne ==
    ASSUME NEW T, NEW s \in Seq(T), NEW t \in Seq(T), t # <<>>
    PROVE  Append(s, Head(t)) \o Tail(t) = s \o t
  OBVIOUS

(* INSERT INTO order_items: one more of the list is there.                 *)
LEMMA InsertLineWork ==
    ASSUME Inv1, NEW c \in Clients, Work(c), InsertLine(c)
    PROVE  OrderEffect(c) /\ Work(c)'
<1> USE DEF Inv1, AppTypes, OpFits, SaveLabels, Goto, OrderStep
<1> PICK o, lines : o = job[c].order /\ lines = job[c].lines
  OBVIOUS
<1> DEFINE v == Append(SoFar(o), Head(lines))
           parents == {Prod(Head(lines).product)}
<1>0. job[c] \in Job /\ lines \in Seq(Line) /\ lines # <<>> /\ Head(lines) \in Line
  BY Lines DEF InsertLine, Job, JobsReady, JobReady
<1>1. HalfSaved(c, o) /\ ToCome(c) = lines /\ job[c].op = "save" /\ pc[c] = "save_line"
  BY DEF Work, SavesWhole, Saves, InsertLine, ToCome
<1>2. SoFar(o) \in Seq(Line)
  <2>1. newest[Items(o)] \in Seq(Line) \cup {Absent}
    BY <1>1, RowsAndValues DEF EngineTypes, IsContents, HalfSaved
  <2>2. QED
    BY <2>1 DEF SoFar
<1>3. CASE Raise(c)
  <2>1. OrdersKept(c)
    BY <1>3, ReadKeepsOrders DEF InsertLine, Raise, history
  <2>2. QED
    BY <1>1, <1>3, <2>1, WorkKept DEF Raise, OrderEffect, Saves
<1>4. CASE Write(c, Items(o), v, parents) /\ Goto(c, "save_stock") /\ UNCHANGED job
  <2>1. o \in OrderIds /\ Items(o) \in Rows /\ Ord(o) \in Rows
    BY <1>1, RowsAndValues DEF HalfSaved
  <2>2. v \in Seq(Line) /\ v # Absent /\ v # newest[Items(o)]
    <3>1. v \in Seq(Line) /\ Len(v) = Len(SoFar(o)) + 1 /\ Len(SoFar(o)) \in Nat
      BY <1>0, <1>2
    <3>2. v # Absent /\ v # SoFar(o)
      BY <3>1, ShopAssumption DEF ShopAssumption
    <3>3. newest[Items(o)] \in {Absent, SoFar(o)}
      BY DEF SoFar
    <3>4. QED
      BY <3>1, <3>2, <3>3
  <2>3. /\ newest'[Items(o)] = v /\ newest'[Ord(o)] = newest[Ord(o)]
        /\ written'[c] = written[c] \cup {Items(o)} /\ committed' = committed
    <3>1. v # newest[Items(o)]
      BY <2>2
    <3>2. QED
      BY <1>4, <2>1, <3>1, RowsDiffer DEF Write, EngineTypes, IsContents
  <2>4. UNCHANGED <<nextOrder, history>>
    BY DEF InsertLine, history
  <2>5. parents \in SUBSET Rows
    BY <1>0, RowsAndValues DEF Line
  <2>6. OrderEffect(c)
    BY <1>1, <1>4, <2>1, <2>2, <2>4, <2>5 DEF OrderEffect, HalfSaved
  <2>7. SavesWhole(c)'
    <3>1. SoFar(o)' = v /\ ToCome(c)' = Tail(lines)
      BY <1>4, <2>2, <2>3 DEF SoFar, ToCome
    <3>2. v \o Tail(lines) = SoFar(o) \o lines
      BY <1>0, <1>2, MoveOne
    <3>3. HalfSaved(c, o)'
      BY <1>1, <2>3, <2>4, <3>1, <3>2 DEF HalfSaved, history
    <3>4. QED
      BY <1>4, <3>3 DEF SavesWhole
  <2>8. OwnOrder(c)'
    BY <1>1, <1>4, <2>3, RowsDiffer DEF Work, OwnOrder
  <2>9. QED
    BY <1>1, <1>4, <2>6, <2>7, <2>8 DEF Work, KnownOrder, ChangesHeader, DeletesWhole
<1>5. QED
  BY <1>3, <1>4 DEF InsertLine, ThisLine, SoFar

-----------------------------------------------------------------------------
(* A row that may be written has one version, or is the writer's own.      *)
LEMMA MayWriteVersions ==
    ASSUME Locked, NEW c \in Clients, NEW r \in Rows, MayWrite(c, r)
    PROVE  newest[r] = committed[r] \/ r \in written[c]
  BY DEF Locked, MayWrite

(* UPDATE orders SET status: of an order that is there.                    *)
LEMMA WriteStatusWork ==
    ASSUME Inv1, Locked, NEW c \in Clients, Work(c), WriteStatus(c)
    PROVE  OrderEffect(c) /\ Work(c)'
<1> USE DEF Inv1, AppTypes, OpFits, SaveLabels, Goto, OrderStep
<1> PICK o : o = job[c].order
  OBVIOUS
<1>0. /\ o \in OrderIds /\ Ord(o) \in listed /\ job[c].new \in Statuses
      /\ job[c].op = "status" /\ pc[c] = "status_write"
      /\ Ord(o) \in Rows /\ Items(o) \in Rows
  BY RowsAndValues DEF WriteStatus, Work, KnownOrder, JobsReady, JobReady
<1>1. /\ job' = job /\ pc'[c] \in {"items_read", "commit"}
      /\ UNCHANGED <<nextOrder, history>>
  BY DEF WriteStatus, history
<1>2. CASE UNCHANGED engine
  <2>1. OrdersKept(c)
    BY <1>1, <1>2, ReadKeepsOrders
  <2>2. QED
    BY <1>0, <1>1, <2>1, WorkKept DEF OrderEffect, Saves
<1>3. CASE newest[Ord(o)] # Absent /\ Write(c, Ord(o), job[c].new, {})
  <2>1. committed[Ord(o)] # Absent
    <3>1. newest[Ord(o)] = committed[Ord(o)] \/ Ord(o) \in written[c]
      BY <1>0, <1>3, MayWriteVersions DEF Write
    <3>2. QED
      BY <1>0, <1>3, <3>1 DEF Work, ChangesHeader
  <2>2. /\ newest'[Ord(o)] # Absent /\ committed'[Ord(o)] # Absent
        /\ written'[c] \in {written[c], written[c] \cup {Ord(o)}}
    BY <1>0, <1>3, <2>1, ShopAssumption
       DEF Write, EngineTypes, IsContents, ShopAssumption
  <2>3. OwnOrder(c)'
    BY <1>0, <1>1, <2>2, RowsDiffer DEF Work, OwnOrder
  <2>4. ChangesHeader(c)'
    BY <1>0, <1>1, <2>2, RowsDiffer DEF Work, ChangesHeader
  <2>5. QED
    BY <1>0, <1>1, <1>3, <2>3, <2>4
       DEF OrderEffect, Work, KnownOrder, SavesWhole, Saves, DeletesWhole, history
<1>4. QED
  BY <1>2, <1>3 DEF WriteStatus

(* DELETE of a row: it is gone now, or was before.                         *)
LEMMA DeleteRowGone ==
    ASSUME EngineTypes, Locked, NEW c \in Clients, NEW r \in Rows, DeleteRow(c, r)
    PROVE  /\ Gone(c, r)'
           /\ written'[c] \in {written[c], written[c] \cup {r}}
           /\ \A q \in Rows : q # r /\ Gone(c, q) => Gone(c, q)'
<1> USE DEF EngineTypes, IsContents
<1>1. CASE newest[r] = Absent /\ UNCHANGED engine
  BY <1>1, MayWriteVersions DEF DeleteRow, Gone, engine
<1>2. CASE newest[r] # Absent /\ Write(c, r, Absent, {})
  BY <1>2 DEF Write, Gone
<1>3. QED
  BY <1>1, <1>2 DEF DeleteRow

(* DELETE FROM order_items, then FROM orders.                              *)
LEMMA DeleteWork ==
    ASSUME Inv1, Locked, UnusedIds, NEW c \in Clients, Work(c), DeleteLines(c) \/ DeleteHeader(c)
    PROVE  OrderEffect(c) /\ Work(c)'
<1> USE DEF Inv1, AppTypes, OpFits, SaveLabels, Goto, OrderStep
<1> PICK o : o = job[c].order
  OBVIOUS
<1>0. /\ o \in OrderIds /\ Ord(o) \in listed /\ job[c].op = "delete"
      /\ Ord(o) \in Rows /\ Items(o) \in Rows
  BY RowsAndValues DEF DeleteLines, DeleteHeader, Work, KnownOrder
<1>1. job' = job /\ UNCHANGED <<nextOrder, history>>
  BY DEF DeleteLines, DeleteHeader, DeleteRow, history
<1>2. ASSUME written'[c] \in {written[c], written[c] \cup {Ord(o)},
                              written[c] \cup {Items(o)}},
             pc'[c] \in {"delete_header", "commit"}, DeletesWhole(c)'
      PROVE  Work(c)'
  <2>1. OwnOrder(c)'
    BY <1>0, <1>1, <1>2, RowsDiffer DEF Work, OwnOrder, DeleteLines, DeleteHeader
  <2>2. QED
    BY <1>0, <1>1, <1>2, <2>1
       DEF Work, KnownOrder, SavesWhole, Saves, ChangesHeader, history
<1>3. CASE DeleteLines(c)
  <2>1. DeleteRow(c, Items(o)) /\ pc'[c] = "delete_header"
    BY <1>3 DEF DeleteLines
  <2>2. OrderEffect(c)
    <3>1. CASE UNCHANGED engine
      BY <1>1, <3>1, ReadKeepsOrders DEF OrderEffect
    <3>2. CASE Write(c, Items(o), Absent, {})
      BY <1>0, <1>1, <3>2 DEF OrderEffect
    <3>3. QED
      BY <2>1, <3>1, <3>2 DEF DeleteRow
  <2>3. Gone(c, Items(o))' /\ written'[c] \in {written[c], written[c] \cup {Items(o)}}
    BY <1>0, <2>1, DeleteRowGone
  <2>4. DeletesWhole(c)'
    BY <1>1, <2>1, <2>3 DEF DeletesWhole
  <2>5. QED
    BY <1>2, <2>1, <2>2, <2>3, <2>4
<1>4. CASE DeleteHeader(c)
  <2>1. DeleteRow(c, Ord(o)) /\ pc'[c] = "commit" /\ Gone(c, Items(o))
    BY <1>4 DEF DeleteHeader, Work, DeletesWhole
  <2>2. OrderEffect(c)
    <3>1. CASE UNCHANGED engine
      BY <1>1, <3>1, ReadKeepsOrders DEF OrderEffect
    <3>2. CASE newest[Ord(o)] # Absent /\ Write(c, Ord(o), Absent, {})
      BY <1>0, <1>1, <3>2 DEF OrderEffect
    <3>3. QED
      BY <2>1, <3>1, <3>2 DEF DeleteRow
  <2>3. /\ Gone(c, Ord(o))' /\ Gone(c, Items(o))'
        /\ written'[c] \in {written[c], written[c] \cup {Ord(o)}}
    BY <1>0, <2>1, DeleteRowGone, RowsDiffer
  <2>4. DeletesWhole(c)'
    BY <1>1, <2>1, <2>3 DEF DeletesWhole
  <2>5. QED
    BY <1>2, <2>1, <2>2, <2>3, <2>4
<1>5. QED
  BY <1>3, <1>4

-----------------------------------------------------------------------------
(* What every action of c does to orders, and to c's own work.             *)
LEMMA ActionWork ==
    ASSUME Inv1, SessionInv, Locked, UnusedIds, NEW c \in Clients, Work(c),
           \/ OrderCall(c) \/ ProductCall(c) \/ Browse(c) \/ Proceed(c)
           \/ CommitReplyLost(c) \/ Disconnect(c) \/ PrologueFails(c)
    PROVE  OrderEffect(c) /\ Work(c)'
  BY CallWork, SessionWork, QuietWork, InsertOrderWork, InsertLineWork, WriteStatusWork,
     DeleteWork
     DEF Proceed, OrderStatement

(* An action of c is not seen by the other applications themselves.        *)
LEMMA ActionOthers ==
    ASSUME Inv1, NEW c \in Clients,
           \/ OrderCall(c) \/ ProductCall(c) \/ Browse(c) \/ Proceed(c)
           \/ CommitReplyLost(c) \/ Disconnect(c) \/ PrologueFails(c),
           NEW d \in Clients, d # c
    PROVE  pc'[d] = pc[d] /\ job'[d] = job[d] /\ written'[d] = written[d]
<1>1. OthersKept(c)
  BY StatementSession, TransactionEnds, NoRollbackSession DEF Proceed, ProductCall
<1>2. job'[d] = job[d]
  <2> USE DEF Inv1, AppTypes
  <2>1. CASE OrderCall(c) \/ ProductCall(c)
    BY <2>1 DEF OrderCall, SaveTransaction, UpdateStatus, DeleteTransaction, ProductCall,
                SaveProduct, CallDeleteProduct, CallAddStock, CallAfterRollback, Call
  <2>2. CASE \/ Browse(c) \/ CommitReplyLost(c) \/ Disconnect(c) \/ PrologueFails(c)
             \/ CommitCall(c) \/ HandleError(c) \/ LockError(c)
    BY <2>2 DEF Browse, CommitReplyLost, Disconnect, PrologueFails, Lose, CommitCall,
                HandleError, LockError, Finish, Raise
  <2>3. CASE OrderStatement(c)
    BY <2>3 DEF OrderStatement, SelectCustomer, InsertOrder, OrderIdsUsedUp, ReadProduct,
                RefuseLine, InsertLine, DeductStock, ReadStatus, WriteStatus,
                ReadForDelete, ReadItems, Restock, DeleteLines, DeleteHeader, DeleteRow, Raise
  <2>4. CASE ProductStatement(c)
    BY <2>4 DEF ProductStatement, InsertProduct, AddStock, DeleteProduct, Raise
  <2>5. QED
    BY <2>1, <2>2, <2>3, <2>4 DEF Proceed
<1>3. QED
  BY <1>1, <1>2 DEF OthersKept

(* At first there is no order and nobody works on one.                     *)
LEMMA InitOrderInv == Init => OrderInv
<1> SUFFICES ASSUME Init PROVE OrderInv
  OBVIOUS
<1>1. \A o \in OrderIds : /\ newest[Ord(o)] = Absent /\ committed[Ord(o)] = Absent
                          /\ newest[Items(o)] = Absent /\ committed[Items(o)] = Absent
                          /\ Ord(o) \notin listed
  BY RowsAndValues DEF Init, EngineInit, ProdRows, Prod, Ord, Items
<1>2. \A c \in Clients : pc[c] = "idle" /\ job[c] = NoJob /\ written[c] = {}
  BY DEF Init, EngineInit
<1>3. ASSUME NEW c \in Clients PROVE Work(c)
  BY <1>2 DEF Work, OpFits, OwnOrder, KnownOrder, SavesWhole, Saves, ChangesHeader,
              DeletesWhole, SaveLabels, NoJob
<1>4. QED
  BY <1>1, <1>2, <1>3 DEF OrderInv, OrdersWhole, UnusedIds, ItemsAfterOrder

(* Every step keeps orders whole, and everybody's work on them in order.   *)
LEMMA StepOrderInv ==
    Inv1 /\ SessionInv /\ EngineInv /\ OrderInv /\ [Next]_vars => OrderInv'
<1> SUFFICES ASSUME Inv1, SessionInv, EngineInv, OrderInv, [Next]_vars PROVE OrderInv'
  OBVIOUS
<1>1. CASE UNCHANGED vars
  <2>1. ASSUME NEW c \in Clients, Work(c) PROVE Work(c)'
    <3>1. SoFar(job[c].order)' = SoFar(job[c].order) /\ ToCome(c)' = ToCome(c)
      BY <1>1 DEF SoFar, ToCome, vars, engine
    <3>2. SavesWhole(c)'
      BY <1>1, <2>1, <3>1 DEF Work, SavesWhole, Saves, HalfSaved, vars, engine, history
    <3>3. (/\ OpFits(c) /\ OwnOrder(c) /\ KnownOrder(c)
           /\ ChangesHeader(c) /\ DeletesWhole(c))'
      BY <1>1, <2>1 DEF Work, OpFits, OwnOrder, KnownOrder, ChangesHeader, DeletesWhole,
                        Gone, vars, engine, history
    <3>4. QED
      BY <3>2, <3>3 DEF Work
  <2>2. OrdersWhole' /\ UnusedIds' /\ ItemsAfterOrder'
    BY <1>1 DEF OrderInv, OrdersWhole, UnusedIds, ItemsAfterOrder, vars, engine, counters,
                history
  <2>3. QED
    BY <2>1, <2>2 DEF OrderInv
<1>2. CASE Next
  <2>1. PICK c \in Clients : \/ OrderCall(c) \/ ProductCall(c) \/ Browse(c) \/ Proceed(c)
                             \/ CommitReplyLost(c) \/ Disconnect(c) \/ PrologueFails(c)
    BY <1>2 DEF Next
  <2>2. OrderEffect(c) /\ Work(c)'
    BY <2>1, ActionWork DEF OrderInv, EngineInv
  <2>3. ASSUME NEW d \in Clients, d # c
        PROVE  pc'[d] = pc[d] /\ job'[d] = job[d] /\ written'[d] = written[d]
    BY <2>1, <2>3, ActionOthers
  <2>4. ASSUME NEW d \in Clients PROVE Work(d)'
    BY <2>2, <2>3, OthersWork DEF EngineInv
  <2>5. UnusedIds' /\ ItemsAfterOrder'
    BY <2>2, <2>3, StepUnused, StepItems DEF OrderInv
  <2>6. OrdersWhole'
    BY <2>2, StepWhole
  <2>7. QED
    BY <2>4, <2>5, <2>6 DEF OrderInv
<1>3. QED
  BY <1>1, <1>2

(* A committed order has all the items it was placed with, and no item     *)
(* outlives its order, however saves, cancellations and deletions of any   *)
(* number of applications are interleaved and cut off (order.py, lines 31  *)
(* to 73 and 128 to 151).                                                  *)
THEOREM OrdersStayWhole == Spec => []OrdersWhole
<1>1. OrderInv => OrdersWhole
  BY DEF OrderInv
<1>2. QED
  BY <1>1, InitInv1, StepInv1, InitSession, StepSession, InitEngineInv, StepEngineInv,
     InitOrderInv, StepOrderInv, PTL
     DEF Spec
=============================================================================
